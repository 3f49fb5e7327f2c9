---------------------------- MODULE DeliveryProofs ----------------------------
(***************************************************************************)
(* Theorems about Orchestration that count: executions, open execution log *)
(* rows, and the entries of queued jobs; for any sets of jobs, slots,      *)
(* schedulers and replays, and any number of disturbances.                 *)
(***************************************************************************)
EXTENDS OrchestrationProofs, Counting

USE DEF BullIds

--------------------------------------------------------------------------------
(* Disturbances are spent, and never come back.                            *)

BudgetsBounded == \A k \in Disturbances : budget[k] <= Limits[k]

(* A step spends nothing, or one disturbance of one kind.                  *)
LEMMA BudgetSteps ==
    ASSUME [Next]_vars
    PROVE  UNCHANGED budget \/ \E k \in Disturbances : Spend(k)
<1>1. CASE UNCHANGED vars
  BY <1>1 DEF vars
<1>2. ASSUME NEW s \in Schedulers, ScheduleStep(s) \/ RecoverStep(s) PROVE UNCHANGED budget
  BY <1>2 DEF ScheduleStep, RecoverStep, scheduleReadyJobs, recoverStalledJobs, ClaimBatch,
              Enqueue, FindStalled, Recover
<1>3. ASSUME NEW w \in Workers, WorkerStep(w) PROVE UNCHANGED budget
  BY <1>3 DEF WorkerStep, WorkerRuns, Take, SkipCancelled, StartProcessing, MarkRunning,
              Execute, SaveJob, SaveLog, Notify, LoadFailure, SettleRetrying, SettleFailed,
              DeadLetter, Ack
<1>4. ASSUME ServiceRuns PROVE UNCHANGED budget \/ Spend("call")
  BY <1>4 DEF ServiceRuns, Submit, CancelCheck, CancelWrite, RetryCheck, RetryWrite,
              ReplayGet, ReplayAdd, ReplayRemove, Request
<1>5. ASSUME Disturbance PROVE \E k \in Disturbances : Spend(k)
  BY <1>5 DEF Disturbance, SchedulerFails, EnqueueFails, EnqueueAndRevertFail, RecoverFails,
              SchedulerCrash, WorkerFails, Throw, Crash, LockLost, Expire, Disturbances
<1> QED
  BY <1>1, <1>2, <1>3, <1>4, <1>5
     DEF Next, JobAges, JobFallsDue, StallStep, StalledCheck, Disturbances

(* What is spent stays spent, and the amounts are natural numbers.         *)
LEMMA SpentGrows ==
    ASSUME WellFormed, BudgetsBounded, [Next]_vars
    PROVE  /\ BudgetsBounded'
           /\ \A k \in Disturbances : /\ Spent(k) \in Nat /\ Spent(k)' \in Nat
                                      /\ Spent(k) <= Spent(k)'
           /\ \A k \in Disturbances : Spend(k) => Spent(k)' = Spent(k) + 1
<1>1. \A k \in Disturbances : budget[k] \in Nat /\ Limits[k] \in Nat
  BY LimitsAssumption DEF WellFormed, EnvironmentTypeOK
<1>2. ASSUME NEW k \in Disturbances, Spend(k)
      PROVE  /\ budget[k] > 0 /\ budget'[k] = budget[k] - 1
             /\ \A i \in Disturbances : i # k => budget'[i] = budget[i]
  BY <1>2 DEF Spend, WellFormed, EnvironmentTypeOK
<1>3. \A k \in Disturbances : budget'[k] \in Nat /\ budget'[k] <= budget[k]
  BY <1>1, <1>2, BudgetSteps
<1> QED BY <1>1, <1>2, <1>3 DEF BudgetsBounded, Spent

--------------------------------------------------------------------------------
(* Queued jobs.                                                            *)

(* An update writes a status, and none writes QUEUED.                      *)
LEMMA NeverQueued ==
    ASSUME RepositoryTypeOK, NEW j \in Jobs, NEW dto \in DtoType, update(j, dto),
           dto.status \notin {"QUEUED", Undefined}
    PROVE  \A k \in Jobs : jobs'[k].status = "QUEUED" => jobs[k].status = "QUEUED"
BY UpdateRow

(* Only a claim makes a job QUEUED, and the scheduler that claimed it has  *)
(* it in its batch.                                                        *)
LEMMA QueuedSteps ==
    ASSUME WellFormed, Next, NEW j \in Jobs, jobs'[j].status = "QUEUED"
    PROVE  \/ jobs[j].status = "QUEUED"
           \/ \E s \in Schedulers : j \in sched'[s].claimed
<1> DEFINE Goal == \/ jobs[j].status = "QUEUED"
                   \/ \E s \in Schedulers : j \in sched'[s].claimed
<1> USE DEF WellFormed
<1>0. ASSUME UNCHANGED jobs PROVE Goal
  BY <1>0
<1>1. ASSUME NEW s \in Schedulers, ClaimBatch(s) PROVE Goal
  <2>1. PICK K \in SUBSET Jobs : claimPendingJobs(K) /\ sched' = [sched EXCEPT ![s].claimed = K]
    BY <1>1 DEF ClaimBatch, Batches, Claimable
  <2>2. sched'[s].claimed = K
    BY <2>1 DEF SchedulerTypeOK
  <2>3. j \in K \/ jobs'[j] = jobs[j]
    BY <2>1 DEF claimPendingJobs
  <2> QED BY <2>2, <2>3
<1>2. ASSUME NEW s \in Schedulers, NEW i \in Jobs, EnqueueFails(s, i) PROVE Goal
  BY <1>2, NeverQueued, DtoTypes, QuietDtos DEF EnqueueFails, JobStatus
<1>3. ASSUME NEW w \in Workers, MarkRunning(w) \/ SaveJob(w) \/ SettleRetrying(w) \/ SettleFailed(w)
      PROVE Goal
  <2>1. worker[w].job \in Jobs /\ worker[w] \in Slot
    BY <1>3 DEF MarkRunning, SaveJob, SettleRetrying, SettleFailed, Delivery, SlotsHaveEntries,
                Busy, WorkerTypeOK
  <2>2. CASE MarkRunning(w)
    BY <2>1, <2>2, NeverQueued, DtoTypes, QuietDtos DEF MarkRunning, JobStatus
  <2>3. CASE SaveJob(w)
    BY <2>1, <2>3, NeverQueued, DtoTypes, QuietDtos DEF SaveJob, JobStatus
  <2>4. CASE SettleRetrying(w)
    <3> DEFINE dto == [Dto EXCEPT !.status = "RETRYING", !.retryCount = newRetryCount(w),
                                  !.startedAt = Undefined]
    <3>1. newRetryCount(w) \in Nat
      BY <2>1 DEF newRetryCount, Slot
    <3>2. dto \in DtoType /\ dto.status \notin {"QUEUED", Undefined}
      BY <3>1, DtoTypes, JobsAssumption DEF Dto, JobStatus
    <3>3. update(worker[w].job, dto)
      BY <2>4 DEF SettleRetrying
    <3> HIDE DEF dto
    <3> QED BY <2>1, <3>2, <3>3, NeverQueued
  <2>5. CASE SettleFailed(w)
    BY <2>1, <2>5, NeverQueued, DtoTypes, QuietDtos DEF SettleFailed, JobStatus
  <2> QED BY <1>3, <2>2, <2>3, <2>4, <2>5
<1>4. ASSUME NEW i \in Jobs, CancelWrite(i) \/ RetryWrite(i) PROVE Goal
  BY <1>4, NeverQueued, DtoTypes, QuietDtos DEF CancelWrite, RetryWrite, JobStatus
<1>5. ASSUME NEW i \in Jobs, Submit(i) \/ StartedAtAges(i) \/ ScheduledTimeArrives(i)
      PROVE  Goal
  <2>1. jobs[i] \in Row
    BY DEF RepositoryTypeOK
  <2>2. CASE Submit(i)
    BY <2>1, <2>2 DEF Submit, create, Row, RepositoryTypeOK
  <2>3. CASE StartedAtAges(i)
    BY <2>1, <2>3 DEF StartedAtAges, Row, RepositoryTypeOK
  <2>4. CASE ScheduledTimeArrives(i)
    BY <2>1, <2>4 DEF ScheduledTimeArrives, Row, RepositoryTypeOK
  <2> QED BY <1>5, <2>2, <2>3, <2>4
<1>6. ASSUME NEW s \in Schedulers, NEW r \in sched[s].stalled, Recover(s, r) PROVE Goal
  <2>1. r \in Snapshot /\ r.job \in Jobs
    BY DEF SchedulerTypeOK, Snapshot
  <2>2. RecoveryDto(r).status \notin {"QUEUED", Undefined}
    BY JobsAssumption DEF RecoveryDto, Dto, JobStatus
  <2> QED BY <1>6, <2>1, <2>2, DtoTypes, NeverQueued DEF Recover
<1> HIDE DEF Goal
<1>7. ASSUME NEW s \in Schedulers, ScheduleStep(s) \/ RecoverStep(s) \/ SchedulerFails(s)
      PROVE  Goal
  BY <1>0, <1>1, <1>2, <1>6, <1>7
     DEF ScheduleStep, RecoverStep, scheduleReadyJobs, recoverStalledJobs, SchedulerFails,
         Enqueue, EnqueueAndRevertFail, FindStalled, RecoverFails, SchedulerCrash
<1>8. ASSUME NEW w \in Workers, WorkerStep(w) \/ WorkerFails(w) PROVE Goal
  BY <1>0, <1>3, <1>8
     DEF WorkerStep, WorkerRuns, WorkerFails, Take, SkipCancelled, StartProcessing,
         Execute, SaveLog, Notify, LoadFailure, DeadLetter, Ack, Throw, Crash
<1>9. ASSUME ServiceRuns PROVE Goal
  BY <1>0, <1>4, <1>5, <1>9
     DEF ServiceRuns, CancelCheck, RetryCheck, ReplayGet, ReplayAdd, ReplayRemove
<1>10. Goal
  BY <1>0, <1>5, <1>7, <1>8, <1>9
     DEF Next, JobAges, JobFallsDue, StallStep, StalledCheck, Disturbance
<1> QED BY <1>10 DEF Goal

(* A job leaves the batch of a scheduler with an entry, back to PENDING,   *)
(* or because of a failing revert or a crash.                              *)
LEMMA ClaimedSteps ==
    ASSUME WellFormed, Next, NEW j \in Jobs, NEW s \in Schedulers, j \in sched[s].claimed
    PROVE  \/ j \in sched'[s].claimed
           \/ Enqueue(s, j) \/ EnqueueFails(s, j)
           \/ Spend("outage") \/ Spend("schedulerCrash")
<1> USE DEF WellFormed, SchedulerTypeOK
<1>1. CASE UNCHANGED sched
  BY <1>1
<1>2. ASSUME NEW t \in Schedulers, ClaimBatch(t) PROVE j \in sched'[s].claimed
  BY <1>2 DEF ClaimBatch
<1>3. ASSUME NEW t \in Schedulers, NEW i \in Jobs, i # j \/ t # s,
             Enqueue(t, i) \/ EnqueueFails(t, i) \/ EnqueueAndRevertFail(t, i)
      PROVE  j \in sched'[s].claimed
  BY <1>3 DEF Enqueue, EnqueueFails, EnqueueAndRevertFail
<1>4. ASSUME NEW t \in Schedulers, FindStalled(t) \/ RecoverFails(t)
      PROVE  j \in sched'[s].claimed
  BY <1>4 DEF FindStalled, RecoverFails
<1>5. ASSUME NEW t \in Schedulers, NEW r \in sched[t].stalled, Recover(t, r)
      PROVE  j \in sched'[s].claimed
  BY <1>5 DEF Recover
<1>6. ASSUME NEW t \in Schedulers, EnqueueAndRevertFail(t, j) \/ SchedulerCrash(t)
      PROVE  Spend("outage") \/ Spend("schedulerCrash")
  BY <1>6 DEF EnqueueAndRevertFail, SchedulerCrash
<1> QED
  BY <1>1, <1>2, <1>3, <1>4, <1>5, <1>6
     DEF Next, ScheduleStep, RecoverStep, WorkerStep, JobAges, JobFallsDue, StallStep,
         Disturbance, scheduleReadyJobs, recoverStalledJobs, SchedulerFails

(* BullMQ forgets an entry only when it expires.                           *)
LEMMA EntrySteps ==
    ASSUME WellFormed, Next, NEW id \in BullIds, bull[id].state # "none"
    PROVE  bull'[id].state # "none" \/ Spend("expiry")
<1> USE DEF WellFormed, Delivery, QueueTypeOK
<1>0. \A i \in BullIds : bull[i] \in Entry
  OBVIOUS
<1>1. CASE UNCHANGED bull
  BY <1>1
<1>2. ASSUME NEW i \in BullIds, NEW j, add(i, j) PROVE bull'[id].state # "none"
  BY <1>2 DEF add
<1>3. ASSUME NEW w \in Workers, NEW i \in BullIds,
             moveToActive(w, i) \/ moveToCompleted(w, i) \/ releaseLock(w, i)
      PROVE  bull'[id].state # "none"
  <2>1. CASE moveToActive(w, i)
    BY <1>0, <2>1 DEF moveToActive, Entry
  <2>2. CASE moveToCompleted(w, i)
    BY <1>0, <2>2 DEF moveToCompleted, Entry
  <2>3. CASE releaseLock(w, i)
    BY <1>0, <2>3 DEF releaseLock, Entry
  <2> QED BY <1>3, <2>1, <2>2, <2>3
<1>4. ASSUME NEW w \in Workers, NEW i \in BullIds, moveToFailed(w, i)
      PROVE  bull'[id].state # "none"
  <2> DEFINE st == IF bull[i].made + 1 < Attempts THEN "waiting" ELSE "failed"
             e == [bull[i] EXCEPT !.state = st, !.lock = Null, !.made = bull[i].made + 1]
  <2>1. e.state # "none"
    BY <1>0 DEF Entry
  <2>2. bull' = bull \/ bull' = [bull EXCEPT ![i] = e]
    BY <1>4 DEF moveToFailed
  <2> HIDE DEF e
  <2> QED BY <2>1, <2>2
<1>5. ASSUME NEW i \in BullIds, StalledCheck(i) PROVE bull'[id].state # "none"
  <2> DEFINE st == IF bull[i].stalls + 1 > MaxStalledCount THEN "failed" ELSE "waiting"
             e == [bull[i] EXCEPT !.state = st, !.stalls = bull[i].stalls + 1]
  <2>1. e.state # "none"
    BY <1>0 DEF Entry
  <2>2. bull' = [bull EXCEPT ![i] = e]
    BY <1>5 DEF StalledCheck
  <2> HIDE DEF e
  <2> QED BY <2>1, <2>2
<1>6. ASSUME NEW i \in BullIds, LockLost(i) PROVE bull'[id].state # "none"
  BY <1>0, <1>6 DEF LockLost, Entry
<1>7. \A w \in Workers : Busy(w) => worker[w].bull \in BullIds
  BY DEF SlotsHaveEntries
<1>8. ASSUME NEW w \in Workers, WorkerStep(w) \/ WorkerFails(w) PROVE bull'[id].state # "none"
  <2>1. CASE \E i \in BullIds : Take(w, i)
    BY <1>3, <2>1 DEF Take
  <2>2. CASE Ack(w)
    BY <1>3, <1>7, <2>2 DEF Ack, Busy
  <2>3. CASE Throw(w)
    BY <1>4, <1>7, <2>3 DEF Throw, Busy
  <2>4. CASE Crash(w)
    BY <1>3, <1>7, <2>4 DEF Crash
  <2> QED BY <1>1, <1>8, <2>1, <2>2, <2>3, <2>4
          DEF WorkerStep, WorkerRuns, WorkerFails, SkipCancelled, StartProcessing,
              MarkRunning, Execute, SaveJob, SaveLog, Notify, LoadFailure, SettleRetrying,
              SettleFailed, DeadLetter
<1>9. ASSUME NEW s \in Schedulers, ScheduleStep(s) \/ RecoverStep(s) \/ SchedulerFails(s)
      PROVE  bull'[id].state # "none"
  BY <1>1, <1>2, <1>9
     DEF ScheduleStep, RecoverStep, scheduleReadyJobs, recoverStalledJobs, SchedulerFails,
         ClaimBatch, Enqueue, EnqueueFails, EnqueueAndRevertFail, FindStalled, Recover,
         RecoverFails, SchedulerCrash
<1>10. ASSUME ServiceRuns PROVE bull'[id].state # "none"
  BY <1>1, <1>2, <1>10
     DEF ServiceRuns, Submit, CancelCheck, CancelWrite, RetryCheck, RetryWrite, ReplayGet,
         ReplayAdd, ReplayRemove
<1> QED
  BY <1>1, <1>5, <1>6, <1>8, <1>9, <1>10
     DEF Next, JobAges, JobFallsDue, StallStep, Disturbance, Expire

(* A QUEUED job has an entry in BullMQ or is in the batch of a scheduler,  *)
(* as long as no scheduler crashed, no revert failed and nothing expired:  *)
(* in every behaviour of any number of schedulers that claim, add, recover *)
(* and race with workers and requests.                                     *)
THEOREM QueuedIsDelivered == Spec => []QueuedHasEntry
<1> DEFINE Inv == BudgetsBounded /\ QueuedHasEntry
<1>1. Init => Inv
  BY LimitsAssumption
     DEF Init, EnvironmentInit, RepositoryInit, BudgetsBounded, QueuedHasEntry
<1>2. WellFormed /\ Inv /\ [Next]_vars => Inv'
  <2> SUFFICES ASSUME WellFormed, Inv, [Next]_vars PROVE Inv'
    OBVIOUS
  <2>1. CASE UNCHANGED vars
    BY <2>1 DEF vars, BudgetsBounded, QueuedHasEntry, Spent
  <2>2. ASSUME Next, NEW j \in Jobs, jobs'[j].status = "QUEUED"
        PROVE  \/ bull'[j].state # "none"
               \/ \E s \in Schedulers : j \in sched'[s].claimed
               \/ \E k \in {"schedulerCrash", "outage", "expiry"} : Spent(k)' > 0
    <3> DEFINE Lossy == {"schedulerCrash", "outage", "expiry"}
    <3>1. ASSUME NEW k \in Lossy PROVE (Spent(k) > 0 \/ Spend(k)) => Spent(k)' > 0
      <4>1. k \in Disturbances BY DEF Disturbances
      <4>2. /\ Spent(k) \in Nat /\ Spent(k)' \in Nat /\ Spent(k) <= Spent(k)'
            /\ Spend(k) => Spent(k)' = Spent(k) + 1
        BY <4>1, SpentGrows
      <4> HIDE DEF Lossy
      <4> QED BY <4>2
    <3>2. CASE jobs[j].status # "QUEUED"
      BY <2>2, <3>2, QueuedSteps
    <3>3. CASE bull[j].state # "none"
      BY <2>2, <3>1, <3>3, EntrySteps
    <3>4. CASE \E s \in Schedulers : j \in sched[s].claimed
      <4> PICK s \in Schedulers : j \in sched[s].claimed
        BY <3>4
      <4>1. ASSUME Enqueue(s, j) PROVE bull'[j].state # "none"
        BY <4>1 DEF Enqueue, add, NoEntry, WellFormed, Delivery, QueueTypeOK
      <4>2. ASSUME EnqueueFails(s, j) PROVE FALSE
        <5> DEFINE dto == [Dto EXCEPT !.status = "PENDING"]
        <5>1. dto \in DtoType /\ dto.status = "PENDING" /\ "PENDING" # Undefined
          BY DtoTypes, QuietDtos DEF JobStatus
        <5>2. update(j, dto)
          BY <4>2 DEF EnqueueFails
        <5> HIDE DEF dto
        <5>3. jobs'[j].status = "PENDING"
          BY <5>1, <5>2, UpdateRow DEF WellFormed
        <5> QED BY <2>2, <5>3
      <4> QED BY <2>2, <3>1, <4>1, <4>2, ClaimedSteps
    <3> QED BY <3>1, <3>2, <3>3, <3>4 DEF QueuedHasEntry
  <2> QED BY <2>1, <2>2, SpentGrows DEF QueuedHasEntry
<1> QED BY <1>1, <1>2, WellFormedInvariant, PTL DEF Spec

--------------------------------------------------------------------------------
(* What a slot's step does to the slot: the others stay, and it goes from  *)
(* one place of processJob to another with the job it has.                 *)

HasOpenLog(x) == x.pc \in {"run", "exec", "failure"} \/ (x.pc = "save" /\ "log" \in x.todo)

(* Every step of a slot leaves the others alone.                           *)
LEMMA OtherSlots ==
    ASSUME WellFormed, NEW w \in Workers, WorkerRuns(w) \/ WorkerFails(w)
    PROVE  \A v \in Workers : v # w => worker'[v] = worker[v]
BY DEF WellFormed, Delivery, WorkerRuns, WorkerFails, Take, SkipCancelled, StartProcessing,
       MarkRunning, Execute, SaveJob, SaveLog, saved, Notify, LoadFailure, SettleRetrying,
       SettleFailed, DeadLetter, Ack, Throw, Crash, goto, WorkerTypeOK

(* Where a slot that jumps is afterwards.                                  *)
LEMMA Goes ==
    ASSUME WellFormed, NEW w \in Workers, NEW pc, goto(w, pc)
    PROVE  /\ worker'[w].pc = pc /\ worker'[w].job = worker[w].job
           /\ worker'[w].todo = worker[w].todo
BY DEF WellFormed, Delivery, WorkerTypeOK, Slot, goto

(* The steps that neither open nor close an execution log row.             *)
LEMMA LogKept ==
    ASSUME WellFormed, NEW w \in Workers,
           \/ \E id \in BullIds : Take(w, id)
           \/ SkipCancelled(w) \/ MarkRunning(w) \/ Execute(w) \/ SaveJob(w) \/ Notify(w)
           \/ SettleRetrying(w) \/ SettleFailed(w) \/ DeadLetter(w) \/ Ack(w)
    PROVE  /\ UNCHANGED logs
           /\ HasOpenLog(worker[w])' <=> HasOpenLog(worker[w])
           /\ HasOpenLog(worker[w]) => worker'[w].job = worker[w].job
<1> USE DEF HasOpenLog
<1>0. worker[w] \in Slot /\ worker \in [Workers -> Slot]
  BY DEF WellFormed, Delivery, WorkerTypeOK
<1>1. CASE \E id \in BullIds : Take(w, id)
  BY <1>0, <1>1 DEF Take, Idle, Busy
<1>2. CASE SkipCancelled(w)
  BY <1>2, Goes DEF SkipCancelled
<1>3. CASE MarkRunning(w)
  BY <1>3, Goes DEF MarkRunning
<1>4. CASE Execute(w)
  <2>1. PICK o \in execute(JobType[worker[w].job]) :
          worker' = [worker EXCEPT
                       ![w] = IF o = "OK"
                              THEN [@ EXCEPT !.pc = "save", !.todo = {"job", "log"}]
                              ELSE [@ EXCEPT !.pc = "failure", !.errorCode = o]]
    BY <1>4 DEF Execute
  <2>2. CASE o = "OK"
    BY <1>0, <1>4, <2>1, <2>2 DEF Execute, Slot
  <2>3. CASE o # "OK"
    BY <1>0, <1>4, <2>1, <2>3 DEF Execute, Slot
  <2> QED BY <2>2, <2>3
<1>5. CASE SaveJob(w)
  <2> DEFINE pc == IF worker[w].todo = {"job"} THEN "notify" ELSE "save"
             todo == worker[w].todo \ {"job"}
  <2>1. worker' = [worker EXCEPT ![w] = [@ EXCEPT !.todo = todo, !.pc = pc]]
    BY <1>5 DEF SaveJob, saved
  <2>2. /\ worker[w].pc = "save" /\ pc \in {"notify", "save"} /\ UNCHANGED logs
        /\ "log" \in todo <=> "log" \in worker[w].todo
        /\ pc = "notify" => "log" \notin worker[w].todo
    BY <1>5 DEF SaveJob
  <2> HIDE DEF pc, todo
  <2>3. worker'[w].pc = pc /\ worker'[w].todo = todo /\ worker'[w].job = worker[w].job
    BY <1>0, <2>1 DEF Slot
  <2> QED BY <2>2, <2>3
<1>6. CASE Notify(w)
  BY <1>6, Goes DEF Notify
<1>7. CASE SettleRetrying(w)
  BY <1>7, Goes DEF SettleRetrying
<1>8. CASE SettleFailed(w)
  BY <1>8, Goes DEF SettleFailed
<1>9. CASE DeadLetter(w)
  BY <1>9, Goes DEF DeadLetter
<1>10. CASE Ack(w)
  BY <1>0, <1>10 DEF Ack, Idle
<1> QED BY <1>1, <1>2, <1>3, <1>4, <1>5, <1>6, <1>7, <1>8, <1>9, <1>10

(* The steps that close the row of the slot: after them it has none open.  *)
LEMMA LogCloses ==
    ASSUME WellFormed, NEW w \in Workers, SaveLog(w) \/ LoadFailure(w)
    PROVE  /\ worker[w].job \in Jobs
           /\ HasOpenLog(worker[w]) /\ ~ HasOpenLog(worker[w])'
           /\ \E k \in {"COMPLETED", "FAILED", "TIMED_OUT"} : completeLog(worker[w].job, k)
<1> USE DEF HasOpenLog
<1>0. worker[w] \in Slot /\ worker \in [Workers -> Slot] /\ worker[w].job \in Jobs
  BY DEF WellFormed, Delivery, WorkerTypeOK, SlotsHaveEntries, SaveLog, LoadFailure, Busy
<1>1. CASE SaveLog(w)
  <2> DEFINE pc == IF worker[w].todo = {"log"} THEN "notify" ELSE "save"
             todo == worker[w].todo \ {"log"}
  <2>1. worker' = [worker EXCEPT ![w] = [@ EXCEPT !.todo = todo, !.pc = pc]]
    BY <1>1 DEF SaveLog, saved
  <2>2. pc \in {"notify", "save"} /\ "log" \notin todo
    OBVIOUS
  <2> HIDE DEF pc, todo
  <2>3. worker'[w].pc = pc /\ worker'[w].todo = todo
    BY <1>0, <2>1 DEF Slot
  <2> QED BY <1>0, <1>1, <2>2, <2>3 DEF SaveLog
<1>2. CASE LoadFailure(w)
  BY <1>0, <1>2 DEF LoadFailure, finalStatus, Slot
<1> QED BY <1>1, <1>2

(* StartProcessing opens one.                                              *)
LEMMA LogOpens ==
    ASSUME WellFormed, NEW w \in Workers, StartProcessing(w)
    PROVE  /\ worker[w].job \in Jobs /\ worker'[w].job = worker[w].job
           /\ ~ HasOpenLog(worker[w]) /\ HasOpenLog(worker[w])'
           /\ worker[w].pc = "start" /\ worker'[w].pc = "run"
           /\ createLog(worker[w].job)
BY Goes DEF StartProcessing, HasOpenLog, WellFormed, Delivery, SlotsHaveEntries, Busy

(* A slot that throws or crashes lets go of its job and closes nothing.    *)
LEMMA SlotEmpties ==
    ASSUME WellFormed, NEW w \in Workers, Throw(w) \/ Crash(w)
    PROVE  /\ ~ HasOpenLog(worker[w])' /\ worker'[w].pc = "idle"
           /\ UNCHANGED logs
           /\ Spend("fault") \/ Spend("workerCrash")
BY DEF Throw, Crash, HasOpenLog, Idle, WellFormed, Delivery, WorkerTypeOK

--------------------------------------------------------------------------------
(* Open execution log rows.                                                *)

OpenRows(j) == logs[j]["CREATED"] - logs[j]["COMPLETED"] - logs[j]["FAILED"]
                                  - logs[j]["TIMED_OUT"]

(* The slots with an open row are finitely many, whatever Workers is: they *)
(* were opened one by one.                                                 *)
OpenInv ==
    \A j \in Jobs :
        /\ IsFiniteSet(Logging(j))
        /\ Cardinality(Logging(j)) <= OpenRows(j)
        /\ OpenRows(j) <= Cardinality(Logging(j)) + Spent("workerCrash") + Spent("fault")

(* A step of one slot: how the number of slots with an open row changes.   *)
LEMMA LoggingCount ==
    ASSUME NEW j \in Jobs, NEW w \in Workers, IsFiniteSet(Logging(j)),
           \A v \in Workers : v # w => worker'[v] = worker[v]
    PROVE  /\ IsFiniteSet(Logging(j)')
           /\ Cardinality(Logging(j)) \in Nat /\ Cardinality(Logging(j)') \in Nat
           /\ Cardinality(Logging(j)') = Cardinality(Logging(j))
                + (IF HasOpenLog(worker'[w]) /\ worker'[w].job = j THEN 1 ELSE 0)
                - (IF HasOpenLog(worker[w]) /\ worker[w].job = j THEN 1 ELSE 0)
<1>1. \A v : v # w => (v \in Logging(j)' <=> v \in Logging(j))
  BY DEF Logging, Processing, Busy
<1>2. /\ w \in Logging(j) <=> HasOpenLog(worker[w]) /\ worker[w].job = j
      /\ w \in Logging(j)' <=> HasOpenLog(worker'[w]) /\ worker'[w].job = j
  BY DEF Logging, Processing, Busy, HasOpenLog
<1> DEFINE S == Logging(j)  T == Logging(j)'
<1> HIDE DEF S, T
<1>3. IsFiniteSet(S) /\ \A v : v # w => (v \in T <=> v \in S)
  BY <1>1 DEF S, T
<1>4. /\ IsFiniteSet(T) /\ Cardinality(S) \in Nat /\ Cardinality(T) \in Nat
      /\ Cardinality(T) = Cardinality(S) + (IF w \in T THEN 1 ELSE 0)
                                         - (IF w \in S THEN 1 ELSE 0)
  BY <1>3, OneMember
<1>5. /\ w \in S <=> HasOpenLog(worker[w]) /\ worker[w].job = j
      /\ w \in T <=> HasOpenLog(worker'[w]) /\ worker'[w].job = j
  BY <1>2 DEF S, T
<1> QED BY <1>4, <1>5 DEF S, T

(* One more row of a kind.                                                 *)
LEMMA RowCount ==
    ASSUME RepositoryTypeOK, NEW i \in Jobs, NEW j \in Jobs
    PROVE  /\ OpenRows(j) \in Int
           /\ createLog(i) => OpenRows(j)' = OpenRows(j) + IF i = j THEN 1 ELSE 0
           /\ \A k \in {"COMPLETED", "FAILED", "TIMED_OUT"} :
                completeLog(i, k) => OpenRows(j)' = OpenRows(j) - IF i = j THEN 1 ELSE 0
           /\ UNCHANGED logs => OpenRows(j)' = OpenRows(j)
<1>1. logs \in [Jobs -> [LogRows -> Nat]]
  BY DEF RepositoryTypeOK
<1>2. \A k \in LogRows : logs[j][k] \in Nat
  BY <1>1
<1>3. ASSUME NEW k \in LogRows, logs' = [logs EXCEPT ![i][k] = @ + 1]
      PROVE  \A m \in LogRows :
               logs'[j][m] = logs[j][m] + IF i = j /\ m = k THEN 1 ELSE 0
  BY <1>1, <1>2, <1>3
<1> QED BY <1>2, <1>3 DEF OpenRows, createLog, completeLog, LogRows

(* A step of a slot keeps open rows and open executions together.          *)
LEMMA OpenWorker ==
    ASSUME WellFormed, BudgetsBounded, OpenInv, NEW w \in Workers, [Next]_vars,
           WorkerRuns(w) \/ WorkerFails(w)
    PROVE  OpenInv'
<1> SUFFICES ASSUME NEW j \in Jobs
             PROVE  /\ IsFiniteSet(Logging(j)')
                    /\ Cardinality(Logging(j)') <= OpenRows(j)'
                    /\ OpenRows(j)' <= Cardinality(Logging(j)') + Spent("workerCrash")'
                                           + Spent("fault")'
  BY DEF OpenInv
<1> DEFINE n == Cardinality(Logging(j))  m == Cardinality(Logging(j)')
           in == IF HasOpenLog(worker'[w]) /\ worker'[w].job = j THEN 1 ELSE 0
           out == IF HasOpenLog(worker[w]) /\ worker[w].job = j THEN 1 ELSE 0
           a == Spent("workerCrash")  b == Spent("fault")
           c == Spent("workerCrash")'  d == Spent("fault")'
<1>1. IsFiniteSet(Logging(j)') /\ n \in Nat /\ m \in Nat /\ m = n + in - out
  BY LoggingCount, OtherSlots DEF OpenInv
<1>2. /\ a \in Nat /\ b \in Nat /\ c \in Nat /\ d \in Nat /\ a <= c /\ b <= d
      /\ Spend("fault") => d = b + 1
      /\ Spend("workerCrash") => c = a + 1
  BY SpentGrows DEF Disturbances
<1>3. n <= OpenRows(j) /\ OpenRows(j) <= n + a + b
  BY DEF OpenInv
<1> USE DEF WellFormed
<1>4. OpenRows(j) \in Int
  BY RowCount
<1>5. CASE /\ UNCHANGED logs
           /\ HasOpenLog(worker[w])' <=> HasOpenLog(worker[w])
           /\ HasOpenLog(worker[w]) => worker'[w].job = worker[w].job
  <2>1. OpenRows(j)' = OpenRows(j) /\ in = out /\ out \in {0, 1}
    BY <1>5, RowCount
  <2> HIDE DEF n, m, in, out, a, b, c, d
  <2>2. m <= OpenRows(j)' /\ OpenRows(j)' <= m + c + d
    BY <1>1, <1>2, <1>3, <1>4, <2>1
  <2> QED BY <1>1, <2>2 DEF m, c, d
<1>6. CASE StartProcessing(w)
  <2>1. in = (IF worker[w].job = j THEN 1 ELSE 0) /\ out = 0
    BY <1>6, LogOpens
  <2>2. OpenRows(j)' = OpenRows(j) + in
    BY <1>6, <2>1, LogOpens, RowCount
  <2>3. in \in Nat /\ out = 0
    BY <2>1
  <2> HIDE DEF n, m, in, out, a, b, c, d
  <2>4. m <= OpenRows(j)' /\ OpenRows(j)' <= m + c + d
    BY <1>1, <1>2, <1>3, <1>4, <2>2, <2>3
  <2> QED BY <1>1, <2>4 DEF m, c, d
<1>7. CASE SaveLog(w) \/ LoadFailure(w)
  <2>1. in = 0 /\ out = IF worker[w].job = j THEN 1 ELSE 0
    BY <1>7, LogCloses
  <2>2. OpenRows(j)' = OpenRows(j) - out
    BY <1>7, <2>1, LogCloses, RowCount
  <2>3. in = 0 /\ out \in Nat
    BY <2>1
  <2> HIDE DEF n, m, in, out, a, b, c, d
  <2>4. m <= OpenRows(j)' /\ OpenRows(j)' <= m + c + d
    BY <1>1, <1>2, <1>3, <1>4, <2>2, <2>3
  <2> QED BY <1>1, <2>4 DEF m, c, d
<1>8. CASE Throw(w) \/ Crash(w)
  <2>1. in = 0 /\ out \in {0, 1} /\ c + d >= a + b + 1
    BY <1>2, <1>8, SlotEmpties
  <2>2. OpenRows(j)' = OpenRows(j)
    BY <1>8, SlotEmpties, RowCount
  <2> HIDE DEF n, m, in, out, a, b, c, d
  <2>3. m <= OpenRows(j)' /\ OpenRows(j)' <= m + c + d
    BY <1>1, <1>2, <1>3, <1>4, <2>1, <2>2
  <2> QED BY <1>1, <2>3 DEF m, c, d
<1> QED
  BY <1>5, <1>6, <1>7, <1>8, LogKept DEF WorkerRuns, WorkerFails

(* Log rows are written by slots only.                                     *)
LEMMA OnlySlotsLog ==
    ASSUME [Next]_vars
    PROVE  \/ \E w \in Workers : WorkerRuns(w) \/ WorkerFails(w)
           \/ UNCHANGED <<logs, worker>>
BY DEF vars, Next, ScheduleStep, RecoverStep, WorkerStep, JobAges, JobFallsDue, StallStep,
       Disturbance, scheduleReadyJobs, recoverStalledJobs, SchedulerFails, ClaimBatch,
       Enqueue, EnqueueFails, EnqueueAndRevertFail, FindStalled, Recover, RecoverFails,
       SchedulerCrash, ServiceRuns, Submit, CancelCheck, CancelWrite, RetryCheck, RetryWrite,
       ReplayGet, ReplayAdd, ReplayRemove, StartedAtAges, ScheduledTimeArrives

(* Disturbances are counted from 0 in every behaviour.                     *)
LEMMA BudgetInvariant == Spec => []BudgetsBounded
<1>1. Init => BudgetsBounded
  BY LimitsAssumption DEF Init, EnvironmentInit, BudgetsBounded
<1> QED BY <1>1, SpentGrows, WellFormedInvariant, PTL DEF Spec

(* An execution log row is open because its slot is still at work on the   *)
(* job, or because that slot crashed or a statement of it threw; and every *)
(* slot at work past its start has its row open.  Lost locks, recoveries,  *)
(* cancels, retries and replays leave no row behind.                       *)
THEOREM OpenLogsExplained == Spec => []OpenLogsAreExplained
<1>1. Init => OpenInv
  <2> SUFFICES ASSUME Init, NEW j \in Jobs
               PROVE  /\ IsFiniteSet(Logging(j))
                      /\ Cardinality(Logging(j)) <= OpenRows(j)
                      /\ OpenRows(j) <= Cardinality(Logging(j)) + Spent("workerCrash")
                                            + Spent("fault")
    BY DEF OpenInv
  <2>1. Logging(j) = {}
    BY DEF Init, WorkerInit, Idle, Logging, Processing, Busy
  <2>2. OpenRows(j) = 0
    BY DEF Init, RepositoryInit, OpenRows, LogRows
  <2>3. Spent("workerCrash") = 0 /\ Spent("fault") = 0
    BY LimitsAssumption DEF Init, EnvironmentInit, Spent, Disturbances
  <2> QED BY <2>1, <2>2, <2>3, FS_EmptySet
<1>2. WellFormed /\ BudgetsBounded /\ OpenInv /\ [Next]_vars => OpenInv'
  <2> SUFFICES ASSUME WellFormed, BudgetsBounded, OpenInv, [Next]_vars, UNCHANGED <<logs, worker>>
               PROVE  OpenInv'
    BY OpenWorker, OnlySlotsLog
  <2> SUFFICES ASSUME NEW j \in Jobs
               PROVE  /\ IsFiniteSet(Logging(j)')
                      /\ Cardinality(Logging(j)') <= OpenRows(j)'
                      /\ OpenRows(j)' <= Cardinality(Logging(j)') + Spent("workerCrash")'
                                             + Spent("fault")'
    BY DEF OpenInv
  <2>1. Logging(j)' = Logging(j) /\ OpenRows(j)' = OpenRows(j) /\ OpenRows(j) \in Int
    BY RowCount DEF Logging, Processing, Busy, OpenRows, WellFormed
  <2>2. /\ Spent("workerCrash") \in Nat /\ Spent("workerCrash")' \in Nat
        /\ Spent("workerCrash") <= Spent("workerCrash")'
        /\ Spent("fault") \in Nat /\ Spent("fault")' \in Nat
        /\ Spent("fault") <= Spent("fault")'
    BY SpentGrows DEF Disturbances
  <2>3. Cardinality(Logging(j)) \in Nat
    BY FS_CardinalityType DEF OpenInv
  <2> QED BY <2>1, <2>2, <2>3 DEF OpenInv
<1>3. OpenInv => OpenLogsAreExplained
  BY DEF OpenInv, OpenRows, OpenLogsAreExplained
<1> QED BY <1>1, <1>2, <1>3, WellFormedInvariant, BudgetInvariant, PTL DEF Spec

--------------------------------------------------------------------------------
(* Executions.  An execution to come is a slot about to insert its row, or *)
(* an entry that a slot will still take: it waits, it is active without a  *)
(* lock and the stalled check will put it back, or `job_<id>` is not there *)
(* and a scheduler may add it.                                             *)

Starting(j) == {w \in Processing(j) : worker[w].pc = "start"}

Due(e, id, j) == \/ /\ e.job = j
                    /\ e.state = "waiting" \/ (e.state = "active" /\ e.lock = Null)
                 \/ id = j /\ e.state = "none"

Deliverable(j) == {id \in BullIds : Due(bull[id], id, j)}

Added(j) == {r \in ReplayIds : replays[r].job = j /\ replays[r].pc \in {"remove", "done"}}

Cost == Spent("workerCrash") + Spent("fault") + Spent("lockLoss") + Spent("expiry")

(* Executions so far and executions to come are paid for.                  *)
PaidInv ==
    \A j \in Jobs :
        /\ IsFiniteSet(Starting(j))
        /\ IsFiniteSet(Deliverable(j))
        /\ IsFiniteSet(Added(j))
        /\ logs[j]["CREATED"] + Cardinality(Starting(j)) + Cardinality(Deliverable(j))
             <= 1 + Cardinality(Added(j)) + Cost

(* How a step of one slot, one entry or one replay changes the counts.     *)
LEMMA StartingCount ==
    ASSUME NEW j \in Jobs, NEW w \in Workers, IsFiniteSet(Starting(j)),
           \A v \in Workers : v # w => worker'[v] = worker[v]
    PROVE  /\ IsFiniteSet(Starting(j)')
           /\ Cardinality(Starting(j)) \in Nat /\ Cardinality(Starting(j)') \in Nat
           /\ Cardinality(Starting(j)') = Cardinality(Starting(j))
                + (IF worker'[w].pc = "start" /\ worker'[w].job = j THEN 1 ELSE 0)
                - (IF worker[w].pc = "start" /\ worker[w].job = j THEN 1 ELSE 0)
<1> DEFINE S == Starting(j)  T == Starting(j)'
<1>1. \A v : v # w => (v \in T <=> v \in S)
  BY DEF Starting, Processing, Busy
<1>2. /\ w \in S <=> worker[w].pc = "start" /\ worker[w].job = j
      /\ w \in T <=> worker'[w].pc = "start" /\ worker'[w].job = j
  BY DEF Starting, Processing, Busy
<1>3. IsFiniteSet(S)
  OBVIOUS
<1> HIDE DEF S, T
<1>4. /\ IsFiniteSet(T) /\ Cardinality(S) \in Nat /\ Cardinality(T) \in Nat
      /\ Cardinality(T) = Cardinality(S) + (IF w \in T THEN 1 ELSE 0)
                                         - (IF w \in S THEN 1 ELSE 0)
  BY <1>1, <1>3, OneMember
<1> QED BY <1>2, <1>4 DEF S, T

(* The same for one entry ...                                              *)
LEMMA DeliverableCount ==
    ASSUME NEW j \in Jobs, NEW id \in BullIds, IsFiniteSet(Deliverable(j)),
           \A i \in BullIds : i # id => bull'[i] = bull[i]
    PROVE  /\ IsFiniteSet(Deliverable(j)')
           /\ Cardinality(Deliverable(j)) \in Nat /\ Cardinality(Deliverable(j)') \in Nat
           /\ Cardinality(Deliverable(j)') = Cardinality(Deliverable(j))
                + (IF Due(bull'[id], id, j) THEN 1 ELSE 0)
                - (IF Due(bull[id], id, j) THEN 1 ELSE 0)
<1> DEFINE S == Deliverable(j)  T == Deliverable(j)'
<1>1. \A i : i # id => (i \in T <=> i \in S)
  BY DEF Deliverable, Due
<1>2. /\ id \in S <=> Due(bull[id], id, j)
      /\ id \in T <=> Due(bull'[id], id, j)
  BY DEF Deliverable, Due
<1>3. IsFiniteSet(S)
  OBVIOUS
<1> HIDE DEF S, T
<1>4. /\ IsFiniteSet(T) /\ Cardinality(S) \in Nat /\ Cardinality(T) \in Nat
      /\ Cardinality(T) = Cardinality(S) + (IF id \in T THEN 1 ELSE 0)
                                         - (IF id \in S THEN 1 ELSE 0)
  BY <1>1, <1>3, OneMember
<1> QED BY <1>2, <1>4 DEF S, T

(* ... and one replay.                                                     *)
LEMMA AddedCount ==
    ASSUME NEW j \in Jobs, NEW r \in ReplayIds, IsFiniteSet(Added(j)),
           \A q \in ReplayIds : q # r => replays'[q] = replays[q]
    PROVE  /\ IsFiniteSet(Added(j)')
           /\ Cardinality(Added(j)) \in Nat /\ Cardinality(Added(j)') \in Nat
           /\ Cardinality(Added(j)') = Cardinality(Added(j))
                + (IF r \in Added(j)' THEN 1 ELSE 0) - (IF r \in Added(j) THEN 1 ELSE 0)
<1> DEFINE S == Added(j)  T == Added(j)'
<1>1. \A q : q # r => (q \in T <=> q \in S)
  BY DEF Added
<1>2. IsFiniteSet(S)
  OBVIOUS
<1> HIDE DEF S, T
<1>3. /\ IsFiniteSet(T) /\ Cardinality(S) \in Nat /\ Cardinality(T) \in Nat
      /\ Cardinality(T) = Cardinality(S) + (IF r \in T THEN 1 ELSE 0)
                                         - (IF r \in S THEN 1 ELSE 0)
  BY <1>1, <1>2, OneMember
<1> QED BY <1>3 DEF S, T

(* The price grows with every crash, fault, lost lock and expiry.          *)
LEMMA CostGrows ==
    ASSUME WellFormed, BudgetsBounded, [Next]_vars
    PROVE  /\ Cost \in Nat /\ Cost' \in Nat /\ Cost <= Cost'
           /\ \A k \in {"workerCrash", "fault", "lockLoss", "expiry"} :
                Spend(k) => Cost' >= Cost + 1
<1>1. \A k \in {"workerCrash", "fault", "lockLoss", "expiry"} :
        /\ Spent(k) \in Nat /\ Spent(k)' \in Nat /\ Spent(k) <= Spent(k)'
        /\ Spend(k) => Spent(k)' = Spent(k) + 1
  BY SpentGrows DEF Disturbances
<1> QED BY <1>1 DEF Cost

(* All three counts at once, with their types.                             *)
LEMMA PaidTypes ==
    ASSUME WellFormed, WellFormed', PaidInv, NEW j \in Jobs
    PROVE  /\ IsFiniteSet(Starting(j)) /\ IsFiniteSet(Deliverable(j)) /\ IsFiniteSet(Added(j))
           /\ Cardinality(Starting(j)) \in Nat /\ Cardinality(Deliverable(j)) \in Nat
           /\ Cardinality(Added(j)) \in Nat
           /\ logs[j]["CREATED"] \in Nat /\ logs'[j]["CREATED"] \in Nat
BY FS_CardinalityType DEF PaidInv, WellFormed, RepositoryTypeOK, LogRows

(* What no step of this kind touches keeps its count.                      *)
LEMMA PaidFrame ==
    ASSUME NEW j \in Jobs
    PROVE  /\ UNCHANGED worker => Starting(j)' = Starting(j)
           /\ UNCHANGED bull => Deliverable(j)' = Deliverable(j)
           /\ UNCHANGED replays => Added(j)' = Added(j)
           /\ UNCHANGED logs => logs'[j]["CREATED"] = logs[j]["CREATED"]
BY DEF Starting, Processing, Busy, Deliverable, Due, Added

(* Past its start a slot does not come back to it within one entry.        *)
LEMMA NotStarting ==
    ASSUME WellFormed, NEW w \in Workers, NEW j \in Jobs,
           \/ MarkRunning(w) \/ Execute(w) \/ SaveJob(w) \/ SaveLog(w) \/ Notify(w)
           \/ LoadFailure(w) \/ SettleRetrying(w) \/ SettleFailed(w) \/ DeadLetter(w)
    PROVE  /\ worker[w].pc # "start" /\ worker'[w].pc # "start"
           /\ logs'[j]["CREATED"] = logs[j]["CREATED"]
           /\ UNCHANGED bull
<1>0. worker[w] \in Slot /\ worker \in [Workers -> Slot]
  BY DEF WellFormed, Delivery, WorkerTypeOK
<1>1. CASE MarkRunning(w)
  BY <1>1, Goes DEF MarkRunning
<1>2. CASE Execute(w)
  <2>1. PICK o \in execute(JobType[worker[w].job]) :
          worker' = [worker EXCEPT
                       ![w] = IF o = "OK"
                              THEN [@ EXCEPT !.pc = "save", !.todo = {"job", "log"}]
                              ELSE [@ EXCEPT !.pc = "failure", !.errorCode = o]]
    BY <1>2 DEF Execute
  <2>2. CASE o = "OK"
    BY <1>0, <1>2, <2>1, <2>2 DEF Execute, Slot
  <2>3. CASE o # "OK"
    BY <1>0, <1>2, <2>1, <2>3 DEF Execute, Slot
  <2> QED BY <2>2, <2>3
<1>3. ASSUME NEW write, saved(w, write) PROVE worker'[w].pc # "start"
  <2> DEFINE pc == IF worker[w].todo = {write} THEN "notify" ELSE "save"
             todo == worker[w].todo \ {write}
  <2>1. worker' = [worker EXCEPT ![w] = [@ EXCEPT !.todo = todo, !.pc = pc]]
    BY <1>3 DEF saved
  <2>2. pc \in {"notify", "save"}
    OBVIOUS
  <2> HIDE DEF pc, todo
  <2> QED BY <1>0, <2>1, <2>2 DEF Slot
<1>4. CASE SaveJob(w)
  BY <1>3, <1>4 DEF SaveJob
<1>5. CASE SaveLog(w)
  <2>1. logs'[j]["CREATED"] = logs[j]["CREATED"]
    BY <1>5 DEF SaveLog, completeLog, WellFormed, RepositoryTypeOK, LogRows
  <2> QED BY <1>3, <1>5, <2>1 DEF SaveLog
<1>6. CASE Notify(w)
  BY <1>6, Goes DEF Notify
<1>7. CASE LoadFailure(w)
  <2>1. logs'[j]["CREATED"] = logs[j]["CREATED"]
    BY <1>7 DEF LoadFailure, completeLog, finalStatus, WellFormed, RepositoryTypeOK, LogRows
  <2> QED BY <1>0, <1>7, <2>1 DEF LoadFailure, Slot
<1>8. CASE SettleRetrying(w) \/ SettleFailed(w) \/ DeadLetter(w)
  BY <1>8, Goes DEF SettleRetrying, SettleFailed, DeadLetter
<1> QED BY <1>1, <1>2, <1>4, <1>5, <1>6, <1>7, <1>8

(* A slot that gives an entry back leaves it as it is, or, if it has the   *)
(* lock, without one.                                                      *)
LEMMA EntryReleased ==
    ASSUME WellFormed, NEW w \in Workers, Ack(w) \/ Throw(w) \/ Crash(w)
    PROVE  /\ worker[w].bull \in BullIds
           /\ \A i \in BullIds : i # worker[w].bull => bull'[i] = bull[i]
           /\ Ack(w) => UNCHANGED bull \/ /\ bull[worker[w].bull].state = "active"
                                          /\ bull'[worker[w].bull].state = "completed"
<1>1. Busy(w) /\ worker[w].bull \in BullIds
  BY DEF Ack, Throw, Crash, Busy, WellFormed, Delivery, SlotsHaveEntries
<1>2. \A i \in BullIds : i # worker[w].bull => bull'[i] = bull[i]
  BY <1>1 DEF Ack, Throw, Crash, moveToCompleted, moveToFailed, releaseLock, WellFormed,
              Delivery, QueueTypeOK
<1>3. ASSUME Ack(w), bull[worker[w].bull].lock = w
      PROVE  /\ bull[worker[w].bull].state = "active"
             /\ bull'[worker[w].bull].state = "completed"
  <2>1. bull[worker[w].bull].state = "active"
    BY <1>1, <1>3, QueueAssumption DEF WellFormed, Delivery, LocksAreHeld
  <2>2. bull' = [bull EXCEPT ![worker[w].bull] = [@ EXCEPT !.state = "completed", !.lock = Null]]
    BY <1>3 DEF Ack, moveToCompleted
  <2> QED BY <1>1, <2>1, <2>2 DEF WellFormed, Delivery, QueueTypeOK, Entry
<1>4. ASSUME Ack(w), bull[worker[w].bull].lock # w PROVE UNCHANGED bull
  BY <1>4 DEF Ack, moveToCompleted
<1> QED BY <1>1, <1>2, <1>3, <1>4

(* A step of a slot: an execution that begins was to come; one that is     *)
(* given back is paid for.                                                 *)
LEMMA PaidWorker ==
    ASSUME WellFormed, WellFormed', BudgetsBounded, PaidInv, NEW w \in Workers, [Next]_vars,
           UNCHANGED replays, WorkerRuns(w) \/ WorkerFails(w)
    PROVE  PaidInv'
<1> SUFFICES ASSUME NEW j \in Jobs
             PROVE  /\ IsFiniteSet(Starting(j)') /\ IsFiniteSet(Deliverable(j)')
                    /\ IsFiniteSet(Added(j)')
                    /\ logs'[j]["CREATED"] + Cardinality(Starting(j)')
                           + Cardinality(Deliverable(j)')
                         <= 1 + Cardinality(Added(j)') + Cost'
  BY DEF PaidInv
<1> DEFINE c == logs[j]["CREATED"]          c1 == logs'[j]["CREATED"]
           s == Cardinality(Starting(j))    s1 == Cardinality(Starting(j)')
           d == Cardinality(Deliverable(j)) d1 == Cardinality(Deliverable(j)')
           a == Cardinality(Added(j))
           in == IF worker'[w].pc = "start" /\ worker'[w].job = j THEN 1 ELSE 0
           out == IF worker[w].pc = "start" /\ worker[w].job = j THEN 1 ELSE 0
<1>1. IsFiniteSet(Starting(j)') /\ s \in Nat /\ s1 \in Nat /\ s1 = s + in - out
  BY StartingCount, OtherSlots DEF PaidInv
<1>2. /\ c \in Nat /\ c1 \in Nat /\ d \in Nat /\ a \in Nat
      /\ IsFiniteSet(Deliverable(j)) /\ IsFiniteSet(Added(j))
      /\ c + s + d <= 1 + a + Cost
  BY PaidTypes DEF PaidInv
<1>3. Added(j)' = Added(j)
  BY PaidFrame
<1>4. Cost \in Nat /\ Cost' \in Nat /\ Cost <= Cost'
  BY CostGrows
<1>5. ASSUME NEW id \in BullIds, Take(w, id)
      PROVE  IsFiniteSet(Deliverable(j)') /\ c1 + s1 + d1 <= 1 + a + Cost'
  <2> DEFINE p == IF bull[id].job = j THEN 1 ELSE 0
  <2>0. bull[id] \in Entry /\ bull \in [BullIds -> Entry]
    BY DEF WellFormed, Delivery, QueueTypeOK
  <2>1. in = p /\ out = 0 /\ c1 = c
    BY <1>5 DEF Take, Idle, Busy, WellFormed, Delivery, WorkerTypeOK
  <2>2. bull[id].state = "waiting" /\ bull'[id].state = "active" /\ bull'[id].lock = w
    BY <1>5, <2>0 DEF Take, moveToActive, Entry
  <2>3. w # Null
    BY QueueAssumption
  <2>4. (Due(bull[id], id, j) <=> bull[id].job = j) /\ ~ Due(bull'[id], id, j)
    BY <2>2, <2>3 DEF Due
  <2>5. \A i \in BullIds : i # id => bull'[i] = bull[i]
    BY <1>5, <2>0 DEF Take, moveToActive
  <2>6. IsFiniteSet(Deliverable(j)') /\ d1 \in Nat /\ d1 = d - p
    BY <1>2, <2>4, <2>5, DeliverableCount
  <2>7. p \in {0, 1} OBVIOUS
  <2> HIDE DEF c, c1, s, s1, d, d1, a, in, out, p
  <2>8. c1 + s1 + d1 <= 1 + a + Cost'
    <3>1. s \in Nat /\ s1 = s + p
      BY <1>1, <2>1, <2>7
    <3>2. c1 + s1 + d1 = c + s + d
      BY <1>2, <2>1, <2>6, <2>7, <3>1
    <3> QED BY <1>2, <1>4, <3>1, <3>2
  <2> QED BY <2>6, <2>8 DEF d1
<1>6. CASE UNCHANGED bull /\ in = 0 /\ c1 + in <= c + out
  <2>1. Deliverable(j)' = Deliverable(j)
    BY <1>6, PaidFrame
  <2>2. out \in {0, 1} OBVIOUS
  <2> HIDE DEF c, c1, s, s1, a, in, out
  <2> QED BY <1>1, <1>2, <1>3, <1>4, <1>6, <2>1, <2>2 DEF c, c1, s, s1, a, d
<1>7. ASSUME StartProcessing(w) PROVE UNCHANGED bull /\ in = 0 /\ c1 + in <= c + out
  <2>1. in = 0 /\ out = IF worker[w].job = j THEN 1 ELSE 0
    BY <1>7, LogOpens
  <2>2. c1 = c + IF worker[w].job = j THEN 1 ELSE 0
    <3>1. logs \in [Jobs -> [LogRows -> Nat]] /\ "CREATED" \in LogRows
      BY DEF WellFormed, RepositoryTypeOK, LogRows
    <3>2. worker[w].job \in Jobs /\ logs' = [logs EXCEPT ![worker[w].job]["CREATED"] = @ + 1]
      BY <1>7, LogOpens DEF createLog
    <3> QED BY <1>2, <3>1, <3>2
  <2>3. UNCHANGED bull
    BY <1>7 DEF StartProcessing
  <2> QED BY <1>2, <2>1, <2>2, <2>3
<1>8. ASSUME SkipCancelled(w) PROVE UNCHANGED bull /\ in = 0 /\ c1 + in <= c + out
  <2>1. in = 0 /\ out \in {0, 1} /\ c1 = c /\ UNCHANGED bull
    BY <1>8, Goes DEF SkipCancelled
  <2> QED BY <1>2, <2>1
<1>9. ASSUME \/ MarkRunning(w) \/ Execute(w) \/ SaveJob(w) \/ SaveLog(w) \/ Notify(w)
             \/ LoadFailure(w) \/ SettleRetrying(w) \/ SettleFailed(w) \/ DeadLetter(w)
      PROVE  UNCHANGED bull /\ in = 0 /\ c1 + in <= c + out
  <2>1. in = 0 /\ out = 0 /\ c1 = c /\ UNCHANGED bull
    BY <1>9, NotStarting
  <2> QED BY <1>2, <2>1
<1>10. ASSUME Ack(w) \/ Throw(w) \/ Crash(w)
       PROVE  IsFiniteSet(Deliverable(j)') /\ c1 + s1 + d1 <= 1 + a + Cost'
  <2> DEFINE id == worker[w].bull
             q == IF Due(bull'[id], id, j) THEN 1 ELSE 0
             o == IF Due(bull[id], id, j) THEN 1 ELSE 0
  <2>0. id \in BullIds
    BY <1>10, EntryReleased
  <2>1. IsFiniteSet(Deliverable(j)') /\ d1 \in Nat /\ d1 = d + q - o
    BY <1>2, <1>10, <2>0, EntryReleased, DeliverableCount
  <2>2. in = 0 /\ out \in {0, 1} /\ c1 = c
    BY <1>10 DEF Ack, Throw, Crash, Idle, WellFormed, Delivery, WorkerTypeOK
  <2>3. q \in {0, 1} /\ o \in {0, 1} OBVIOUS
  <2>4. ASSUME Ack(w) PROVE q <= o
    <3>1. UNCHANGED bull => q = o
      OBVIOUS
    <3>2. bull[id].state = "active" /\ bull'[id].state = "completed" => q = 0
      BY DEF Due
    <3> QED BY <2>3, <2>4, <3>1, <3>2, EntryReleased
  <2>5. ASSUME Throw(w) \/ Crash(w) PROVE Cost' >= Cost + 1
    BY <2>5, CostGrows, SlotEmpties
  <2> HIDE DEF c, c1, s, s1, d, d1, a, in, out, q, o
  <2>6. c1 + s1 + d1 <= 1 + a + Cost'
    <3> DEFINE k == Cost  k1 == Cost'
    <3>0. k \in Nat /\ k1 \in Nat /\ k <= k1
      BY <1>4
    <3>1. s \in Nat /\ s1 \in Nat /\ s1 <= s
      BY <1>1, <2>2
    <3>2. c + s + d <= 1 + a + k /\ c \in Nat /\ c1 = c /\ d \in Nat /\ a \in Nat
      BY <1>2, <2>2
    <3>3. CASE Ack(w)
      <4>1. d1 <= d
        BY <2>1, <2>3, <2>4, <3>2, <3>3
      <4> HIDE DEF k, k1
      <4>2. c1 + s1 + d1 <= 1 + a + k1
        BY <2>1, <3>0, <3>1, <3>2, <4>1
      <4> QED BY <4>2 DEF k1
    <3>4. CASE Throw(w) \/ Crash(w)
      <4>1. d1 <= d + 1
        BY <2>1, <2>3, <3>2
      <4>2. k1 >= k + 1
        BY <2>5, <3>4
      <4> HIDE DEF k, k1
      <4>3. c1 + s1 + d1 <= 1 + a + k1
        BY <2>1, <3>0, <3>1, <3>2, <4>1, <4>2
      <4> QED BY <4>3 DEF k1
    <3> QED BY <1>10, <3>3, <3>4
  <2> QED BY <2>1, <2>6 DEF d1
<1> HIDE DEF in, out
<1>11. CASE \E id \in BullIds : Take(w, id)
  BY <1>1, <1>2, <1>3, <1>5, <1>11
<1>12. CASE Ack(w) \/ Throw(w) \/ Crash(w)
  BY <1>1, <1>2, <1>3, <1>10, <1>12
<1> QED
  BY <1>6, <1>7, <1>8, <1>9, <1>11, <1>12 DEF WorkerRuns, WorkerFails

(* A step of BullMQ or of a replay on one entry: an entry that becomes     *)
(* deliverable is paid for by the disturbance or by the replay.            *)
LEMMA PaidEntry ==
    ASSUME WellFormed, WellFormed', BudgetsBounded, PaidInv, [Next]_vars,
           UNCHANGED <<worker, logs>>, NEW id \in BullIds,
           \A i \in BullIds : i # id => bull'[i] = bull[i],
           NEW j \in Jobs, IsFiniteSet(Added(j)'), Cardinality(Added(j)') \in Nat,
           LET gain == IF Due(bull'[id], id, j) /\ ~ Due(bull[id], id, j) THEN 1 ELSE 0
           IN  Cardinality(Added(j)') + Cost' >= Cardinality(Added(j)) + Cost + gain
    PROVE  /\ IsFiniteSet(Starting(j)') /\ IsFiniteSet(Deliverable(j)')
           /\ IsFiniteSet(Added(j)')
           /\ logs'[j]["CREATED"] + Cardinality(Starting(j)') + Cardinality(Deliverable(j)')
                <= 1 + Cardinality(Added(j)') + Cost'
<1> DEFINE c == logs[j]["CREATED"]
           s == Cardinality(Starting(j))
           d == Cardinality(Deliverable(j)) d1 == Cardinality(Deliverable(j)')
           a == Cardinality(Added(j))       a1 == Cardinality(Added(j)')
           k == Cost                        k1 == Cost'
           q == IF Due(bull'[id], id, j) THEN 1 ELSE 0
           o == IF Due(bull[id], id, j) THEN 1 ELSE 0
           g == IF Due(bull'[id], id, j) /\ ~ Due(bull[id], id, j) THEN 1 ELSE 0
<1>1. /\ c \in Nat /\ s \in Nat /\ d \in Nat /\ a \in Nat
      /\ IsFiniteSet(Starting(j)) /\ IsFiniteSet(Deliverable(j)) /\ IsFiniteSet(Added(j))
      /\ c + s + d <= 1 + a + k
  BY PaidTypes DEF PaidInv
<1>2. Starting(j)' = Starting(j) /\ logs'[j]["CREATED"] = c
  BY PaidFrame
<1>3. IsFiniteSet(Deliverable(j)') /\ d1 \in Nat /\ d1 = d + q - o
  BY <1>1, DeliverableCount
<1>4. k \in Nat /\ k1 \in Nat
  BY CostGrows
<1>5. q \in {0, 1} /\ o \in {0, 1} /\ g \in {0, 1} /\ q <= o + g
  OBVIOUS
<1>6. a1 \in Nat /\ a1 + k1 >= a + k + g
  OBVIOUS
<1> HIDE DEF c, s, d, d1, a, a1, k, k1, q, o, g
<1>7. d1 <= d + g
  BY <1>1, <1>3, <1>5
<1>8. c + s + d1 <= 1 + a1 + k1
  BY <1>1, <1>3, <1>4, <1>5, <1>6, <1>7
<1> QED BY <1>1, <1>2, <1>3, <1>8 DEF c, s, d1, a1, k1

(* The steps of BullMQ itself, and the adds of schedulers and replays.     *)
LEMMA PaidQueue ==
    ASSUME WellFormed, WellFormed', BudgetsBounded, PaidInv, [Next]_vars, UNCHANGED <<worker, logs>>,
           \/ UNCHANGED replays /\ \E id \in BullIds : StalledCheck(id) \/ LockLost(id) \/ Expire(id)
           \/ UNCHANGED replays /\ \E i \in Jobs : add(i, i)
           \/ \E r \in ReplayIds : ReplayAdd(r)
    PROVE  PaidInv'
<1> SUFFICES ASSUME NEW j \in Jobs
             PROVE  /\ IsFiniteSet(Starting(j)') /\ IsFiniteSet(Deliverable(j)')
                    /\ IsFiniteSet(Added(j)')
                    /\ logs'[j]["CREATED"] + Cardinality(Starting(j)')
                           + Cardinality(Deliverable(j)')
                         <= 1 + Cardinality(Added(j)') + Cost'
  BY DEF PaidInv
<1> DEFINE Paid == /\ IsFiniteSet(Starting(j)') /\ IsFiniteSet(Deliverable(j)')
                   /\ IsFiniteSet(Added(j)')
                   /\ logs'[j]["CREATED"] + Cardinality(Starting(j)')
                          + Cardinality(Deliverable(j)')
                        <= 1 + Cardinality(Added(j)') + Cost'
           Gain(id) == IF Due(bull'[id], id, j) /\ ~ Due(bull[id], id, j) THEN 1 ELSE 0
<1>0. bull \in [BullIds -> Entry] /\ IsFiniteSet(Added(j)) /\ Cardinality(Added(j)) \in Nat
  BY PaidTypes DEF WellFormed, Delivery, QueueTypeOK
<1>1. Cost \in Nat /\ Cost' \in Nat /\ Cost <= Cost'
  BY CostGrows
<1>2. UNCHANGED replays => Added(j)' = Added(j)
  BY PaidFrame
<1>3. ASSUME NEW id \in BullIds, UNCHANGED replays, StalledCheck(id) PROVE Paid
  <2> DEFINE st == IF bull[id].stalls + 1 > MaxStalledCount THEN "failed" ELSE "waiting"
             e == [bull[id] EXCEPT !.state = st, !.stalls = bull[id].stalls + 1]
  <2>1. e.state \in {"waiting", "failed"} /\ e.job = bull[id].job
    BY <1>0 DEF Entry
  <2>2. bull' = [bull EXCEPT ![id] = e]
    BY <1>3 DEF StalledCheck
  <2>3. bull[id].state = "active" /\ bull[id].lock = Null
    BY <1>3 DEF StalledCheck
  <2> HIDE DEF e
  <2>4. bull'[id] = e /\ \A i \in BullIds : i # id => bull'[i] = bull[i]
    BY <1>0, <2>2
  <2>5. Gain(id) = 0
    BY <2>1, <2>3, <2>4 DEF Due
  <2>6. Cardinality(Added(j)') + Cost' >= Cardinality(Added(j)) + Cost + Gain(id)
    BY <1>0, <1>1, <1>2, <1>3, <2>5
  <2> QED BY <1>0, <1>2, <1>3, <2>4, <2>6, PaidEntry
<1>4. ASSUME NEW id \in BullIds, UNCHANGED replays, LockLost(id) \/ Expire(id) PROVE Paid
  <2>1. \A i \in BullIds : i # id => bull'[i] = bull[i]
    BY <1>0, <1>4 DEF LockLost, Expire
  <2>2. Cost' >= Cost + 1
    BY <1>4, CostGrows DEF LockLost, Expire
  <2>3. Gain(id) \in {0, 1}
    OBVIOUS
  <2> HIDE DEF Gain
  <2>4. Cardinality(Added(j)') + Cost' >= Cardinality(Added(j)) + Cost + Gain(id)
    BY <1>0, <1>1, <1>2, <1>4, <2>2, <2>3
  <2> QED BY <1>0, <1>2, <1>4, <2>1, <2>4, PaidEntry DEF Gain
<1>5. ASSUME NEW id \in BullIds, NEW i \in Jobs, add(id, i)
      PROVE  /\ \A x \in BullIds : x # id => bull'[x] = bull[x]
             /\ Due(bull'[id], id, j) /\ ~ Due(bull[id], id, j) => i = j /\ id # j
  <2> DEFINE e == [NoEntry EXCEPT !.state = "waiting", !.job = i]
  <2>1. e.job = i /\ e.state = "waiting"
    BY DEF NoEntry
  <2>2. \/ UNCHANGED bull
        \/ bull[id].state = "none" /\ bull' = [bull EXCEPT ![id] = e]
    BY <1>5 DEF add
  <2> HIDE DEF e
  <2> QED BY <1>0, <2>1, <2>2 DEF Due
<1>6. ASSUME NEW i \in Jobs, UNCHANGED replays, add(i, i) PROVE Paid
  <2>1. Gain(i) = 0 /\ \A x \in BullIds : x # i => bull'[x] = bull[x]
    BY <1>5, <1>6
  <2>2. Cardinality(Added(j)') + Cost' >= Cardinality(Added(j)) + Cost + Gain(i)
    BY <1>0, <1>1, <1>2, <1>6, <2>1
  <2> QED BY <1>0, <1>2, <1>6, <2>1, <2>2, PaidEntry
<1>7. ASSUME NEW r \in ReplayIds, ReplayAdd(r) PROVE Paid
  <2>0. replays \in [ReplayIds -> [pc : {"unused", "add", "remove", "done"}, job : Jobs \cup {Null}]]
    BY DEF WellFormed, ServiceTypeOK
  <2>1. /\ replays[r].job \in Jobs /\ add(r, replays[r].job)
        /\ replays[r].pc = "add" /\ replays' = [replays EXCEPT ![r].pc = "remove"]
    BY <1>7 DEF ReplayAdd, WellFormed, ReplaysNameJobs
  <2>2. /\ replays'[r].pc = "remove" /\ replays'[r].job = replays[r].job
        /\ \A q \in ReplayIds : q # r => replays'[q] = replays[q]
    BY <2>0, <2>1
  <2>3. /\ r \notin Added(j)
        /\ r \in Added(j)' <=> replays[r].job = j
    BY <2>1, <2>2 DEF Added
  <2> DEFINE p == IF replays[r].job = j THEN 1 ELSE 0
  <2>4. /\ IsFiniteSet(Added(j)') /\ Cardinality(Added(j)') \in Nat
        /\ Cardinality(Added(j)') = Cardinality(Added(j)) + p
    BY <1>0, <2>2, <2>3, AddedCount
  <2>5. Gain(r) \in {0, 1} /\ Gain(r) <= p /\ p \in {0, 1}
    BY <1>5, <2>1
  <2>6. \A x \in BullIds : x # r => bull'[x] = bull[x]
    BY <1>5, <2>1
  <2> HIDE DEF Gain, p
  <2>7. Cardinality(Added(j)') + Cost' >= Cardinality(Added(j)) + Cost + Gain(r)
    BY <1>0, <1>1, <2>4, <2>5
  <2> QED BY <2>4, <2>6, <2>7, PaidEntry DEF Gain
<1> HIDE DEF Paid
<1>8. Paid
  BY <1>3, <1>4, <1>6, <1>7
<1> QED BY <1>8 DEF Paid

(* Every other step leaves slots, entries, rows and added replays alone.   *)
LEMMA PaidSteps ==
    ASSUME WellFormed, [Next]_vars
    PROVE  \/ \E w \in Workers : UNCHANGED replays /\ (WorkerRuns(w) \/ WorkerFails(w))
           \/ /\ UNCHANGED <<worker, logs>>
              /\ \/ UNCHANGED <<bull, replays>>
                 \/ UNCHANGED replays
                    /\ \E id \in BullIds : StalledCheck(id) \/ LockLost(id) \/ Expire(id)
                 \/ UNCHANGED replays /\ \E i \in Jobs : add(i, i)
                 \/ \E r \in ReplayIds : ReplayAdd(r) \/ ReplayRemove(r)
                 \/ \E r \in ReplayIds, i \in Jobs : ReplayGet(r, i)
<1>1. CASE UNCHANGED vars
  BY <1>1 DEF vars
<1>2. ASSUME NEW s \in Schedulers, UNCHANGED <<worker, api>>,
             scheduleReadyJobs(s) \/ recoverStalledJobs(s) \/ SchedulerFails(s)
      PROVE  /\ UNCHANGED <<worker, logs>>
             /\ UNCHANGED <<bull, replays>> \/ (UNCHANGED replays /\ \E i \in Jobs : add(i, i))
  BY <1>2
     DEF api, scheduleReadyJobs, recoverStalledJobs, SchedulerFails, ClaimBatch, Enqueue,
         EnqueueFails, EnqueueAndRevertFail, FindStalled, Recover, RecoverFails, SchedulerCrash
<1>3. ASSUME UNCHANGED <<sched, worker>>, ServiceRuns
      PROVE  /\ UNCHANGED <<worker, logs>>
             /\ \/ UNCHANGED <<bull, replays>>
                \/ \E r \in ReplayIds : ReplayAdd(r) \/ ReplayRemove(r)
                \/ \E r \in ReplayIds, i \in Jobs : ReplayGet(r, i)
  BY <1>3 DEF ServiceRuns, Submit, CancelCheck, CancelWrite, RetryCheck, RetryWrite,
              ReplayGet, ReplayAdd, ReplayRemove, api
<1> QED
  BY <1>1, <1>2, <1>3
     DEF Next, ScheduleStep, RecoverStep, WorkerStep, JobAges, JobFallsDue, StallStep,
         Disturbance, StartedAtAges, ScheduledTimeArrives, api

(* A job is executed once per submission, crash, failed statement, lost    *)
(* lock, expired entry and replay, in every behaviour: the races of        *)
(* several schedulers, the recoveries of slow jobs, cancels and retries    *)
(* add no execution.                                                       *)
THEOREM ExecutionsPaid == Spec => []ExecutionsArePaid
<1>1. Init => PaidInv
  <2> SUFFICES ASSUME Init, NEW j \in Jobs
               PROVE  /\ IsFiniteSet(Starting(j)) /\ IsFiniteSet(Deliverable(j))
                      /\ IsFiniteSet(Added(j))
                      /\ logs[j]["CREATED"] + Cardinality(Starting(j))
                             + Cardinality(Deliverable(j))
                           <= 1 + Cardinality(Added(j)) + Cost
    BY DEF PaidInv
  <2>1. Starting(j) = {}
    BY DEF Init, WorkerInit, Idle, Starting, Processing, Busy
  <2>2. Deliverable(j) = {j}
    BY QueueAssumption DEF Init, QueueInit, NoEntry, Deliverable, Due
  <2>3. Added(j) = {}
    BY DEF Init, ServiceInit, Added
  <2>4. logs[j]["CREATED"] = 0
    BY DEF Init, RepositoryInit, LogRows
  <2>5. Cost = 0
    BY LimitsAssumption DEF Init, EnvironmentInit, Cost, Spent, Disturbances
  <2>6. IsFiniteSet(Starting(j)) /\ Cardinality(Starting(j)) = 0
    BY <2>1, FS_EmptySet
  <2>7. IsFiniteSet(Deliverable(j)) /\ Cardinality(Deliverable(j)) = 1
    BY <2>2, FS_Singleton
  <2>8. IsFiniteSet(Added(j)) /\ Cardinality(Added(j)) = 0
    BY <2>3, FS_EmptySet
  <2> QED BY <2>4, <2>5, <2>6, <2>7, <2>8
<1>2. WellFormed /\ WellFormed' /\ BudgetsBounded /\ PaidInv /\ [Next]_vars => PaidInv'
  <2> SUFFICES ASSUME WellFormed, WellFormed', BudgetsBounded, PaidInv, [Next]_vars
               PROVE  PaidInv'
    OBVIOUS
  <2>1. ASSUME UNCHANGED <<worker, logs, bull>>, \A j \in Jobs : Added(j)' = Added(j)
        PROVE  PaidInv'
    <3> SUFFICES ASSUME NEW j \in Jobs
                 PROVE  /\ IsFiniteSet(Starting(j)') /\ IsFiniteSet(Deliverable(j)')
                        /\ IsFiniteSet(Added(j)')
                        /\ logs'[j]["CREATED"] + Cardinality(Starting(j)')
                               + Cardinality(Deliverable(j)')
                             <= 1 + Cardinality(Added(j)') + Cost'
      BY DEF PaidInv
    <3>1. /\ Starting(j)' = Starting(j) /\ Deliverable(j)' = Deliverable(j)
          /\ Added(j)' = Added(j) /\ logs'[j]["CREATED"] = logs[j]["CREATED"]
      BY <2>1, PaidFrame
    <3>2. Cost \in Nat /\ Cost' \in Nat /\ Cost <= Cost'
      BY CostGrows
    <3> QED BY <3>1, <3>2, PaidTypes DEF PaidInv
  <2>2. ASSUME NEW r \in ReplayIds, ReplayRemove(r) \/ \E i \in Jobs : ReplayGet(r, i)
        PROVE  \A j \in Jobs : Added(j)' = Added(j)
    BY <2>2 DEF ReplayRemove, ReplayGet, Added, WellFormed, ServiceTypeOK
  <2>3. ASSUME UNCHANGED replays PROVE \A j \in Jobs : Added(j)' = Added(j)
    BY <2>3 DEF Added
  <2>4. ASSUME NEW r \in ReplayIds, ReplayRemove(r) \/ \E i \in Jobs : ReplayGet(r, i)
        PROVE  UNCHANGED bull
    BY <2>4 DEF ReplayRemove, ReplayGet
  <2> QED BY <2>1, <2>2, <2>3, <2>4, PaidSteps, PaidWorker, PaidQueue
<1>3. WellFormed /\ BudgetsBounded /\ PaidInv => ExecutionsArePaid
  <2> SUFFICES ASSUME WellFormed, BudgetsBounded, PaidInv, NEW j \in Jobs
               PROVE  logs[j]["CREATED"] <= 1 + Replayed(j) + Spent("workerCrash")
                                              + Spent("fault") + Spent("lockLoss")
                                              + Spent("expiry")
    BY DEF ExecutionsArePaid
  <2>1. /\ logs[j]["CREATED"] \in Nat /\ Cardinality(Starting(j)) \in Nat
        /\ Cardinality(Deliverable(j)) \in Nat /\ Cardinality(Added(j)) \in Nat
    BY FS_CardinalityType DEF PaidInv, WellFormed, RepositoryTypeOK, LogRows
  <2>2. \A k \in Disturbances : Spent(k) \in Nat
    BY LimitsAssumption DEF WellFormed, EnvironmentTypeOK, BudgetsBounded, Spent
  <2>3. Replayed(j) = Cardinality(Added(j))
    BY DEF Replayed, Added
  <2>4. logs[j]["CREATED"] + Cardinality(Starting(j)) + Cardinality(Deliverable(j))
           <= 1 + Cardinality(Added(j)) + Cost
    BY DEF PaidInv
  <2> QED BY <2>1, <2>2, <2>3, <2>4 DEF Cost, Disturbances
<1> QED BY <1>1, <1>2, <1>3, WellFormedInvariant, BudgetInvariant, PTL DEF Spec

--------------------------------------------------------------------------------
(* Cancelled jobs.                                                         *)

Settled(j) == jobs[j].status = "CANCELLED" /\ Quiet(j)

(* Every statement of the steps that change rows spares the row of a job   *)
(* that is cancelled and that nobody is at work on.                        *)
LEMMA SettledRow ==
    ASSUME WellFormed, Next, NEW j \in Jobs, Settled(j)
    PROVE  jobs'[j].status = "CANCELLED"
<1> DEFINE Goal == jobs'[j].status = "CANCELLED"
<1> USE DEF WellFormed, Settled
<1>0. ASSUME UNCHANGED jobs PROVE Goal
  BY <1>0
<1>1. ASSUME NEW i \in Jobs \ {j}, NEW dto \in DtoType, update(i, dto) PROVE Goal
  BY <1>1, UpdateRow
<1>2. ASSUME NEW s \in Schedulers, ClaimBatch(s) PROVE Goal
  BY <1>2 DEF ClaimBatch, claimPendingJobs, Batches, Claimable
<1>3. ASSUME NEW s \in Schedulers, NEW i \in Jobs, EnqueueFails(s, i) PROVE Goal
  <2>1. i \in Jobs \ {j}
    BY <1>3 DEF EnqueueFails, Quiet
  <2>2. [Dto EXCEPT !.status = "PENDING"] \in DtoType
    BY DtoTypes DEF JobStatus
  <2> QED BY <1>1, <1>3, <2>1, <2>2 DEF EnqueueFails
<1>4. ASSUME NEW w \in Workers, MarkRunning(w) \/ SaveJob(w) \/ SettleRetrying(w) \/ SettleFailed(w)
      PROVE  Goal
  <2>1. worker[w].job \in Jobs \ {j} /\ worker[w] \in Slot
    BY <1>4 DEF MarkRunning, SaveJob, SettleRetrying, SettleFailed, Delivery, SlotsHaveEntries,
                Busy, WorkerTypeOK, Quiet, Processing
  <2>2. newRetryCount(w) \in Nat
    BY <2>1 DEF newRetryCount, Slot
  <2>3. \E dto \in DtoType : update(worker[w].job, dto)
    BY <1>4, <2>2, DtoTypes DEF MarkRunning, SaveJob, SettleRetrying, SettleFailed, JobStatus
  <2> QED BY <1>1, <2>1, <2>3
<1>5. ASSUME NEW i \in Jobs, CancelWrite(i) \/ RetryWrite(i) PROVE Goal
  <2>1. i \in Jobs \ {j}
    BY <1>5 DEF CancelWrite, RetryWrite, Quiet
  <2>2. \E dto \in DtoType : update(i, dto)
    BY <1>5, DtoTypes DEF CancelWrite, RetryWrite, JobStatus
  <2> QED BY <1>1, <2>1, <2>2
<1>6. ASSUME NEW i \in Jobs, Submit(i) \/ StartedAtAges(i) \/ ScheduledTimeArrives(i)
      PROVE  Goal
  <2>1. jobs[i] \in Row
    BY DEF RepositoryTypeOK
  <2>2. CASE Submit(i)
    BY <2>1, <2>2 DEF Submit, create, Row, RepositoryTypeOK
  <2>3. CASE StartedAtAges(i)
    BY <2>1, <2>3 DEF StartedAtAges, Row, RepositoryTypeOK
  <2>4. CASE ScheduledTimeArrives(i)
    BY <2>1, <2>4 DEF ScheduledTimeArrives, Row, RepositoryTypeOK
  <2> QED BY <1>6, <2>2, <2>3, <2>4
<1>7. ASSUME NEW s \in Schedulers, NEW r \in sched[s].stalled, Recover(s, r) PROVE Goal
  <2>1. r \in Snapshot /\ r.job \in Jobs \ {j}
    BY DEF SchedulerTypeOK, Snapshot, Quiet
  <2>2. RecoveryDto(r) \in DtoType /\ update(r.job, RecoveryDto(r))
    BY <1>7, <2>1, DtoTypes DEF Recover
  <2> QED BY <1>1, <2>1, <2>2
<1> HIDE DEF Goal, Settled, WellFormed
<1>8. ASSUME NEW s \in Schedulers, ScheduleStep(s) \/ RecoverStep(s) \/ SchedulerFails(s)
      PROVE  Goal
  BY <1>0, <1>2, <1>3, <1>7, <1>8
     DEF ScheduleStep, RecoverStep, scheduleReadyJobs, recoverStalledJobs, SchedulerFails,
         Enqueue, EnqueueAndRevertFail, FindStalled, RecoverFails, SchedulerCrash
<1>9. ASSUME NEW w \in Workers, WorkerStep(w) \/ WorkerFails(w) PROVE Goal
  BY <1>0, <1>4, <1>9
     DEF WorkerStep, WorkerRuns, WorkerFails, Take, SkipCancelled, StartProcessing,
         Execute, SaveLog, Notify, LoadFailure, DeadLetter, Ack, Throw, Crash
<1>10. ASSUME ServiceRuns PROVE Goal
  BY <1>0, <1>5, <1>6, <1>10
     DEF ServiceRuns, CancelCheck, RetryCheck, ReplayGet, ReplayAdd, ReplayRemove
<1>11. Goal
  BY <1>0, <1>6, <1>8, <1>9, <1>10
     DEF Next, JobAges, JobFallsDue, StallStep, StalledCheck, Disturbance
<1> QED BY <1>11 DEF Goal

(* No poll half comes to hold the job: a claim wants it PENDING, and a     *)
(* recovery RUNNING.                                                       *)
LEMMA SettledPolls ==
    ASSUME WellFormed, Next, NEW j \in Jobs, Settled(j), NEW s \in Schedulers
    PROVE  j \notin sched'[s].claimed /\ \A r \in sched'[s].stalled : r.job # j
<1> DEFINE Goal == j \notin sched'[s].claimed /\ \A r \in sched'[s].stalled : r.job # j
<1> USE DEF WellFormed, SchedulerTypeOK
<1>0. j \notin sched[s].claimed /\ \A r \in sched[s].stalled : r.job # j
  BY DEF Settled, Quiet
<1>1. ASSUME UNCHANGED sched PROVE Goal
  BY <1>0, <1>1
<1>2. ASSUME NEW t \in Schedulers, ClaimBatch(t) PROVE Goal
  BY <1>0, <1>2 DEF ClaimBatch, Batches, Claimable, Settled
<1>3. ASSUME NEW t \in Schedulers, NEW i \in Jobs,
             Enqueue(t, i) \/ EnqueueFails(t, i) \/ EnqueueAndRevertFail(t, i)
      PROVE  Goal
  BY <1>0, <1>3 DEF Enqueue, EnqueueFails, EnqueueAndRevertFail
<1>4. ASSUME NEW t \in Schedulers, FindStalled(t) PROVE Goal
  BY <1>0, <1>4 DEF FindStalled, findStalledJobs, Settled
<1>5. ASSUME NEW t \in Schedulers, RecoverFails(t) \/ \E r \in sched[t].stalled : Recover(t, r)
      PROVE  Goal
  BY <1>0, <1>5 DEF RecoverFails, Recover
<1>6. ASSUME NEW t \in Schedulers, SchedulerCrash(t) PROVE Goal
  BY <1>0, <1>6 DEF SchedulerCrash, Polled
<1> HIDE DEF Goal
<1>7. Goal
  BY <1>1, <1>2, <1>3, <1>4, <1>5, <1>6
     DEF Next, ScheduleStep, RecoverStep, WorkerStep, JobAges, JobFallsDue, StallStep,
         Disturbance, scheduleReadyJobs, recoverStalledJobs, SchedulerFails
<1> QED BY <1>7 DEF Goal

(* A slot that has the job, or takes its entry, only skips it.             *)
LEMMA SettledSlots ==
    ASSUME WellFormed, Next, NEW j \in Jobs, Settled(j), NEW w \in Workers
    PROVE  worker'[w].pc \in {"idle", "start", "ack"} \/ worker'[w].job # j
<1> DEFINE Goal == worker'[w].pc \in {"idle", "start", "ack"} \/ worker'[w].job # j
<1>0. worker[w] \in Slot /\ worker \in [Workers -> Slot]
  BY DEF WellFormed, Delivery, WorkerTypeOK
<1>1. worker[w].pc \in {"idle", "start", "ack"} \/ worker[w].job # j
  BY DEF Settled, Quiet, Processing, Busy
<1>2. ASSUME worker'[w] = worker[w] PROVE Goal
  BY <1>1, <1>2
<1>3. ASSUME NEW id \in BullIds, Take(w, id) PROVE Goal
  BY <1>0, <1>3 DEF Take, Idle
<1>4. ASSUME SkipCancelled(w) \/ Notify(w) \/ SettleRetrying(w) \/ DeadLetter(w) PROVE Goal
  BY <1>4, Goes DEF SkipCancelled, Notify, SettleRetrying, DeadLetter
<1>5. ASSUME StartProcessing(w) PROVE Goal
  BY <1>5, Goes DEF StartProcessing, Settled
<1>6. ASSUME MarkRunning(w) \/ SettleFailed(w) PROVE Goal
  BY <1>1, <1>6, Goes DEF MarkRunning, SettleFailed
<1>7. ASSUME Execute(w) PROVE Goal
  <2>1. PICK o \in execute(JobType[worker[w].job]) :
          worker' = [worker EXCEPT
                       ![w] = IF o = "OK"
                              THEN [@ EXCEPT !.pc = "save", !.todo = {"job", "log"}]
                              ELSE [@ EXCEPT !.pc = "failure", !.errorCode = o]]
    BY <1>7 DEF Execute
  <2>2. worker[w].job # j
    BY <1>1, <1>7 DEF Execute
  <2>3. CASE o = "OK"
    BY <1>0, <2>1, <2>2, <2>3 DEF Slot
  <2>4. CASE o # "OK"
    BY <1>0, <2>1, <2>2, <2>4 DEF Slot
  <2> QED BY <2>3, <2>4
<1>8. ASSUME SaveJob(w) \/ SaveLog(w) \/ LoadFailure(w) PROVE Goal
  <2>1. worker[w].job # j
    BY <1>1, <1>8 DEF SaveJob, SaveLog, LoadFailure
  <2>2. worker'[w].job = worker[w].job
    <3>1. ASSUME NEW write, saved(w, write) PROVE worker'[w].job = worker[w].job
      <4> DEFINE pc == IF worker[w].todo = {write} THEN "notify" ELSE "save"
                 todo == worker[w].todo \ {write}
      <4>1. worker' = [worker EXCEPT ![w] = [@ EXCEPT !.todo = todo, !.pc = pc]]
        BY <3>1 DEF saved
      <4> HIDE DEF pc, todo
      <4> QED BY <1>0, <4>1 DEF Slot
    <3>2. ASSUME LoadFailure(w) PROVE worker'[w].job = worker[w].job
      BY <1>0, <3>2 DEF LoadFailure, Slot
    <3> QED BY <1>8, <3>1, <3>2 DEF SaveJob, SaveLog
  <2> QED BY <2>1, <2>2
<1>9. ASSUME Ack(w) \/ Throw(w) \/ Crash(w) PROVE Goal
  BY <1>0, <1>9 DEF Ack, Throw, Crash, Idle
<1> HIDE DEF Goal
<1>10. ASSUME NEW v \in Workers, WorkerRuns(v) \/ WorkerFails(v) PROVE Goal
  <2>1. CASE v # w
    BY <1>2, <1>10, <2>1, OtherSlots
  <2>2. CASE v = w
    BY <1>3, <1>4, <1>5, <1>6, <1>7, <1>8, <1>9, <1>10, <2>2 DEF WorkerRuns, WorkerFails
  <2> QED BY <2>1, <2>2
<1>11. Goal
  BY <1>2, <1>10
     DEF Next, ScheduleStep, RecoverStep, WorkerStep, JobAges, JobFallsDue, StallStep, Disturbance
<1> QED BY <1>11 DEF Goal

(* Nobody may cancel it again, and nobody asks for a retry.                *)
LEMMA SettledRequests ==
    ASSUME WellFormed, "retry" \notin Requests, Next, NEW j \in Jobs, Settled(j)
    PROVE  j \notin cancelling' \cup retrying'
<1>0. j \notin cancelling \cup retrying /\ jobs[j].status = "CANCELLED"
  BY DEF Settled, Quiet
<1>1. CASE UNCHANGED api
  BY <1>0, <1>1 DEF api
<1>2. CASE ServiceRuns
  BY <1>0, <1>2
     DEF ServiceRuns, Submit, api, CancelCheck, Cancellable, CancelWrite, RetryCheck, Request,
         RetryWrite, ReplayGet, ReplayAdd, ReplayRemove
<1> QED
  BY <1>1, <1>2
     DEF Next, ScheduleStep, RecoverStep, WorkerStep, JobAges, JobFallsDue, StallStep, Disturbance

(* Once a job is CANCELLED with nobody at work on it, it is so for good    *)
(* where nobody asks for a retry: its entry may still be delivered, stall, *)
(* be delivered again, be replayed from the dead letter queue; crashes and *)
(* lost locks may come in between.                                         *)
THEOREM CancelIsFinal == ASSUME "retry" \notin Requests PROVE Spec => CancelHolds
<1>1. ASSUME NEW j \in Jobs
      PROVE  Spec => [](jobs[j].status = "CANCELLED" /\ Quiet(j) => [](jobs[j].status = "CANCELLED"))
  <2>1. WellFormed /\ Settled(j) /\ [Next]_vars => Settled(j)'
    <3> SUFFICES ASSUME WellFormed, Settled(j), [Next]_vars PROVE Settled(j)'
      OBVIOUS
    <3>1. CASE UNCHANGED vars
      BY <3>1 DEF vars, Settled, Quiet, Processing, Busy
    <3>2. CASE Next
      BY <3>2, SettledRow, SettledPolls, SettledSlots, SettledRequests
         DEF Settled, Quiet, Processing, Busy
    <3> QED BY <3>1, <3>2
  <2>2. Settled(j) <=> jobs[j].status = "CANCELLED" /\ Quiet(j)
    BY DEF Settled
  <2> QED BY <2>1, <2>2, WellFormedInvariant, PTL DEF Spec
<1> QED BY <1>1 DEF CancelHolds
================================================================================
