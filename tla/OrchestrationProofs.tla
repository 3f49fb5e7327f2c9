-------------------------- MODULE OrchestrationProofs --------------------------
(***************************************************************************)
(* Theorems about Orchestration, for any sets of jobs, workers and         *)
(* schedulers and any number of disturbances.                              *)
(***************************************************************************)
EXTENDS Orchestration, TLAPS

USE DEF BullIds

--------------------------------------------------------------------------------
(* What the operations of the repository do.                               *)

DtoType == [status      : JobStatus \cup {Undefined},
            retryCount  : Nat \cup {Undefined},
            startedAt   : StartedAt \cup {Undefined},
            completedAt : {"set", Undefined}]

(* The dtos the code passes to update.                                     *)
LEMMA DtoTypes ==
    /\ \A st \in JobStatus : [Dto EXCEPT !.status = st] \in DtoType
    /\ \A st \in JobStatus :
         [Dto EXCEPT !.status = st, !.completedAt = "set"] \in DtoType
    /\ [Dto EXCEPT !.status = "RUNNING", !.startedAt = "recent"] \in DtoType
    /\ \A n \in Nat : [Dto EXCEPT !.status = "RETRYING", !.retryCount = n,
                                  !.startedAt = Undefined] \in DtoType
    /\ RetryDto \in DtoType
    /\ \A r \in Snapshot : RecoveryDto(r) \in DtoType
BY DEF Dto, DtoType, RetryDto, RecoveryDto, Snapshot, JobStatus, StartedAt

(* update changes one row, and in it the columns the dto defines.          *)
LEMMA UpdateRow ==
    ASSUME RepositoryTypeOK, NEW j \in Jobs, NEW dto \in DtoType, update(j, dto)
    PROVE  /\ jobs' \in [Jobs -> Row]
           /\ \A k \in Jobs \ {j} : jobs'[k] = jobs[k]
           /\ dto.status # Undefined => jobs'[j].status = dto.status
           /\ dto.retryCount = Undefined => jobs'[j].retryCount = jobs[j].retryCount
           /\ dto.retryCount # Undefined => jobs'[j].retryCount = dto.retryCount
<1>1. updated(jobs[j], dto) \in Row
  BY DEF RepositoryTypeOK, updated, toRow, Row, DtoType
<1>2. jobs' = [jobs EXCEPT ![j] = updated(jobs[j], dto)]
  BY DEF update
<1>3. /\ updated(jobs[j], dto).status = toRow(dto.status, jobs[j].status)
      /\ updated(jobs[j], dto).retryCount = toRow(dto.retryCount, jobs[j].retryCount)
  BY DEF RepositoryTypeOK, updated, Row
<1> QED
  BY <1>1, <1>2, <1>3 DEF RepositoryTypeOK, toRow

(* An update keeps the tables well typed.                                  *)
LEMMA UpdateType ==
    ASSUME RepositoryTypeOK, NEW j \in Jobs, NEW dto \in DtoType, update(j, dto),
           UNCHANGED logs
    PROVE  RepositoryTypeOK'
BY UpdateRow DEF RepositoryTypeOK

(* So does one more execution log row.                                     *)
LEMMA LogType ==
    ASSUME RepositoryTypeOK, NEW j \in Jobs, NEW k \in LogRows,
           logs' = [logs EXCEPT ![j][k] = @ + 1], UNCHANGED jobs
    PROVE  RepositoryTypeOK'
BY DEF RepositoryTypeOK

(* A disturbance leaves the budgets natural numbers.                       *)
LEMMA SpendType ==
    ASSUME EnvironmentTypeOK, NEW k \in Disturbances, Spend(k)
    PROVE  EnvironmentTypeOK'
BY DEF EnvironmentTypeOK, Spend

--------------------------------------------------------------------------------
(* Slots, entries, locks and replays name each other consistently.         *)
EntriesNameJobs ==
    \A id \in BullIds : bull[id].state # "none" =>
        /\ bull[id].job \in Jobs
        /\ id \in Jobs => bull[id].job = id

SlotsHaveEntries ==
    \A w \in Workers : Busy(w) => /\ worker[w].bull \in BullIds
                                  /\ worker[w].job \in Jobs

LocksAreHeld ==
    \A id \in BullIds : bull[id].lock # Null =>
        /\ bull[id].state = "active"
        /\ Busy(bull[id].lock)
        /\ worker[bull[id].lock].bull = id
        /\ worker[bull[id].lock].job = bull[id].job

ReplaysNameJobs ==
    \A r \in ReplayIds : replays[r].pc # "unused" => replays[r].job \in Jobs

(* What links the queue with the slots, and what the provers need to see   *)
(* of it in most steps.                                                    *)
Delivery == /\ QueueTypeOK
            /\ WorkerTypeOK
            /\ EntriesNameJobs
            /\ SlotsHaveEntries
            /\ LocksAreHeld

WellFormed == /\ EnvironmentTypeOK
              /\ RepositoryTypeOK
              /\ SchedulerTypeOK
              /\ ServiceTypeOK
              /\ ReplaysNameJobs
              /\ Delivery

(* Every part survives steps that do not touch its variables.              *)
LEMMA Frame ==
    ASSUME WellFormed
    PROVE  /\ UNCHANGED budget => EnvironmentTypeOK'
           /\ UNCHANGED <<jobs, logs>> => RepositoryTypeOK'
           /\ UNCHANGED sched => SchedulerTypeOK'
           /\ UNCHANGED api => ServiceTypeOK' /\ ReplaysNameJobs'
           /\ UNCHANGED <<bull, dlq, worker>> => Delivery'
BY DEF WellFormed, Delivery, EnvironmentTypeOK, RepositoryTypeOK, SchedulerTypeOK,
       ServiceTypeOK, ReplaysNameJobs, QueueTypeOK, WorkerTypeOK, EntriesNameJobs,
       SlotsHaveEntries, LocksAreHeld, Busy, api

(* A busy slot moves on within the same entry.                             *)
LEMMA SlotMoves ==
    ASSUME Delivery, NEW w \in Workers, Busy(w), NEW x \in Slot,
           x.pc # "idle", x.bull = worker[w].bull, x.job = worker[w].job,
           worker' = [worker EXCEPT ![w] = x], UNCHANGED <<bull, dlq>>
    PROVE  Delivery'
BY DEF Delivery, QueueTypeOK, WorkerTypeOK, EntriesNameJobs, SlotsHaveEntries,
       LocksAreHeld, Busy, Slot

(* The same, for a step that only changes where the slot is.               *)
LEMMA SlotGoes ==
    ASSUME Delivery, NEW w \in Workers, Busy(w), NEW pc \in pcs \ {"idle"},
           goto(w, pc), UNCHANGED <<bull, dlq>>
    PROVE  Delivery'
<1> DEFINE x == [worker[w] EXCEPT !.pc = pc]
<1>1. /\ x \in Slot /\ x.pc # "idle"
      /\ x.bull = worker[w].bull /\ x.job = worker[w].job
  BY DEF Delivery, WorkerTypeOK, Slot, pcs
<1> QED BY <1>1, SlotMoves DEF goto

(* A slot gives up its entry, whose lock, if it still has it, goes.        *)
LEMMA SlotReleases ==
    ASSUME Delivery, NEW w \in Workers, Busy(w),
           NEW e \in Entry, e.lock = Null, e.job = bull[worker[w].bull].job,
           bull' = IF bull[worker[w].bull].lock = w
                   THEN [bull EXCEPT ![worker[w].bull] = e] ELSE bull,
           worker' = [worker EXCEPT ![w] = Idle], UNCHANGED dlq
    PROVE  Delivery'
<1> USE QueueAssumption
<1> DEFINE id == worker[w].bull
<1>1. id \in BullIds /\ Idle \in Slot /\ Idle.pc = "idle"
  BY DEF Delivery, SlotsHaveEntries, Idle, Slot, pcs
<1>2. \A i \in BullIds : bull'[i] = bull[i] \/ (i = id /\ bull[i].lock = w /\ bull'[i] = e)
  BY <1>1 DEF Delivery, QueueTypeOK
<1>3. QueueTypeOK' /\ WorkerTypeOK'
  BY <1>1 DEF Delivery, QueueTypeOK, WorkerTypeOK
<1>4. EntriesNameJobs'
  BY <1>1, <1>2 DEF Delivery, EntriesNameJobs, LocksAreHeld
<1>5. SlotsHaveEntries'
  BY <1>1 DEF Delivery, WorkerTypeOK, SlotsHaveEntries, Busy
<1>6. LocksAreHeld'
  BY <1>1, <1>2 DEF Delivery, QueueTypeOK, WorkerTypeOK, Entry, LocksAreHeld, Busy
<1> QED BY <1>3, <1>4, <1>5, <1>6 DEF Delivery

(* An entry nobody holds is added, finished, expired or put back.          *)
LEMMA EntryChanges ==
    ASSUME Delivery, NEW id \in BullIds, NEW e \in Entry, e.lock = Null,
           e.state # "none" => e.job \in Jobs /\ (id \in Jobs => e.job = id),
           bull' = [bull EXCEPT ![id] = e], UNCHANGED <<worker, dlq>>
    PROVE  Delivery'
BY QueueAssumption
   DEF Delivery, QueueTypeOK, WorkerTypeOK, Entry, EntriesNameJobs,
       SlotsHaveEntries, LocksAreHeld, Busy

(* An add keeps the queue, and what slots and locks say of it, well        *)
(* formed.                                                                 *)
LEMMA AddType ==
    ASSUME Delivery, NEW id \in BullIds, NEW j \in Jobs, id \in Jobs => id = j,
           add(id, j), UNCHANGED <<worker, dlq>>
    PROVE  Delivery'
<1> DEFINE e == [NoEntry EXCEPT !.state = "waiting", !.job = j]
<1>1. e \in Entry /\ e.lock = Null /\ e.job = j
  BY DEF NoEntry, Entry
<1>2. CASE bull[id].state = "none"
  BY <1>1, <1>2, EntryChanges DEF add
<1>3. CASE bull[id].state # "none"
  <2>1. UNCHANGED bull BY <1>3 DEF add
  <2> QED BY <2>1 DEF Delivery, QueueTypeOK, WorkerTypeOK, EntriesNameJobs,
                      SlotsHaveEntries, LocksAreHeld, Busy
<1> QED BY <1>2, <1>3

(* The dead letter queue is not part of the delivery.                      *)
LEMMA DlqChanges ==
    ASSUME Delivery, dlq' \in SUBSET Jobs, UNCHANGED <<bull, worker>>
    PROVE  Delivery'
BY DEF Delivery, QueueTypeOK, WorkerTypeOK, EntriesNameJobs, SlotsHaveEntries,
       LocksAreHeld, Busy

--------------------------------------------------------------------------------
(* The initial state is well formed.                                       *)
LEMMA InitWellFormed == Init => WellFormed
BY JobsAssumption, LimitsAssumption, QueueAssumption
   DEF Init, EnvironmentInit, RepositoryInit, QueueInit, SchedulerInit,
       WorkerInit, ServiceInit, WellFormed, Delivery, EnvironmentTypeOK,
       RepositoryTypeOK, QueueTypeOK, SchedulerTypeOK, WorkerTypeOK,
       ServiceTypeOK, EntriesNameJobs, SlotsHaveEntries, LocksAreHeld,
       ReplaysNameJobs, Row, Entry, NoEntry, Polled, Idle, Slot, Busy, pcs,
       LogRows, StartedAt

(* The steps of a scheduler touch the rows, the entries `job_<id>` and its *)
(* own state.                                                              *)
LEMMA SchedulerWellFormed ==
    ASSUME WellFormed, NEW s \in Schedulers, UNCHANGED <<worker, api>>,
           scheduleReadyJobs(s) \/ recoverStalledJobs(s) \/ SchedulerFails(s)
    PROVE  WellFormed'
<1> USE Frame DEF WellFormed
<1>1. CASE ClaimBatch(s)
  <2>1. PICK K \in SUBSET Jobs : claimPendingJobs(K) /\ sched' = [sched EXCEPT ![s].claimed = K]
    BY <1>1 DEF ClaimBatch, Batches, Claimable
  <2>2. RepositoryTypeOK'
    BY <1>1, <2>1 DEF ClaimBatch, claimPendingJobs, RepositoryTypeOK, Row, JobStatus
  <2>3. SchedulerTypeOK'
    BY <2>1 DEF SchedulerTypeOK
  <2> QED BY <1>1, <2>2, <2>3 DEF ClaimBatch
<1>2. ASSUME NEW j \in Jobs, Enqueue(s, j) PROVE WellFormed'
  <2>1. Delivery'
    BY <1>2, AddType DEF Enqueue
  <2>2. SchedulerTypeOK'
    BY <1>2 DEF Enqueue, SchedulerTypeOK
  <2> QED BY <1>2, <2>1, <2>2 DEF Enqueue
<1>3. CASE FindStalled(s)
  <2>1. {[job |-> j, retryCount |-> jobs[j].retryCount] : j \in findStalledJobs}
            \in SUBSET Snapshot
    BY DEF findStalledJobs, Snapshot, RepositoryTypeOK, Row
  <2>2. SchedulerTypeOK'
    BY <1>3, <2>1 DEF FindStalled, SchedulerTypeOK
  <2> QED BY <1>3, <2>2 DEF FindStalled
<1>4. ASSUME NEW r \in sched[s].stalled, Recover(s, r) PROVE WellFormed'
  <2>1. r \in Snapshot /\ r.job \in Jobs
    BY DEF SchedulerTypeOK, Snapshot
  <2>2. RepositoryTypeOK'
    BY <1>4, <2>1, UpdateType, DtoTypes DEF Recover
  <2>3. SchedulerTypeOK'
    BY <1>4 DEF Recover, SchedulerTypeOK
  <2> QED BY <1>4, <2>2, <2>3 DEF Recover
<1>5. ASSUME NEW j \in Jobs, EnqueueFails(s, j) PROVE WellFormed'
  <2>1. EnvironmentTypeOK'
    BY <1>5, SpendType DEF EnqueueFails, Disturbances
  <2>2. RepositoryTypeOK'
    BY <1>5, UpdateType, DtoTypes DEF EnqueueFails, JobStatus
  <2>3. SchedulerTypeOK'
    BY <1>5 DEF EnqueueFails, SchedulerTypeOK
  <2> QED BY <1>5, <2>1, <2>2, <2>3 DEF EnqueueFails
<1>6. ASSUME NEW j \in Jobs, EnqueueAndRevertFail(s, j) PROVE WellFormed'
  <2>1. EnvironmentTypeOK'
    BY <1>6, SpendType DEF EnqueueAndRevertFail, Disturbances
  <2>2. SchedulerTypeOK'
    BY <1>6 DEF EnqueueAndRevertFail, SchedulerTypeOK
  <2> QED BY <1>6, <2>1, <2>2 DEF EnqueueAndRevertFail
<1>7. CASE RecoverFails(s)
  <2>1. EnvironmentTypeOK'
    BY <1>7, SpendType DEF RecoverFails, Disturbances
  <2>2. SchedulerTypeOK'
    BY <1>7 DEF RecoverFails, SchedulerTypeOK
  <2> QED BY <1>7, <2>1, <2>2 DEF RecoverFails
<1>8. CASE SchedulerCrash(s)
  <2>1. EnvironmentTypeOK'
    BY <1>8, SpendType DEF SchedulerCrash, Disturbances
  <2>2. SchedulerTypeOK'
    BY <1>8 DEF SchedulerCrash, SchedulerTypeOK, Polled
  <2> QED BY <1>8, <2>1, <2>2 DEF SchedulerCrash
<1> QED
  BY <1>1, <1>2, <1>3, <1>4, <1>5, <1>6, <1>7, <1>8
     DEF scheduleReadyJobs, recoverStalledJobs, SchedulerFails

(* The steps of a slot.                                                    *)
LEMMA WorkerWellFormed ==
    ASSUME WellFormed, NEW w \in Workers, UNCHANGED <<sched, api>>,
           WorkerRuns(w) \/ WorkerFails(w)
    PROVE  WellFormed'
<1> USE Frame DEF WellFormed
<1>1. ASSUME NEW id \in BullIds, Take(w, id) PROVE WellFormed'
  <2> DEFINE e == [bull[id] EXCEPT !.state = "active", !.lock = w]
             x == [Idle EXCEPT !.pc = "start", !.bull = id, !.job = bull[id].job]
  <2>1. bull[id] \in Entry /\ bull[id].job \in Jobs /\ (id \in Jobs => bull[id].job = id)
    BY <1>1 DEF Take, moveToActive, Delivery, QueueTypeOK, EntriesNameJobs
  <2>2. /\ e \in Entry /\ e.state = "active" /\ e.lock = w /\ e.job = bull[id].job
        /\ bull' = [bull EXCEPT ![id] = e]
    BY <1>1, <2>1 DEF Take, moveToActive, Entry
  <2>3. /\ x \in Slot /\ x.pc # "idle" /\ x.bull = id /\ x.job = bull[id].job
        /\ worker' = [worker EXCEPT ![w] = x]
    BY <1>1, <2>1 DEF Take, Slot, Idle, pcs
  <2>4. \A i \in BullIds : bull[i].lock # w
    BY <1>1, QueueAssumption DEF Take, Delivery, LocksAreHeld
  <2>5. Delivery'
    BY <1>1, <2>1, <2>2, <2>3, <2>4
       DEF Take, Delivery, QueueTypeOK, WorkerTypeOK, Entry, EntriesNameJobs,
           SlotsHaveEntries, LocksAreHeld, Busy
  <2> QED BY <1>1, <2>5 DEF Take
<1>2. ASSUME Busy(w) PROVE worker[w].job \in Jobs /\ worker[w].bull \in BullIds /\ worker[w] \in Slot
  BY <1>2 DEF Delivery, WorkerTypeOK, SlotsHaveEntries
<1>3. CASE SkipCancelled(w)
  <2>1. Delivery'
    BY <1>3, SlotGoes DEF SkipCancelled, Busy, pcs
  <2> QED BY <1>3, <2>1 DEF SkipCancelled
<1>4. CASE StartProcessing(w)
  <2>1. Delivery'
    BY <1>4, SlotGoes DEF StartProcessing, Busy, pcs
  <2>2. RepositoryTypeOK'
    BY <1>2, <1>4, LogType DEF StartProcessing, Busy, createLog, LogRows
  <2> QED BY <1>4, <2>1, <2>2 DEF StartProcessing
<1>5. CASE MarkRunning(w)
  <2>1. Delivery'
    BY <1>5, SlotGoes DEF MarkRunning, Busy, pcs
  <2>2. RepositoryTypeOK'
    BY <1>2, <1>5, UpdateType, DtoTypes DEF MarkRunning, Busy
  <2> QED BY <1>5, <2>1, <2>2 DEF MarkRunning
<1>6. CASE Execute(w)
  <2>1. PICK o \in execute(JobType[worker[w].job]) :
          worker' = [worker EXCEPT
                       ![w] = IF o = "OK"
                              THEN [@ EXCEPT !.pc = "save", !.todo = {"job", "log"}]
                              ELSE [@ EXCEPT !.pc = "failure", !.errorCode = o]]
    BY <1>6 DEF Execute
  <2> DEFINE x == IF o = "OK"
                  THEN [worker[w] EXCEPT !.pc = "save", !.todo = {"job", "log"}]
                  ELSE [worker[w] EXCEPT !.pc = "failure", !.errorCode = o]
  <2>2. worker' = [worker EXCEPT ![w] = x]
    BY <2>1
  <2>3. o \in Outcomes
    BY <1>2, <1>6, <2>1, JobTypeAssumption DEF Execute, Busy, Outcomes
  <2>4. /\ x \in Slot /\ x.pc # "idle"
        /\ x.bull = worker[w].bull /\ x.job = worker[w].job
    BY <1>2, <1>6, <2>3 DEF Execute, Busy, Slot, pcs
  <2>5. Delivery'
    BY <1>6, <2>2, <2>4, SlotMoves DEF Execute, Busy
  <2> QED BY <1>6, <2>5 DEF Execute
<1>7. ASSUME NEW write, worker[w].pc = "save", saved(w, write), UNCHANGED <<bull, dlq>>
      PROVE  Delivery'
  <2> DEFINE x == [worker[w] EXCEPT !.todo = worker[w].todo \ {write},
                                    !.pc = IF worker[w].todo = {write}
                                           THEN "notify" ELSE "save"]
  <2>1. worker' = [worker EXCEPT ![w] = x]
    BY <1>7 DEF saved
  <2>2. /\ x \in Slot /\ x.pc # "idle"
        /\ x.bull = worker[w].bull /\ x.job = worker[w].job
    BY <1>2, <1>7 DEF Busy, Slot, pcs
  <2> QED BY <1>7, <2>1, <2>2, SlotMoves DEF Busy
<1>8. CASE SaveJob(w)
  <2>1. RepositoryTypeOK'
    BY <1>2, <1>8, UpdateType, DtoTypes DEF SaveJob, Busy, JobStatus
  <2> QED BY <1>7, <1>8, <2>1 DEF SaveJob
<1>9. CASE SaveLog(w)
  <2>1. RepositoryTypeOK'
    BY <1>2, <1>9, LogType DEF SaveLog, Busy, completeLog, LogRows
  <2> QED BY <1>7, <1>9, <2>1 DEF SaveLog
<1>10. CASE Notify(w)
  <2>1. Delivery'
    BY <1>10, SlotGoes DEF Notify, Busy, pcs
  <2> QED BY <1>10, <2>1 DEF Notify
<1>11. CASE LoadFailure(w)
  <2> DEFINE x == [worker[w] EXCEPT !.pc = "settle",
                                    !.retryCount = jobs[worker[w].job].retryCount]
  <2>1. worker' = [worker EXCEPT ![w] = x]
    BY <1>11 DEF LoadFailure
  <2>2. jobs[worker[w].job].retryCount \in Nat
    BY <1>2, <1>11 DEF LoadFailure, Busy, RepositoryTypeOK, Row
  <2>3. /\ x \in Slot /\ x.pc # "idle"
        /\ x.bull = worker[w].bull /\ x.job = worker[w].job
    BY <1>2, <1>11, <2>2 DEF LoadFailure, Busy, Slot, pcs
  <2>4. Delivery'
    BY <1>11, <2>1, <2>3, SlotMoves DEF LoadFailure, Busy
  <2>5. RepositoryTypeOK'
    BY <1>2, <1>11, LogType DEF LoadFailure, Busy, completeLog, finalStatus, LogRows
  <2> QED BY <1>11, <2>4, <2>5 DEF LoadFailure
<1>12. CASE SettleRetrying(w)
  <2>1. newRetryCount(w) \in Nat
    BY <1>2, <1>12 DEF SettleRetrying, Busy, newRetryCount, Slot
  <2>2. Delivery'
    BY <1>12, SlotGoes DEF SettleRetrying, Busy, pcs
  <2>3. RepositoryTypeOK'
    BY <1>2, <1>12, <2>1, UpdateType, DtoTypes DEF SettleRetrying, Busy
  <2> QED BY <1>12, <2>2, <2>3 DEF SettleRetrying
<1>13. CASE SettleFailed(w)
  <2>1. Delivery'
    BY <1>13, SlotGoes DEF SettleFailed, Busy, pcs
  <2>2. RepositoryTypeOK'
    BY <1>2, <1>13, UpdateType, DtoTypes DEF SettleFailed, Busy, JobStatus
  <2> QED BY <1>13, <2>1, <2>2 DEF SettleFailed
<1>14. CASE DeadLetter(w)
  <2> DEFINE x == [worker[w] EXCEPT !.pc = "ack"]
  <2>1. /\ x \in Slot /\ x.pc # "idle"
        /\ x.bull = worker[w].bull /\ x.job = worker[w].job
        /\ worker' = [worker EXCEPT ![w] = x]
    BY <1>2, <1>14 DEF DeadLetter, Busy, Slot, pcs, goto
  <2>2. Delivery'
    BY <1>2, <1>14, <2>1
       DEF DeadLetter, dlqAdd, Delivery, QueueTypeOK, WorkerTypeOK, EntriesNameJobs,
           SlotsHaveEntries, LocksAreHeld, Busy
  <2> QED BY <1>14, <2>2 DEF DeadLetter
<1>15. CASE Ack(w)
  <2> DEFINE e == [bull[worker[w].bull] EXCEPT !.state = "completed", !.lock = Null]
  <2>0. bull[worker[w].bull] \in Entry
    BY <1>2, <1>15 DEF Ack, Busy, Delivery, QueueTypeOK
  <2>1. e \in Entry /\ e.lock = Null /\ e.job = bull[worker[w].bull].job
    BY <2>0 DEF Entry
  <2>2. Delivery'
    BY <1>15, <2>1, SlotReleases DEF Ack, Busy, moveToCompleted
  <2> QED BY <1>15, <2>2 DEF Ack
<1>16. CASE Throw(w)
  <2> DEFINE st == IF bull[worker[w].bull].made + 1 < Attempts THEN "waiting" ELSE "failed"
             n == bull[worker[w].bull].made + 1
             e == [bull[worker[w].bull] EXCEPT !.state = st, !.lock = Null, !.made = n]
  <2>0. Busy(w)
    BY <1>16 DEF Throw, Busy
  <2>a. bull[worker[w].bull] \in Entry
    BY <1>2, <2>0 DEF Delivery, QueueTypeOK
  <2>b. st \in {"waiting", "failed"} /\ n \in Nat
    BY <2>a DEF Entry
  <2>1. e \in Entry /\ e.lock = Null /\ e.job = bull[worker[w].bull].job
    <3> HIDE DEF st, n
    <3> QED BY <2>a, <2>b DEF Entry
  <2>2. Delivery'
    BY <1>16, <2>0, <2>1, SlotReleases DEF Throw, moveToFailed
  <2>3. EnvironmentTypeOK'
    BY <1>16, SpendType DEF Throw, Disturbances
  <2> QED BY <1>16, <2>2, <2>3 DEF Throw
<1>17. CASE Crash(w)
  <2> DEFINE e == [bull[worker[w].bull] EXCEPT !.lock = Null]
  <2>1. e \in Entry /\ e.lock = Null /\ e.job = bull[worker[w].bull].job
    BY <1>2, <1>17 DEF Crash, Delivery, QueueTypeOK, Entry
  <2>2. Delivery'
    BY <1>17, <2>1, SlotReleases DEF Crash, releaseLock
  <2>3. EnvironmentTypeOK'
    BY <1>17, SpendType DEF Crash, Disturbances
  <2> QED BY <1>17, <2>2, <2>3 DEF Crash
<1> QED
  BY <1>1, <1>3, <1>4, <1>5, <1>6, <1>8, <1>9, <1>10, <1>11, <1>12, <1>13, <1>14,
     <1>15, <1>16, <1>17 DEF WorkerRuns, WorkerFails

(* The steps of the API.                                                   *)
LEMMA ServiceWellFormed ==
    ASSUME WellFormed, UNCHANGED <<sched, worker>>, ServiceRuns
    PROVE  WellFormed'
<1> USE Frame DEF WellFormed
<1>1. ASSUME NEW j \in Jobs, Submit(j) PROVE WellFormed'
  <2>1. PICK at \in {"due", "future"} :
          jobs' = [jobs EXCEPT ![j] = [@ EXCEPT !.status = "PENDING", !.scheduledAt = at]]
    BY <1>1 DEF Submit, create
  <2>2. [jobs[j] EXCEPT !.status = "PENDING", !.scheduledAt = at] \in Row
    BY DEF RepositoryTypeOK, Row, JobStatus
  <2>3. RepositoryTypeOK'
    BY <1>1, <2>1, <2>2 DEF Submit, RepositoryTypeOK
  <2> QED BY <1>1, <2>3 DEF Submit
<1>2. ASSUME NEW j \in Jobs, CancelCheck(j) \/ RetryCheck(j) PROVE WellFormed'
  <2>1. EnvironmentTypeOK'
    BY <1>2, SpendType DEF CancelCheck, RetryCheck, Request, Disturbances
  <2>2. ServiceTypeOK' /\ ReplaysNameJobs'
    BY <1>2 DEF CancelCheck, RetryCheck, ServiceTypeOK, ReplaysNameJobs
  <2> QED BY <1>2, <2>1, <2>2 DEF CancelCheck, RetryCheck
<1>3. ASSUME NEW j \in Jobs, CancelWrite(j) \/ RetryWrite(j) PROVE WellFormed'
  <2>1. RepositoryTypeOK'
    BY <1>3, UpdateType, DtoTypes DEF CancelWrite, RetryWrite, JobStatus
  <2>2. ServiceTypeOK' /\ ReplaysNameJobs'
    BY <1>3 DEF CancelWrite, RetryWrite, ServiceTypeOK, ReplaysNameJobs
  <2> QED BY <1>3, <2>1, <2>2 DEF CancelWrite, RetryWrite
<1>4. ASSUME NEW r \in ReplayIds, NEW j \in Jobs, ReplayGet(r, j) PROVE WellFormed'
  <2>1. EnvironmentTypeOK'
    BY <1>4, SpendType DEF ReplayGet, Request, Disturbances
  <2>2. ServiceTypeOK' /\ ReplaysNameJobs'
    BY <1>4 DEF ReplayGet, ServiceTypeOK, ReplaysNameJobs
  <2> QED BY <1>4, <2>1, <2>2 DEF ReplayGet
<1>5. ASSUME NEW r \in ReplayIds, ReplayAdd(r) PROVE WellFormed'
  <2>1. replays[r].job \in Jobs /\ r \in BullIds /\ r \notin Jobs
    BY <1>5, QueueAssumption DEF ReplayAdd, ReplaysNameJobs
  <2>2. Delivery'
    BY <1>5, <2>1, AddType DEF ReplayAdd
  <2>3. ServiceTypeOK' /\ ReplaysNameJobs'
    BY <1>5, <2>1 DEF ReplayAdd, ServiceTypeOK, ReplaysNameJobs
  <2> QED BY <1>5, <2>2, <2>3 DEF ReplayAdd
<1>6. ASSUME NEW r \in ReplayIds, ReplayRemove(r) PROVE WellFormed'
  <2>1. Delivery'
    BY <1>6, DlqChanges DEF ReplayRemove, Delivery, QueueTypeOK
  <2>2. ServiceTypeOK' /\ ReplaysNameJobs'
    BY <1>6 DEF ReplayRemove, ServiceTypeOK, ReplaysNameJobs
  <2> QED BY <1>6, <2>1, <2>2 DEF ReplayRemove
<1> QED BY <1>1, <1>2, <1>3, <1>4, <1>5, <1>6 DEF ServiceRuns

(* The steps of BullMQ itself.                                             *)
LEMMA QueueWellFormed ==
    ASSUME WellFormed, NEW id \in BullIds,
           StalledCheck(id) \/ LockLost(id) \/ Expire(id),
           UNCHANGED <<jobs, logs, sched, worker, api>>
    PROVE  WellFormed'
<1> USE Frame DEF WellFormed
<1>0. bull[id] \in Entry
  BY DEF Delivery, QueueTypeOK
<1>1. CASE StalledCheck(id)
  <2> DEFINE st == IF bull[id].stalls + 1 > MaxStalledCount THEN "failed" ELSE "waiting"
             n == bull[id].stalls + 1
             e == [bull[id] EXCEPT !.state = st, !.stalls = n]
  <2>a. st \in {"waiting", "failed"} /\ n \in Nat
    BY <1>0 DEF Entry
  <2>b. e \in Entry /\ e.lock = bull[id].lock /\ e.job = bull[id].job
    <3> HIDE DEF st, n
    <3> QED BY <1>0, <2>a DEF Entry
  <2>1. /\ e \in Entry /\ e.lock = Null
        /\ e.job \in Jobs /\ (id \in Jobs => e.job = id)
    BY <1>1, <2>b DEF StalledCheck, Delivery, EntriesNameJobs
  <2>2. Delivery'
    BY <1>1, <2>1, EntryChanges DEF StalledCheck
  <2> QED BY <1>1, <2>2 DEF StalledCheck
<1>2. CASE LockLost(id)
  <2> DEFINE e == [bull[id] EXCEPT !.lock = Null]
  <2>1. /\ e \in Entry /\ e.lock = Null
        /\ e.job \in Jobs /\ (id \in Jobs => e.job = id)
    BY <1>0, <1>2 DEF LockLost, Entry, Delivery, EntriesNameJobs, LocksAreHeld
  <2>2. Delivery'
    BY <1>2, <2>1, EntryChanges DEF LockLost
  <2>3. EnvironmentTypeOK'
    BY <1>2, SpendType DEF LockLost, Disturbances
  <2> QED BY <1>2, <2>2, <2>3 DEF LockLost
<1>3. CASE Expire(id)
  <2>1. NoEntry \in Entry /\ NoEntry.lock = Null /\ NoEntry.state = "none"
    BY DEF NoEntry, Entry
  <2>2. Delivery'
    BY <1>3, <2>1, EntryChanges DEF Expire
  <2>3. EnvironmentTypeOK'
    BY <1>3, SpendType DEF Expire, Disturbances
  <2> QED BY <1>3, <2>2, <2>3 DEF Expire
<1> QED BY <1>1, <1>2, <1>3

(* Time.                                                                   *)
LEMMA TimeWellFormed ==
    ASSUME WellFormed, NEW j \in Jobs, StartedAtAges(j) \/ ScheduledTimeArrives(j),
           UNCHANGED <<bull, dlq, budget, sched, worker, api>>
    PROVE  WellFormed'
<1>1. RepositoryTypeOK
  BY DEF WellFormed
<1>2. jobs[j] \in Row
  BY <1>1 DEF RepositoryTypeOK
<1>3. PICK x \in Row : jobs' = [jobs EXCEPT ![j] = x]
  <2>1. /\ [jobs[j] EXCEPT !.startedAt = "stale"] \in Row
        /\ [jobs[j] EXCEPT !.scheduledAt = "due"] \in Row
    BY <1>2 DEF Row, StartedAt
  <2> QED BY <2>1 DEF StartedAtAges, ScheduledTimeArrives
<1>4. RepositoryTypeOK'
  BY <1>1, <1>3 DEF RepositoryTypeOK, StartedAtAges, ScheduledTimeArrives
<1> QED BY <1>4, Frame DEF WellFormed

(* Every step is one of these.                                             *)
LEMMA StepWellFormed == WellFormed /\ [Next]_vars => WellFormed'
<1> SUFFICES ASSUME WellFormed, [Next]_vars PROVE WellFormed'
  OBVIOUS
<1>1. CASE UNCHANGED vars
  BY <1>1, Frame DEF vars, api, WellFormed
<1>2. CASE Next
  BY <1>2, SchedulerWellFormed, WorkerWellFormed, ServiceWellFormed, QueueWellFormed,
     TimeWellFormed
     DEF Next, ScheduleStep, RecoverStep, WorkerStep, JobAges, JobFallsDue, StallStep,
         Disturbance
<1> QED BY <1>1, <1>2

(* Slots, entries, locks and replays stay consistent in every behaviour.   *)
THEOREM WellFormedInvariant == Spec => []WellFormed
BY InitWellFormed, StepWellFormed, PTL DEF Spec

(* The state has its type in every behaviour.                              *)
THEOREM TypeCorrect == Spec => []TypeOK
<1>1. WellFormed => TypeOK
  BY DEF WellFormed, Delivery, TypeOK
<1> QED BY <1>1, WellFormedInvariant, PTL

(* Whatever the schedulers race for and however often jobs are recovered,  *)
(* retried, cancelled and replayed: two slots work on one job only when    *)
(* one lost its lock or processes a replayed dead letter.                  *)
THEOREM DeliveryIsSingle == Spec => []SingleDelivery
<1>1. WellFormed => SingleDelivery
  BY QueueAssumption
     DEF WellFormed, Delivery, EntriesNameJobs, SlotsHaveEntries, LocksAreHeld,
         SingleDelivery, Processing, Busy
<1> QED BY <1>1, WellFormedInvariant, PTL

--------------------------------------------------------------------------------
(* Retries.  First, what a step may do to the rows.                        *)

QuietRows ==
    \A j \in Jobs : /\ jobs'[j].retryCount = jobs[j].retryCount
                    /\ jobs'[j].status = "FAILED" => jobs[j].status = "FAILED"

(* An update that neither counts nor fails.                                *)
LEMMA QuietUpdate ==
    ASSUME RepositoryTypeOK, NEW j \in Jobs, NEW dto \in DtoType, update(j, dto),
           dto.retryCount = Undefined, dto.status \notin {"FAILED", Undefined}
    PROVE  QuietRows
BY UpdateRow DEF QuietRows

(* The updates of the code that neither count nor fail.                    *)
LEMMA QuietDtos ==
    /\ \A st \in JobStatus : /\ [Dto EXCEPT !.status = st].retryCount = Undefined
                             /\ [Dto EXCEPT !.status = st].status = st
    /\ \A st \in JobStatus :
         /\ [Dto EXCEPT !.status = st, !.completedAt = "set"].retryCount = Undefined
         /\ [Dto EXCEPT !.status = st, !.completedAt = "set"].status = st
    /\ [Dto EXCEPT !.status = "RUNNING", !.startedAt = "recent"].retryCount = Undefined
    /\ [Dto EXCEPT !.status = "RUNNING", !.startedAt = "recent"].status = "RUNNING"
    /\ RetryDto.retryCount = Undefined /\ RetryDto.status = "PENDING"
    /\ \A st \in JobStatus : st # Undefined
BY JobsAssumption DEF Dto, RetryDto, JobStatus

(* Only a slot that settles a failure, or a recovery, counts a retry or    *)
(* fails a job.                                                            *)
LEMMA RowSteps ==
    ASSUME WellFormed, Next
    PROVE  \/ QuietRows
           \/ \E w \in Workers : SettleRetrying(w) \/ SettleFailed(w)
           \/ \E s \in Schedulers : \E r \in sched[s].stalled : Recover(s, r)
<1> USE DEF WellFormed
<1>0. ASSUME UNCHANGED jobs PROVE QuietRows
  BY <1>0 DEF QuietRows
<1>1. ASSUME NEW s \in Schedulers, ClaimBatch(s) PROVE QuietRows
  BY <1>1 DEF ClaimBatch, claimPendingJobs, QuietRows, RepositoryTypeOK, Row
<1>2. ASSUME NEW s \in Schedulers, NEW j \in Jobs, EnqueueFails(s, j) PROVE QuietRows
  BY <1>2, QuietUpdate, DtoTypes, QuietDtos DEF EnqueueFails, JobStatus
<1>3. ASSUME NEW w \in Workers, MarkRunning(w) \/ SaveJob(w) PROVE QuietRows
  <2>1. worker[w].job \in Jobs
    BY <1>3 DEF MarkRunning, SaveJob, Delivery, SlotsHaveEntries, Busy
  <2>2. CASE MarkRunning(w)
    BY <2>1, <2>2, QuietUpdate, DtoTypes, QuietDtos DEF MarkRunning, JobStatus
  <2>3. CASE SaveJob(w)
    BY <2>1, <2>3, QuietUpdate, DtoTypes, QuietDtos DEF SaveJob, JobStatus
  <2> QED BY <1>3, <2>2, <2>3
<1>4. ASSUME NEW j \in Jobs, CancelWrite(j) \/ RetryWrite(j) PROVE QuietRows
  BY <1>4, QuietUpdate, DtoTypes, QuietDtos DEF CancelWrite, RetryWrite, JobStatus
<1>5. ASSUME NEW j \in Jobs, Submit(j) \/ StartedAtAges(j) \/ ScheduledTimeArrives(j)
      PROVE  QuietRows
  <2>1. jobs[j] \in Row
    BY DEF RepositoryTypeOK
  <2>2. CASE Submit(j)
    BY <2>1, <2>2 DEF Submit, create, Row, QuietRows, RepositoryTypeOK
  <2>3. CASE StartedAtAges(j)
    BY <2>1, <2>3 DEF StartedAtAges, Row, QuietRows, RepositoryTypeOK
  <2>4. CASE ScheduledTimeArrives(j)
    BY <2>1, <2>4 DEF ScheduledTimeArrives, Row, QuietRows, RepositoryTypeOK
  <2> QED BY <1>5, <2>2, <2>3, <2>4
<1>6. CASE \E s \in Schedulers : ScheduleStep(s) \/ RecoverStep(s) \/ SchedulerFails(s)
  BY <1>0, <1>1, <1>2, <1>6
     DEF ScheduleStep, RecoverStep, scheduleReadyJobs, recoverStalledJobs, SchedulerFails,
         Enqueue, EnqueueAndRevertFail, FindStalled, RecoverFails, SchedulerCrash
<1>7. CASE \E w \in Workers : WorkerStep(w) \/ WorkerFails(w)
  BY <1>0, <1>3, <1>7
     DEF WorkerStep, WorkerRuns, WorkerFails, Take, SkipCancelled, StartProcessing,
         Execute, SaveLog, Notify, LoadFailure, DeadLetter, Ack, Throw, Crash
<1>8. CASE ServiceRuns
  BY <1>0, <1>4, <1>5, <1>8
     DEF ServiceRuns, CancelCheck, RetryCheck, ReplayGet, ReplayAdd, ReplayRemove
<1> QED
  BY <1>0, <1>5, <1>6, <1>7, <1>8
     DEF Next, JobAges, JobFallsDue, StallStep, StalledCheck, Disturbance

(* A slot comes to settle a failure with the count it has just read.       *)
LEMMA SettleSteps ==
    ASSUME WellFormed, Next, NEW w \in Workers, worker'[w].pc = "settle"
    PROVE  \/ worker[w].pc = "settle" /\ worker'[w] = worker[w]
           \/ LoadFailure(w)
<1> USE DEF WellFormed, Delivery
<1>1. CASE \E v \in Workers : WorkerRuns(v) \/ WorkerFails(v)
  <2> PICK v \in Workers : WorkerRuns(v) \/ WorkerFails(v)
    BY <1>1
  <2>1. v # w => worker'[w] = worker[w]
    BY DEF WorkerRuns, WorkerFails, Take, SkipCancelled, StartProcessing, MarkRunning,
           Execute, SaveJob, SaveLog, saved, Notify, LoadFailure, SettleRetrying,
           SettleFailed, DeadLetter, Ack, Throw, Crash, goto, WorkerTypeOK
  <2>2. ASSUME v = w PROVE LoadFailure(w)
    <3>0. worker[w] \in Slot
      BY DEF WorkerTypeOK
    <3>1. ~ \E pc \in {"run", "exec", "dlq", "ack"} : goto(w, pc)
      BY <3>0 DEF goto, WorkerTypeOK, Slot
    <3>2. ASSUME Execute(w) PROVE FALSE
      <4>1. PICK o \in execute(JobType[worker[w].job]) :
              worker' = [worker EXCEPT
                           ![w] = IF o = "OK"
                                  THEN [@ EXCEPT !.pc = "save", !.todo = {"job", "log"}]
                                  ELSE [@ EXCEPT !.pc = "failure", !.errorCode = o]]
        BY <3>2 DEF Execute
      <4>2. CASE o = "OK"
        BY <3>0, <4>1, <4>2 DEF WorkerTypeOK, Slot
      <4>3. CASE o # "OK"
        BY <3>0, <4>1, <4>3 DEF WorkerTypeOK, Slot
      <4> QED BY <4>2, <4>3
    <3>3. ASSUME NEW write, saved(w, write) PROVE FALSE
      <4> DEFINE pc == IF worker[w].todo = {write} THEN "notify" ELSE "save"
                 todo == worker[w].todo \ {write}
      <4>1. pc # "settle" /\ worker' = [worker EXCEPT ![w] = [@ EXCEPT !.todo = todo, !.pc = pc]]
        BY <3>3 DEF saved
      <4> HIDE DEF pc, todo
      <4> QED BY <3>0, <4>1 DEF WorkerTypeOK, Slot
    <3>4. worker' # [worker EXCEPT ![w] = Idle]
      BY DEF Idle, WorkerTypeOK
    <3>5. ~ \E id \in BullIds : Take(w, id)
      BY DEF Take, Idle, WorkerTypeOK
    <3> QED
      BY <2>2, <3>1, <3>2, <3>3, <3>4, <3>5
         DEF WorkerRuns, WorkerFails, SkipCancelled, StartProcessing, MarkRunning,
             Notify, SettleRetrying, SettleFailed, DeadLetter, SaveJob, SaveLog, Ack,
             Throw, Crash
  <2> QED BY <2>1, <2>2
<1>2. CASE UNCHANGED worker
  BY <1>2
<1> QED
  BY <1>1, <1>2
     DEF Next, ScheduleStep, RecoverStep, WorkerStep, JobAges, JobFallsDue, StallStep,
         Disturbance

(* A recovery, and a failure for good, leave the count alone.              *)
LEMMA CountSteps ==
    ASSUME WellFormed, Next, NEW j \in Jobs
    PROVE  \/ jobs'[j].retryCount = jobs[j].retryCount
           \/ \E w \in Workers :
                /\ SettleRetrying(w) /\ worker[w].job = j
                /\ jobs'[j].retryCount = worker[w].retryCount + 1
                /\ jobs'[j].status = "RETRYING"
<1> USE DEF WellFormed
<1>1. CASE QuietRows
  BY <1>1 DEF QuietRows
<1>2. ASSUME NEW w \in Workers, SettleRetrying(w) \/ SettleFailed(w)
      PROVE  worker[w].job \in Jobs /\ worker[w].retryCount \in Nat
  BY <1>2 DEF SettleRetrying, SettleFailed, Delivery, SlotsHaveEntries, Busy, WorkerTypeOK, Slot
<1>3. ASSUME NEW w \in Workers, SettleRetrying(w)
      PROVE  IF worker[w].job = j THEN /\ jobs'[j].retryCount = worker[w].retryCount + 1
                                       /\ jobs'[j].status = "RETRYING"
                                  ELSE jobs'[j].retryCount = jobs[j].retryCount
  <2> DEFINE dto == [Dto EXCEPT !.status = "RETRYING", !.retryCount = newRetryCount(w),
                                !.startedAt = Undefined]
  <2>1. newRetryCount(w) \in Nat
    BY <1>2, <1>3 DEF newRetryCount
  <2>2. /\ dto \in DtoType /\ dto.retryCount = newRetryCount(w) /\ dto.status = "RETRYING"
        /\ newRetryCount(w) # Undefined /\ "RETRYING" # Undefined
    BY <2>1, DtoTypes, JobsAssumption DEF Dto, JobStatus
  <2>3. update(worker[w].job, dto)
    BY <1>3 DEF SettleRetrying
  <2> HIDE DEF dto
  <2> QED BY <1>2, <1>3, <2>2, <2>3, UpdateRow DEF newRetryCount
<1>4. ASSUME NEW w \in Workers, SettleFailed(w)
      PROVE  jobs'[j].retryCount = jobs[j].retryCount
  <2> DEFINE dto == [Dto EXCEPT !.status = "FAILED", !.completedAt = "set"]
  <2>1. dto \in DtoType /\ dto.retryCount = Undefined
    BY DtoTypes, QuietDtos DEF JobStatus
  <2> QED BY <1>2, <1>4, <2>1, UpdateRow DEF SettleFailed
<1>5. ASSUME NEW s \in Schedulers, NEW r \in sched[s].stalled, Recover(s, r)
      PROVE  jobs'[j].retryCount = jobs[j].retryCount
  <2>1. r \in Snapshot /\ r.job \in Jobs
    BY DEF SchedulerTypeOK, Snapshot
  <2>2. RecoveryDto(r).retryCount = Undefined
    BY DEF RecoveryDto, Dto
  <2> QED BY <1>5, <2>1, <2>2, DtoTypes, UpdateRow DEF Recover
<1> QED BY <1>1, <1>3, <1>4, <1>5, RowSteps

--------------------------------------------------------------------------------
(* A retry is counted only after its failure is logged.                    *)

Failures(l, j) == l[j]["FAILED"] + l[j]["TIMED_OUT"]

LogInv ==
    /\ \A j \in Jobs : jobs[j].retryCount <= Failures(logs, j)
    /\ \A w \in Workers : worker[w].pc = "settle" =>
                             worker[w].retryCount + 1 <= Failures(logs, worker[w].job)

(* Rows are only ever added to a log, and a slot that comes to settle adds *)
(* one.                                                                    *)
LEMMA LogSteps ==
    ASSUME WellFormed, Next
    PROVE  /\ \A j \in Jobs : Failures(logs', j) >= Failures(logs, j)
           /\ \A w \in Workers :
                LoadFailure(w) => Failures(logs', worker[w].job) = Failures(logs, worker[w].job) + 1
<1> USE DEF WellFormed
<1>1. logs \in [Jobs -> [LogRows -> Nat]]
  BY DEF RepositoryTypeOK
<1>2. ASSUME NEW w \in Workers, Busy(w) PROVE worker[w].job \in Jobs
  BY <1>2 DEF Delivery, SlotsHaveEntries
<1>3. CASE UNCHANGED logs
  <2>1. \A w \in Workers : ~ LoadFailure(w)
    BY <1>1, <1>2, <1>3 DEF LoadFailure, completeLog, finalStatus, Busy, LogRows
  <2> QED BY <1>1, <1>3, <2>1 DEF Failures, LogRows
<1>4. ASSUME NEW k \in Jobs, NEW st \in {"CREATED", "COMPLETED"},
             logs' = [logs EXCEPT ![k][st] = @ + 1]
      PROVE  /\ \A j \in Jobs : Failures(logs', j) = Failures(logs, j)
             /\ \A w \in Workers : ~ LoadFailure(w)
  <2>1. \A j \in Jobs : Failures(logs', j) = Failures(logs, j)
    BY <1>1, <1>4 DEF Failures, LogRows
  <2>2. ASSUME NEW w \in Workers, LoadFailure(w) PROVE FALSE
    BY <1>1, <1>2, <1>4, <2>2 DEF LoadFailure, completeLog, finalStatus, Busy, LogRows
  <2> QED BY <2>1, <2>2
<1>5. ASSUME NEW v \in Workers, LoadFailure(v)
      PROVE  \A j \in Jobs : Failures(logs', j) = IF j = worker[v].job THEN Failures(logs, j) + 1
                                                             ELSE Failures(logs, j)
  BY <1>1, <1>2, <1>5 DEF LoadFailure, completeLog, finalStatus, Busy, LogRows, Failures
<1>6. \A j \in Jobs : Failures(logs, j) \in Nat
  BY <1>1 DEF Failures, LogRows
<1>7. ASSUME NEW v \in Workers, LoadFailure(v)
      PROVE  /\ \A j \in Jobs : Failures(logs', j) >= Failures(logs, j)
             /\ \A w \in Workers : LoadFailure(w) =>
                    Failures(logs', worker[w].job) = Failures(logs, worker[w].job) + 1
  <2>1. \A j \in Jobs : Failures(logs', j) >= Failures(logs, j)
    BY <1>5, <1>6, <1>7
  <2>2. ASSUME NEW w \in Workers, LoadFailure(w)
        PROVE  Failures(logs', worker[w].job) = Failures(logs, worker[w].job) + 1
    <3>1. worker[w].job \in Jobs
      BY <1>2, <2>2 DEF LoadFailure, Busy
    <3> QED BY <1>5, <2>2, <3>1
  <2> QED BY <2>1, <2>2
<1>8. CASE \E w \in Workers : WorkerRuns(w) \/ WorkerFails(w)
  <2> PICK w \in Workers : WorkerRuns(w) \/ WorkerFails(w)
    BY <1>8
  <2>1. CASE StartProcessing(w) \/ SaveLog(w)
    BY <1>2, <1>4, <1>6, <2>1 DEF StartProcessing, SaveLog, createLog, completeLog, Busy
  <2>2. CASE LoadFailure(w)
    BY <1>7, <2>2
  <2> QED
    BY <1>3, <2>1, <2>2
       DEF WorkerRuns, WorkerFails, Take, SkipCancelled, MarkRunning, Execute, SaveJob,
           Notify, SettleRetrying, SettleFailed, DeadLetter, Ack, Throw, Crash
<1>9. CASE ~ \E w \in Workers : WorkerRuns(w) \/ WorkerFails(w)
  <2>1. UNCHANGED logs
    BY <1>9
       DEF Next, ScheduleStep, RecoverStep, scheduleReadyJobs, recoverStalledJobs,
           SchedulerFails, ClaimBatch, Enqueue, EnqueueFails, EnqueueAndRevertFail,
           FindStalled, Recover, RecoverFails, SchedulerCrash, WorkerStep,
           ServiceRuns, Submit, CancelCheck, CancelWrite, RetryCheck, RetryWrite,
           ReplayGet, ReplayAdd, ReplayRemove, JobAges, JobFallsDue, StartedAtAges,
           ScheduledTimeArrives, StallStep, Disturbance
  <2> QED BY <1>3, <2>1
<1> QED BY <1>8, <1>9

(* The execution logs stay ahead of the counts, whatever slots race.       *)
LEMMA LogInvStep == WellFormed /\ WellFormed' /\ LogInv /\ [Next]_vars => LogInv'
<1> SUFFICES ASSUME WellFormed, WellFormed', LogInv, Next PROVE LogInv'
  BY DEF vars, LogInv, Failures
<1>1. /\ \A j \in Jobs : /\ Failures(logs, j) \in Nat /\ Failures(logs', j) \in Nat
                          /\ jobs[j].retryCount \in Nat /\ jobs'[j].retryCount \in Nat
      /\ \A w \in Workers : worker[w].retryCount \in Nat
      /\ \A w \in Workers : worker[w].pc = "settle" => worker[w].job \in Jobs
  BY DEF WellFormed, Delivery, RepositoryTypeOK, WorkerTypeOK, SlotsHaveEntries, Failures,
         LogRows, Row, Slot, Busy
<1>2. ASSUME NEW j \in Jobs PROVE jobs'[j].retryCount <= Failures(logs', j)
  <2>1. CASE jobs'[j].retryCount = jobs[j].retryCount
    BY <1>1, <2>1, LogSteps DEF LogInv
  <2>2. ASSUME NEW w \in Workers, SettleRetrying(w), worker[w].job = j,
               jobs'[j].retryCount = worker[w].retryCount + 1
        PROVE  jobs'[j].retryCount <= Failures(logs', j)
    BY <1>1, <2>2, LogSteps DEF LogInv, SettleRetrying
  <2> QED BY <2>1, <2>2, CountSteps
<1>3. ASSUME NEW w \in Workers, worker'[w].pc = "settle"
      PROVE  worker'[w].retryCount + 1 <= Failures(logs', worker[w].job) /\ worker'[w].job = worker[w].job
  <2>1. CASE worker[w].pc = "settle" /\ worker'[w] = worker[w]
    BY <1>1, <2>1, LogSteps DEF LogInv
  <2>2. CASE LoadFailure(w)
    <3>1. worker[w].job \in Jobs /\ worker[w] \in Slot
      BY <2>2 DEF LoadFailure, WellFormed, Delivery, SlotsHaveEntries, Busy, WorkerTypeOK
    <3>2. worker'[w].retryCount = jobs[worker[w].job].retryCount /\ worker'[w].job = worker[w].job
      BY <2>2, <3>1 DEF LoadFailure, WellFormed, Delivery, WorkerTypeOK, Slot
    <3> QED BY <1>1, <2>2, <3>1, <3>2, LogSteps DEF LogInv
  <2> QED BY <1>3, <2>1, <2>2, SettleSteps
<1>4. ASSUME NEW w \in Workers, worker'[w].pc = "settle"
      PROVE  worker'[w].retryCount + 1 <= Failures(logs', worker'[w].job)
  BY <1>3, <1>4 DEF Failures
<1> QED BY <1>2, <1>4 DEF LogInv, Failures

(* retry_count never runs ahead of the execution logs, even when slots     *)
(* lose their locks and race.                                              *)
THEOREM RetriesLogged == Spec => []RetriesAreLogged
<1>1. Init => LogInv
  BY DEF Init, RepositoryInit, WorkerInit, Idle, LogInv, Failures, LogRows
<1>2. LogInv => RetriesAreLogged
  BY DEF LogInv, RetriesAreLogged, Failures
<1> QED BY <1>1, <1>2, LogInvStep, WellFormedInvariant, PTL DEF Spec

--------------------------------------------------------------------------------
(* A job is failed only when its retries are used up, as long as no slot   *)
(* loses its lock while it works.                                          *)

(* Every slot holds the lock of its entry.                                 *)
SlotsAreLocked ==
    \A w \in Workers : Busy(w) => bull[worker[w].bull].lock = w

(* What is left of a job that was dead-lettered.                           *)
DeadLettered(j) ==
    \/ j \in dlq
    \/ \E w \in Workers : worker[w].pc = "dlq" /\ worker[w].job = j
    \/ \E r \in ReplayIds : \/ replays[r].pc # "unused" /\ replays[r].job = j
                            \/ bull[r].state # "none" /\ bull[r].job = j

CountsAreBounded == \A j \in Jobs : jobs[j].retryCount <= MaxRetries[j]

DeadAreExhausted ==
    \A j \in Jobs : DeadLettered(j) \/ jobs[j].status = "FAILED"
                       => jobs[j].retryCount = MaxRetries[j]

(* The count a slot settles with is still the row's.                       *)
ReadsAreCurrent ==
    \A w \in Workers : worker[w].pc = "settle" =>
                           worker[w].retryCount = jobs[worker[w].job].retryCount

(* The counts in a scheduler's snapshots may be old, never ahead.          *)
SnapshotsLag ==
    \A s \in Schedulers : \A r \in sched[s].stalled :
        r.retryCount <= jobs[r.job].retryCount

RetryInv == /\ budget["lockLoss"] = 0
            /\ SlotsAreLocked
            /\ CountsAreBounded
            /\ DeadAreExhausted
            /\ ReadsAreCurrent
            /\ SnapshotsLag

(* Without a lost lock, a slot loses its entry only when it goes idle.     *)
LEMMA LockSteps ==
    ASSUME WellFormed, SlotsAreLocked, budget["lockLoss"] = 0, Next
    PROVE  SlotsAreLocked' /\ budget'["lockLoss"] = 0
<1> USE DEF WellFormed
<1>1. budget'["lockLoss"] = 0
  <2>1. ASSUME NEW k \in Disturbances, Spend(k) PROVE budget'["lockLoss"] = 0
    BY <2>1 DEF Spend, EnvironmentTypeOK, Disturbances
  <2>2. UNCHANGED budget \/ \E k \in Disturbances : Spend(k)
    BY DEF Next, ScheduleStep, RecoverStep, scheduleReadyJobs, recoverStalledJobs,
           SchedulerFails, ClaimBatch, Enqueue, EnqueueFails, EnqueueAndRevertFail,
           FindStalled, Recover, RecoverFails, SchedulerCrash, WorkerStep, WorkerRuns,
           WorkerFails, Take, SkipCancelled, StartProcessing, MarkRunning, Execute,
           SaveJob, SaveLog, Notify, LoadFailure, SettleRetrying, SettleFailed,
           DeadLetter, Ack, Throw, Crash, ServiceRuns, Submit, CancelCheck, CancelWrite,
           RetryCheck, RetryWrite, ReplayGet, ReplayAdd, ReplayRemove, Request, JobAges,
           JobFallsDue, StallStep, StalledCheck, Disturbance, LockLost, Expire,
           Disturbances
  <2> QED BY <2>1, <2>2
<1>2. ASSUME NEW v \in Workers, Busy(v)
      PROVE  /\ worker[v].bull \in BullIds /\ bull[worker[v].bull].lock = v
             /\ bull[worker[v].bull].state = "active" /\ v # Null
  BY <1>2, QueueAssumption DEF SlotsAreLocked, Delivery, SlotsHaveEntries, LocksAreHeld
<1>3. ASSUME \A id \in BullIds : bull[id].state = "active" /\ bull[id].lock # Null
                                  => bull'[id] = bull[id],
             \A v \in Workers : worker'[v].pc # "idle" => Busy(v) /\ worker'[v].bull = worker[v].bull
      PROVE  SlotsAreLocked'
  BY <1>2, <1>3 DEF SlotsAreLocked, Busy
<1>4. ASSUME NEW id \in BullIds, NEW j, add(id, j), UNCHANGED worker
      PROVE  SlotsAreLocked'
  BY <1>3, <1>4 DEF add, Delivery, QueueTypeOK, Busy
<1>5. ASSUME NEW w \in Workers, WorkerRuns(w) \/ WorkerFails(w) PROVE SlotsAreLocked'
  <2>0. worker \in [Workers -> Slot] /\ bull \in [BullIds -> Entry]
    BY DEF Delivery, WorkerTypeOK, QueueTypeOK
  <2>1. ASSUME NEW id \in BullIds, Take(w, id) PROVE SlotsAreLocked'
    <3>1. /\ worker'[w].bull = id /\ bull'[id].lock = w
          /\ \A v \in Workers \ {w} : worker'[v] = worker[v]
          /\ \A i \in BullIds \ {id} : bull'[i] = bull[i]
      BY <2>0, <2>1 DEF Take, moveToActive, Idle, Entry
    <3>2. ASSUME NEW v \in Workers, Busy(v) PROVE worker[v].bull # id
      BY <1>2, <2>1, <3>2 DEF Take, moveToActive
    <3> QED BY <1>2, <3>1, <3>2 DEF SlotsAreLocked, Busy
  <2>2. ASSUME Busy(w), worker' = [worker EXCEPT ![w] = Idle],
               \A i \in BullIds : bull[i].lock # w => bull'[i] = bull[i]
        PROVE  SlotsAreLocked'
    BY <1>2, <2>0, <2>2 DEF SlotsAreLocked, Busy, Idle
  <2>3. ASSUME Ack(w) \/ Throw(w) \/ Crash(w) PROVE SlotsAreLocked'
    BY <2>0, <2>2, <2>3 DEF Ack, Throw, Crash, moveToCompleted, moveToFailed, releaseLock, Busy
  <2>4. ASSUME NEW pc \in pcs, goto(w, pc), Busy(w), UNCHANGED bull PROVE SlotsAreLocked'
    BY <1>3, <2>0, <2>4 DEF goto, Busy, Slot
  <2>5. ASSUME NEW x, worker' = [worker EXCEPT ![w] = x], x.bull = worker[w].bull,
               Busy(w), UNCHANGED bull
        PROVE  SlotsAreLocked'
    BY <1>3, <2>0, <2>5 DEF Busy
  <2>6. CASE Execute(w)
    <3>1. PICK o \in execute(JobType[worker[w].job]) :
            worker' = [worker EXCEPT
                         ![w] = IF o = "OK"
                                THEN [@ EXCEPT !.pc = "save", !.todo = {"job", "log"}]
                                ELSE [@ EXCEPT !.pc = "failure", !.errorCode = o]]
      BY <2>6 DEF Execute
    <3>2. CASE o = "OK"
      <4> DEFINE x == [worker[w] EXCEPT !.pc = "save", !.todo = {"job", "log"}]
      <4>1. worker' = [worker EXCEPT ![w] = x] /\ x.bull = worker[w].bull
        BY <2>0, <3>1, <3>2 DEF Slot
      <4> HIDE DEF x
      <4> QED BY <2>5, <2>6, <4>1 DEF Execute, Busy
    <3>3. CASE o # "OK"
      <4> DEFINE x == [worker[w] EXCEPT !.pc = "failure", !.errorCode = o]
      <4>1. worker' = [worker EXCEPT ![w] = x] /\ x.bull = worker[w].bull
        BY <2>0, <3>1, <3>3 DEF Slot
      <4> HIDE DEF x
      <4> QED BY <2>5, <2>6, <4>1 DEF Execute, Busy
    <3> QED BY <3>2, <3>3
  <2>7. ASSUME NEW write, saved(w, write), worker[w].pc = "save", UNCHANGED bull
        PROVE  SlotsAreLocked'
    <3> DEFINE pc == IF worker[w].todo = {write} THEN "notify" ELSE "save"
               todo == worker[w].todo \ {write}
    <3>1. worker' = [worker EXCEPT ![w] = [worker[w] EXCEPT !.todo = todo, !.pc = pc]]
      BY <2>7 DEF saved
    <3> HIDE DEF pc, todo
    <3> QED BY <2>0, <2>5, <2>7, <3>1 DEF Busy, Slot
  <2>8. CASE LoadFailure(w)
    BY <2>0, <2>5, <2>8 DEF LoadFailure, Busy, Slot
  <2> QED
    BY <1>5, <2>1, <2>3, <2>4, <2>6, <2>7, <2>8
       DEF WorkerRuns, WorkerFails, SkipCancelled, StartProcessing, MarkRunning, SaveJob,
           SaveLog, Notify, SettleRetrying, SettleFailed, DeadLetter, Busy, pcs
<1>6. ASSUME NEW id \in BullIds, StalledCheck(id) \/ LockLost(id) \/ Expire(id),
             UNCHANGED worker
      PROVE  SlotsAreLocked'
  <2>1. ~ LockLost(id)
    BY DEF LockLost, Spend
  <2> QED
    BY <1>3, <1>6, <2>1 DEF StalledCheck, Expire, Delivery, QueueTypeOK, Busy
<1>7. ASSUME UNCHANGED <<bull, worker>> PROVE SlotsAreLocked'
  BY <1>3, <1>7 DEF Busy
<1>8. ASSUME ServiceRuns, UNCHANGED worker PROVE SlotsAreLocked'
  BY <1>4, <1>7, <1>8
     DEF ServiceRuns, Submit, CancelCheck, CancelWrite, RetryCheck, RetryWrite, ReplayGet,
         ReplayAdd, ReplayRemove
<1>9. ASSUME NEW s \in Schedulers, UNCHANGED worker,
             scheduleReadyJobs(s) \/ recoverStalledJobs(s) \/ SchedulerFails(s)
      PROVE  SlotsAreLocked'
  BY <1>4, <1>7, <1>9
     DEF scheduleReadyJobs, recoverStalledJobs, SchedulerFails, ClaimBatch, Enqueue,
         EnqueueFails, EnqueueAndRevertFail, FindStalled, Recover, RecoverFails, SchedulerCrash
<1>10. SlotsAreLocked'
  BY <1>5, <1>6, <1>7, <1>8, <1>9
     DEF Next, ScheduleStep, RecoverStep, WorkerStep, JobAges, JobFallsDue, StallStep,
         Disturbance
<1> QED BY <1>1, <1>10

(* An entry of a replay is there because it was there, or because a replay *)
(* has just added it.                                                      *)
LEMMA ReplayEntrySteps ==
    ASSUME WellFormed, Next, NEW r \in ReplayIds, bull'[r].state # "none"
    PROVE  \/ bull[r].state # "none" /\ bull'[r].job = bull[r].job
           \/ replays[r].pc # "unused" /\ bull'[r].job = replays[r].job
<1> USE DEF WellFormed
<1>0. bull \in [BullIds -> Entry] /\ r \in BullIds /\ r \notin Jobs
  BY QueueAssumption DEF Delivery, QueueTypeOK
<1>1. CASE UNCHANGED bull
  BY <1>1
<1>2. ASSUME NEW s \in Schedulers, NEW j \in Jobs, Enqueue(s, j) PROVE UNCHANGED bull[r]
  BY <1>0, <1>2 DEF Enqueue, add
<1>3. ASSUME NEW w \in Workers, WorkerRuns(w) \/ WorkerFails(w)
      PROVE  bull[r].state # "none" /\ bull'[r].job = bull[r].job
  <2>0. Busy(w) => worker[w].bull \in BullIds
    BY DEF Delivery, SlotsHaveEntries
  <2>1. ASSUME NEW id \in BullIds, Take(w, id)
        PROVE  bull[r].state # "none" /\ bull'[r].job = bull[r].job
    BY <1>0, <2>1 DEF Take, moveToActive, Entry
  <2>2. ASSUME Ack(w) \/ Throw(w) \/ Crash(w)
        PROVE  bull[r].state # "none" /\ bull'[r].job = bull[r].job
    <3>1. bull[r].lock = w => bull[r].state = "active"
      BY QueueAssumption DEF Delivery, LocksAreHeld
    <3>2. CASE bull[r].lock = w
      <4>1. CASE Ack(w)
        BY <1>0, <3>1, <3>2, <4>1 DEF Ack, moveToCompleted, Entry
      <4>2. CASE Throw(w)
        BY <1>0, <3>1, <3>2, <4>2 DEF Throw, moveToFailed, Entry
      <4>3. CASE Crash(w)
        BY <1>0, <3>1, <3>2, <4>3 DEF Crash, releaseLock, Entry
      <4> QED BY <2>2, <4>1, <4>2, <4>3
    <3>3. CASE bull[r].lock # w
      BY <1>0, <2>0, <2>2, <3>3
         DEF Ack, Throw, Crash, moveToCompleted, moveToFailed, releaseLock, Busy
    <3> QED BY <3>2, <3>3
  <2> QED
    BY <1>3, <2>1, <2>2
       DEF WorkerRuns, WorkerFails, SkipCancelled, StartProcessing, MarkRunning, Execute,
           SaveJob, SaveLog, Notify, LoadFailure, SettleRetrying, SettleFailed, DeadLetter
<1>4. ASSUME NEW t \in ReplayIds, ReplayAdd(t)
      PROVE  \/ UNCHANGED bull[r]
             \/ replays[r].pc # "unused" /\ bull'[r].job = replays[r].job
  BY <1>0, <1>4 DEF ReplayAdd, add, NoEntry
<1>5. ASSUME NEW id \in BullIds, StalledCheck(id) \/ LockLost(id) \/ Expire(id)
      PROVE  bull[r].state # "none" /\ bull'[r].job = bull[r].job
  <2>1. CASE StalledCheck(id)
    BY <1>0, <2>1 DEF StalledCheck, Entry
  <2>2. CASE LockLost(id)
    BY <1>0, <2>2 DEF LockLost, Entry
  <2>3. CASE Expire(id)
    BY <1>0, <2>3 DEF Expire, NoEntry
  <2> QED BY <1>5, <2>1, <2>2, <2>3
<1>6. CASE \E s \in Schedulers : scheduleReadyJobs(s) \/ recoverStalledJobs(s) \/ SchedulerFails(s)
  BY <1>1, <1>2, <1>6
     DEF scheduleReadyJobs, recoverStalledJobs, SchedulerFails, ClaimBatch,
         EnqueueFails, EnqueueAndRevertFail, FindStalled, Recover, RecoverFails, SchedulerCrash
<1>7. CASE ServiceRuns
  BY <1>1, <1>4, <1>7
     DEF ServiceRuns, Submit, CancelCheck, CancelWrite, RetryCheck, RetryWrite, ReplayGet,
         ReplayRemove
<1> QED
  BY <1>1, <1>3, <1>5, <1>6, <1>7
     DEF Next, ScheduleStep, RecoverStep, WorkerStep, JobAges, JobFallsDue, StallStep,
         Disturbance

(* A slot comes to dead-letter a job when it has failed it for good.       *)
LEMMA DeadLetterSteps ==
    ASSUME WellFormed, Next, NEW w \in Workers, worker'[w].pc = "dlq"
    PROVE  \/ worker[w].pc = "dlq" /\ worker'[w] = worker[w]
           \/ SettleFailed(w) /\ worker'[w].job = worker[w].job
<1> USE DEF WellFormed, Delivery
<1>1. CASE \E v \in Workers : WorkerRuns(v) \/ WorkerFails(v)
  <2> PICK v \in Workers : WorkerRuns(v) \/ WorkerFails(v)
    BY <1>1
  <2>1. v # w => worker'[w] = worker[w]
    BY DEF WorkerRuns, WorkerFails, Take, SkipCancelled, StartProcessing, MarkRunning,
           Execute, SaveJob, SaveLog, saved, Notify, LoadFailure, SettleRetrying,
           SettleFailed, DeadLetter, Ack, Throw, Crash, goto, WorkerTypeOK
  <2>2. ASSUME v = w PROVE SettleFailed(w) /\ worker'[w].job = worker[w].job
    <3>0. worker[w] \in Slot
      BY DEF WorkerTypeOK
    <3>1. ~ \E pc \in {"run", "exec", "ack"} : goto(w, pc)
      BY <3>0 DEF goto, WorkerTypeOK, Slot
    <3>2. ASSUME Execute(w) PROVE FALSE
      <4>1. PICK o \in execute(JobType[worker[w].job]) :
              worker' = [worker EXCEPT
                           ![w] = IF o = "OK"
                                  THEN [@ EXCEPT !.pc = "save", !.todo = {"job", "log"}]
                                  ELSE [@ EXCEPT !.pc = "failure", !.errorCode = o]]
        BY <3>2 DEF Execute
      <4>2. CASE o = "OK"
        BY <3>0, <4>1, <4>2 DEF WorkerTypeOK, Slot
      <4>3. CASE o # "OK"
        BY <3>0, <4>1, <4>3 DEF WorkerTypeOK, Slot
      <4> QED BY <4>2, <4>3
    <3>3. ASSUME NEW write, saved(w, write) PROVE FALSE
      <4> DEFINE pc == IF worker[w].todo = {write} THEN "notify" ELSE "save"
                 todo == worker[w].todo \ {write}
      <4>1. pc # "dlq" /\ worker' = [worker EXCEPT ![w] = [@ EXCEPT !.todo = todo, !.pc = pc]]
        BY <3>3 DEF saved
      <4> HIDE DEF pc, todo
      <4> QED BY <3>0, <4>1 DEF WorkerTypeOK, Slot
    <3>4. worker' # [worker EXCEPT ![w] = Idle]
      BY DEF Idle, WorkerTypeOK
    <3>6. ASSUME LoadFailure(w) PROVE FALSE
      <4> DEFINE n == jobs[worker[w].job].retryCount
      <4>1. worker' = [worker EXCEPT ![w] = [@ EXCEPT !.pc = "settle", !.retryCount = n]]
        BY <3>6 DEF LoadFailure
      <4> HIDE DEF n
      <4> QED BY <3>0, <4>1 DEF WorkerTypeOK, Slot
    <3>5. ~ \E id \in BullIds : Take(w, id)
      BY DEF Take, Idle, WorkerTypeOK
    <3>7. SettleFailed(w)
      BY <2>2, <3>1, <3>2, <3>3, <3>4, <3>5, <3>6
         DEF WorkerRuns, WorkerFails, SkipCancelled, StartProcessing, MarkRunning,
             Notify, SettleRetrying, DeadLetter, SaveJob, SaveLog, Ack, Throw, Crash
    <3> QED BY <3>0, <3>7 DEF SettleFailed, goto, WorkerTypeOK, Slot
  <2> QED BY <2>1, <2>2
<1>2. CASE UNCHANGED worker
  BY <1>2
<1> QED
  BY <1>1, <1>2
     DEF Next, ScheduleStep, RecoverStep, WorkerStep, JobAges, JobFallsDue, StallStep,
         Disturbance

(* Nothing but a failure for good makes a job a dead letter.               *)
LEMMA DeadSteps ==
    ASSUME WellFormed, Next, NEW j \in Jobs, DeadLettered(j)'
    PROVE  \/ DeadLettered(j)
           \/ \E w \in Workers : SettleFailed(w) /\ worker[w].job = j
<1>1. CASE j \in dlq'
  <2>1. \/ UNCHANGED dlq
        \/ \E w \in Workers : DeadLetter(w)
        \/ \E r \in ReplayIds : ReplayRemove(r)
    BY DEF Next, ScheduleStep, RecoverStep, scheduleReadyJobs, recoverStalledJobs,
           SchedulerFails, ClaimBatch, Enqueue, EnqueueFails, EnqueueAndRevertFail,
           FindStalled, Recover, RecoverFails, SchedulerCrash, WorkerStep, WorkerRuns,
           WorkerFails, Take, SkipCancelled, StartProcessing, MarkRunning, Execute,
           SaveJob, SaveLog, Notify, LoadFailure, SettleRetrying, SettleFailed,
           Ack, Throw, Crash, ServiceRuns, Submit, CancelCheck, CancelWrite,
           RetryCheck, RetryWrite, ReplayGet, ReplayAdd, JobAges,
           JobFallsDue, StallStep, StalledCheck, Disturbance, LockLost, Expire
  <2> QED BY <1>1, <2>1 DEF DeadLetter, dlqAdd, ReplayRemove, DeadLettered
<1>2. ASSUME NEW w \in Workers, worker'[w].pc = "dlq", worker'[w].job = j
      PROVE  DeadLettered(j) \/ (SettleFailed(w) /\ worker[w].job = j)
  BY <1>2, DeadLetterSteps DEF DeadLettered
<1>3. ASSUME NEW r \in ReplayIds, replays'[r].pc # "unused", replays'[r].job = j
      PROVE  DeadLettered(j)
  <2>1. \/ UNCHANGED replays
        \/ \E t \in ReplayIds : \/ \E k \in Jobs : ReplayGet(t, k)
                                \/ ReplayAdd(t) \/ ReplayRemove(t)
    BY DEF Next, ScheduleStep, RecoverStep, WorkerStep, ServiceRuns, Submit, CancelCheck,
           CancelWrite, RetryCheck, RetryWrite, JobAges, JobFallsDue, StallStep,
           Disturbance, api
  <2>2. replays \in [ReplayIds -> [pc  : {"unused", "add", "remove", "done"},
                                   job : Jobs \cup {Null}]]
    BY DEF WellFormed, ServiceTypeOK
  <2>3. ASSUME NEW t \in ReplayIds, NEW k \in Jobs, ReplayGet(t, k) PROVE DeadLettered(j)
    BY <1>3, <2>2, <2>3 DEF ReplayGet, DeadLettered
  <2>4. ASSUME NEW t \in ReplayIds, ReplayAdd(t) \/ ReplayRemove(t) PROVE DeadLettered(j)
    BY <1>3, <2>2, <2>4 DEF ReplayAdd, ReplayRemove, DeadLettered
  <2> QED BY <1>3, <2>1, <2>3, <2>4 DEF DeadLettered
<1>4. ASSUME NEW r \in ReplayIds, bull'[r].state # "none", bull'[r].job = j
      PROVE  DeadLettered(j)
  BY <1>4, ReplayEntrySteps DEF DeadLettered
<1> QED BY <1>1, <1>2, <1>3, <1>4 DEF DeadLettered

(* A scheduler's snapshot is a count it has just read.                     *)
LEMMA SnapshotSteps ==
    ASSUME WellFormed, Next, NEW s \in Schedulers, NEW r \in sched'[s].stalled
    PROVE  \/ r \in sched[s].stalled
           \/ r.retryCount = jobs[r.job].retryCount /\ UNCHANGED jobs
<1>0. sched \in [Schedulers -> [claimed : SUBSET Jobs, stalled : SUBSET Snapshot]]
  BY DEF WellFormed, SchedulerTypeOK
<1>1. CASE UNCHANGED sched
  BY <1>1
<1>2. ASSUME NEW t \in Schedulers, FindStalled(t)
      PROVE  \/ r \in sched[s].stalled
             \/ r.retryCount = jobs[r.job].retryCount /\ UNCHANGED jobs
  BY <1>0, <1>2 DEF FindStalled
<1>3. ASSUME NEW t \in Schedulers,
             \/ ClaimBatch(t) \/ RecoverFails(t) \/ SchedulerCrash(t)
             \/ \E j \in Jobs : Enqueue(t, j) \/ EnqueueFails(t, j) \/ EnqueueAndRevertFail(t, j)
             \/ \E q \in sched[t].stalled : Recover(t, q)
      PROVE  r \in sched[s].stalled
  BY <1>0, <1>3 DEF ClaimBatch, Enqueue, EnqueueFails, EnqueueAndRevertFail, Recover,
                    RecoverFails, SchedulerCrash, Polled
<1> QED
  BY <1>1, <1>2, <1>3
     DEF Next, ScheduleStep, RecoverStep, WorkerStep, JobAges, JobFallsDue, StallStep,
         Disturbance, scheduleReadyJobs, recoverStalledJobs, SchedulerFails

(* Two slots that settle the same job: one of them settles a dead letter.  *)
LEMMA OneSettles ==
    ASSUME WellFormed, RetryInv, NEW v \in Workers, NEW w \in Workers,
           Busy(v), Busy(w), worker[v].job = worker[w].job,
           jobs[worker[v].job].retryCount # MaxRetries[worker[v].job]
    PROVE  v = w
<1>1. ASSUME NEW u \in {v, w} PROVE worker[u].bull = worker[v].job
  <2>1. bull[worker[u].bull].state = "active" /\ bull[worker[u].bull].job = worker[u].job
    BY QueueAssumption
       DEF WellFormed, Delivery, SlotsHaveEntries, LocksAreHeld, RetryInv, SlotsAreLocked
  <2>2. worker[u].bull \notin ReplayIds
    BY <2>1 DEF WellFormed, Delivery, SlotsHaveEntries, RetryInv, DeadAreExhausted, DeadLettered
  <2> QED BY <2>1, <2>2 DEF WellFormed, Delivery, SlotsHaveEntries, EntriesNameJobs
<1> QED BY <1>1 DEF RetryInv, SlotsAreLocked

(* A step of slots that keep their locks keeps counts, reads and snapshots *)
(* in order.                                                               *)
LEMMA RetryInvStep ==
    ASSUME WellFormed, WellFormed', RetryInv, [Next]_vars
    PROVE  RetryInv'
<1>1. CASE UNCHANGED vars
  BY <1>1 DEF vars, RetryInv, SlotsAreLocked, CountsAreBounded, DeadAreExhausted,
              ReadsAreCurrent, SnapshotsLag, DeadLettered, Busy
<1>2. CASE Next
  <2>0. /\ \A j \in Jobs : /\ jobs[j].retryCount \in Nat /\ jobs'[j].retryCount \in Nat
                            /\ MaxRetries[j] \in Nat
        /\ \A w \in Workers : Busy(w) => worker[w].job \in Jobs /\ worker[w].retryCount \in Nat
        /\ \A s \in Schedulers : \A r \in sched[s].stalled :
              r.job \in Jobs /\ r.retryCount \in Nat
        /\ \A s \in Schedulers : \A r \in sched'[s].stalled :
              r.job \in Jobs /\ r.retryCount \in Nat
    BY JobsAssumption DEF WellFormed, Delivery, RepositoryTypeOK, WorkerTypeOK, Row, Slot,
                          SlotsHaveEntries, SchedulerTypeOK, Snapshot
  <2>1. SlotsAreLocked' /\ budget'["lockLoss"] = 0
    BY <1>2, LockSteps DEF RetryInv
  <2>2. ASSUME NEW j \in Jobs
        PROVE  \/ jobs'[j].retryCount = jobs[j].retryCount
               \/ \E w \in Workers :
                    /\ SettleRetrying(w) /\ worker[w].job = j
                    /\ jobs[j].retryCount < MaxRetries[j]
                    /\ jobs'[j].retryCount = jobs[j].retryCount + 1
    <3>1. ASSUME NEW w \in Workers, SettleRetrying(w), worker[w].job = j
          PROVE  /\ worker[w].retryCount = jobs[j].retryCount
                 /\ jobs[j].retryCount + 1 <= MaxRetries[j]
      BY <3>1 DEF RetryInv, ReadsAreCurrent, SettleRetrying, RetriesRemain, newRetryCount
    <3> QED BY <1>2, <2>0, <3>1, CountSteps
  <2>3. CountsAreBounded'
    BY <2>0, <2>2 DEF RetryInv, CountsAreBounded
  <2>4. SnapshotsLag'
    BY <1>2, <2>0, <2>2, SnapshotSteps DEF RetryInv, SnapshotsLag
  <2>5. ASSUME NEW w \in Workers, worker'[w].pc = "settle"
        PROVE  worker'[w].retryCount = jobs'[worker'[w].job].retryCount
    <3>1. CASE worker[w].pc = "settle" /\ worker'[w] = worker[w]
      <4>1. Busy(w) /\ worker[w].job \in Jobs
        BY <2>0, <3>1 DEF Busy
      <4>2. ASSUME NEW v \in Workers, SettleRetrying(v), worker[v].job = worker[w].job,
                   jobs[worker[w].job].retryCount < MaxRetries[worker[w].job]
            PROVE  FALSE
        <5>1. Busy(v) /\ worker'[v].pc = "ack"
          BY <4>2 DEF SettleRetrying, goto, Busy, WellFormed, Delivery, WorkerTypeOK, Slot
        <5>2. v = w
          BY <2>0, <4>1, <4>2, <5>1, OneSettles
        <5> QED BY <2>5, <5>1, <5>2
      <4> QED BY <2>2, <3>1, <4>1, <4>2 DEF RetryInv, ReadsAreCurrent
    <3>2. CASE LoadFailure(w)
      <4>1. /\ worker'[w].retryCount = jobs[worker[w].job].retryCount
            /\ worker'[w].job = worker[w].job /\ UNCHANGED jobs
        BY <3>2 DEF LoadFailure, WellFormed, Delivery, WorkerTypeOK, Slot
      <4> QED BY <4>1
    <3> QED BY <1>2, <2>5, <3>1, <3>2, SettleSteps
  <2>6. ASSUME NEW j \in Jobs, DeadLettered(j)' \/ jobs'[j].status = "FAILED"
        PROVE  jobs'[j].retryCount = MaxRetries[j]
    <3>1. CASE jobs[j].retryCount = MaxRetries[j]
      BY <2>0, <2>2, <3>1
    <3>2. ASSUME NEW w \in Workers, SettleFailed(w), worker[w].job = j
          PROVE  jobs[j].retryCount = MaxRetries[j]
      <4>1. worker[w].retryCount = jobs[j].retryCount /\ ~ (jobs[j].retryCount + 1 <= MaxRetries[j])
        BY <3>2 DEF RetryInv, ReadsAreCurrent, SettleFailed, RetriesRemain, newRetryCount
      <4> QED BY <2>0, <4>1 DEF RetryInv, CountsAreBounded
    <3>3. CASE DeadLettered(j)'
      BY <1>2, <3>1, <3>2, <3>3, DeadSteps DEF RetryInv, DeadAreExhausted
    <3>4. CASE jobs'[j].status = "FAILED" /\ jobs[j].status # "FAILED"
      <4>1. CASE QuietRows
        BY <3>4, <4>1 DEF QuietRows
      <4>2. ASSUME NEW w \in Workers, SettleRetrying(w) PROVE FALSE
        <5>1. newRetryCount(w) \in Nat /\ worker[w].job \in Jobs
          BY <2>0, <4>2 DEF SettleRetrying, Busy, newRetryCount
        <5> DEFINE dto == [Dto EXCEPT !.status = "RETRYING", !.retryCount = newRetryCount(w),
                                      !.startedAt = Undefined]
        <5>2. dto \in DtoType /\ dto.status = "RETRYING" /\ "RETRYING" # Undefined
          BY <5>1, DtoTypes, JobsAssumption DEF Dto, JobStatus
        <5>3. update(worker[w].job, dto)
          BY <4>2 DEF SettleRetrying
        <5> HIDE DEF dto
        <5> QED BY <3>4, <5>1, <5>2, <5>3, UpdateRow DEF WellFormed
      <4>3. ASSUME NEW w \in Workers, SettleFailed(w) PROVE jobs[j].retryCount = MaxRetries[j]
        <5>1. worker[w].job \in Jobs
          BY <2>0, <4>3 DEF SettleFailed, Busy
        <5> DEFINE dto == [Dto EXCEPT !.status = "FAILED", !.completedAt = "set"]
        <5>2. dto \in DtoType
          BY DtoTypes DEF JobStatus
        <5>3. update(worker[w].job, dto)
          BY <4>3 DEF SettleFailed
        <5> HIDE DEF dto
        <5>4. worker[w].job = j
          BY <3>4, <5>1, <5>2, <5>3, UpdateRow DEF WellFormed
        <5> QED BY <3>2, <4>3, <5>4
      <4>4. ASSUME NEW s \in Schedulers, NEW r \in sched[s].stalled, Recover(s, r)
            PROVE  jobs[j].retryCount = MaxRetries[j]
        <5>0. r \in Snapshot
          BY DEF WellFormed, SchedulerTypeOK
        <5>1. r.job \in Jobs /\ RecoveryDto(r) \in DtoType
          BY <5>0, DtoTypes DEF Snapshot
        <5>2. r.job = j
          BY <3>4, <4>4, <5>1, UpdateRow DEF Recover, WellFormed
        <5>3. ~ (r.retryCount < MaxRetries[j])
          <6>1. SUFFICES ASSUME r.retryCount < MaxRetries[j] PROVE FALSE
            OBVIOUS
          <6>2. RecoveryDto(r).status = "PENDING" /\ "PENDING" # Undefined
            BY <5>2, <6>1, JobsAssumption DEF RecoveryDto, Dto, JobStatus
          <6> QED BY <3>4, <4>4, <5>1, <5>2, <6>2, UpdateRow DEF Recover, WellFormed
        <5> QED BY <2>0, <5>2, <5>3 DEF RetryInv, SnapshotsLag, CountsAreBounded
      <4> QED BY <1>2, <3>1, <4>1, <4>2, <4>3, <4>4, <3>4, RowSteps
    <3> QED BY <2>6, <3>1, <3>3, <3>4 DEF RetryInv, DeadAreExhausted
  <2> QED BY <2>1, <2>3, <2>4, <2>5, <2>6 DEF RetryInv, ReadsAreCurrent, DeadAreExhausted
<1> QED BY <1>1, <1>2

(* Nothing is counted, read or held initially.                             *)
LEMMA RetryInvInit == Init /\ Limits["lockLoss"] = 0 => RetryInv
BY JobsAssumption
   DEF Init, EnvironmentInit, RepositoryInit, QueueInit, SchedulerInit, WorkerInit,
       ServiceInit, RetryInv, SlotsAreLocked, CountsAreBounded, DeadAreExhausted,
       ReadsAreCurrent, SnapshotsLag, DeadLettered, Busy, Idle, Polled, NoEntry

(* A worker or a recovery marks a job FAILED only after all its retries    *)
(* are used, in every behaviour in which slots keep their BullMQ locks.    *)
THEOREM FailedIsExhausted ==
    ASSUME Limits["lockLoss"] = 0
    PROVE  Spec => []FailedOnlyWhenExhausted
<1>1. RetryInv => FailedOnlyWhenExhausted
  BY DEF RetryInv, DeadAreExhausted, FailedOnlyWhenExhausted
<1>2. Init => RetryInv
  BY RetryInvInit
<1> QED BY <1>1, <1>2, RetryInvStep, WellFormedInvariant, PTL DEF Spec

--------------------------------------------------------------------------------
(* The refinement of RetryBudget.                                          *)

(* A step changes the count, or the FAILED status, of at most one job: a   *)
(* claim writes several rows, and none that is FAILED.                     *)
LEMMA OneRowChanges ==
    ASSUME WellFormed, Next
    PROVE  \E k : \A j \in Jobs \ {k} :
                     /\ jobs'[j].retryCount = jobs[j].retryCount
                     /\ jobs'[j].status = "FAILED" <=> jobs[j].status = "FAILED"
<1> DEFINE Goal == \E k : \A j \in Jobs \ {k} :
                     /\ jobs'[j].retryCount = jobs[j].retryCount
                     /\ jobs'[j].status = "FAILED" <=> jobs[j].status = "FAILED"
<1> USE DEF WellFormed
<1>1. ASSUME NEW k, \A j \in Jobs \ {k} : jobs'[j] = jobs[j] PROVE Goal
  BY <1>1
<1>2. ASSUME NEW k, NEW dto, update(k, dto) PROVE Goal
  BY <1>1, <1>2 DEF update, RepositoryTypeOK
<1>3. ASSUME UNCHANGED jobs PROVE Goal
  BY <1>1, <1>3
<1>4. ASSUME NEW s \in Schedulers, ClaimBatch(s) PROVE Goal
  <2>1. PICK K \in SUBSET Jobs : claimPendingJobs(K) /\ \A j \in K : jobs[j].status = "PENDING"
    BY <1>4 DEF ClaimBatch, Batches, Claimable
  <2>2. \A j \in Jobs : /\ jobs'[j].retryCount = jobs[j].retryCount
                        /\ jobs'[j].status = "FAILED" <=> jobs[j].status = "FAILED"
    BY <2>1 DEF claimPendingJobs, RepositoryTypeOK, Row
  <2> QED BY <2>2
<1>5. ASSUME NEW k \in Jobs, Submit(k) \/ StartedAtAges(k) \/ ScheduledTimeArrives(k)
      PROVE  Goal
  BY <1>1, <1>5 DEF Submit, create, StartedAtAges, ScheduledTimeArrives, RepositoryTypeOK
<1> HIDE DEF Goal
<1>6. ASSUME NEW s \in Schedulers, ScheduleStep(s) \/ RecoverStep(s) \/ SchedulerFails(s)
      PROVE  Goal
  BY <1>2, <1>3, <1>4, <1>6
     DEF ScheduleStep, RecoverStep, scheduleReadyJobs, recoverStalledJobs, SchedulerFails,
         Enqueue, EnqueueFails, EnqueueAndRevertFail, FindStalled, Recover, RecoverFails,
         SchedulerCrash
<1>7. ASSUME NEW w \in Workers, WorkerStep(w) \/ WorkerFails(w) PROVE Goal
  BY <1>2, <1>3, <1>7
     DEF WorkerStep, WorkerRuns, WorkerFails, Take, SkipCancelled, StartProcessing,
         MarkRunning, Execute, SaveJob, SaveLog, Notify, LoadFailure, SettleRetrying,
         SettleFailed, DeadLetter, Ack, Throw, Crash
<1>8. ASSUME ServiceRuns PROVE Goal
  BY <1>2, <1>3, <1>5, <1>8
     DEF ServiceRuns, CancelCheck, CancelWrite, RetryCheck, RetryWrite, ReplayGet, ReplayAdd,
         ReplayRemove
<1>9. Goal
  BY <1>3, <1>5, <1>6, <1>7, <1>8
     DEF Next, JobAges, JobFallsDue, StallStep, StalledCheck, Disturbance
<1> QED BY <1>9 DEF Goal

(* Schedulers, workers and the API together implement the retry budget:    *)
(* retry_count goes up one by one, never back, never past max_retries, and *)
(* a job becomes FAILED only at max_retries.                               *)
THEOREM RefinesRetryBudget ==
    ASSUME Limits["lockLoss"] = 0
    PROVE  Spec => ImplementsRetryBudget
<1>1. Init => Budget!Init
  BY DEF Init, RepositoryInit, Budget!Init
<1>2. ASSUME WellFormed, RetryInv, RetryInv', WellFormed', [Next]_vars
      PROVE  [Budget!Next]_(Budget!vars)
  <2>1. CASE UNCHANGED vars
    BY <2>1 DEF vars, Budget!vars
  <2>2. CASE Next
    <3> DEFINE used   == [j \in Jobs |-> jobs[j].retryCount]
               failed == {j \in Jobs : jobs[j].status = "FAILED"}
    <3>1. PICK k : \A j \in Jobs \ {k} :
                     /\ jobs'[j].retryCount = jobs[j].retryCount
                     /\ jobs'[j].status = "FAILED" <=> jobs[j].status = "FAILED"
      BY <1>2, <2>2, OneRowChanges
    <3> DEFINE Same == /\ jobs'[k].retryCount = jobs[k].retryCount
                       /\ jobs'[k].status = "FAILED" <=> jobs[k].status = "FAILED"
    <3>2. CASE k \notin Jobs \/ Same
      <4>1. \A j \in Jobs : /\ jobs'[j].retryCount = jobs[j].retryCount
                            /\ jobs'[j].status = "FAILED" <=> jobs[j].status = "FAILED"
        BY <3>1, <3>2
      <4>2. used' = used
        BY <4>1
      <4>3. failed' = failed
        BY <4>1
      <4> QED BY <4>2, <4>3 DEF Budget!vars
    <3>3. ASSUME k \in Jobs, jobs'[k].retryCount # jobs[k].retryCount
          PROVE  Budget!Use(k)
      <4>1. PICK w \in Workers :
              /\ SettleRetrying(w) /\ worker[w].job = k
              /\ jobs'[k].retryCount = worker[w].retryCount + 1
              /\ jobs'[k].status = "RETRYING"
        BY <1>2, <2>2, <3>3, CountSteps
      <4>2. worker[w].retryCount = jobs[k].retryCount /\ jobs[k].retryCount \in Nat
        BY <1>2, <3>3, <4>1 DEF RetryInv, ReadsAreCurrent, SettleRetrying, WellFormed,
                          RepositoryTypeOK, Row
      <4>3. jobs[k].retryCount < MaxRetries[k]
        BY <3>3, <4>1, <4>2, JobsAssumption DEF SettleRetrying, RetriesRemain, newRetryCount
      <4>4. used' = [used EXCEPT ![k] = @ + 1] /\ failed' = failed \ {k}
        BY <3>1, <3>3, <4>1, <4>2
      <4> QED BY <3>3, <4>3, <4>4 DEF Budget!Use
    <3>4. ASSUME k \in Jobs, jobs'[k].retryCount = jobs[k].retryCount,
                 jobs'[k].status = "FAILED", jobs[k].status # "FAILED"
          PROVE  Budget!Fail(k)
      <4>1. jobs[k].retryCount = MaxRetries[k]
        BY <1>2, <3>4 DEF RetryInv, DeadAreExhausted
      <4>2. used' = used /\ failed' = failed \cup {k}
        BY <3>1, <3>4
      <4> QED BY <3>4, <4>1, <4>2 DEF Budget!Fail
    <3>5. ASSUME k \in Jobs, jobs'[k].retryCount = jobs[k].retryCount,
                 jobs'[k].status # "FAILED", jobs[k].status = "FAILED"
          PROVE  Budget!Revive(k)
      <4>1. used' = used /\ failed' = failed \ {k}
        BY <3>1, <3>5
      <4>2. k \in failed
        BY <3>5
      <4> QED BY <4>1, <4>2 DEF Budget!Revive
    <3>6. k \in Jobs /\ (Budget!Use(k) \/ Budget!Fail(k) \/ Budget!Revive(k)) => Budget!Next
      BY DEF Budget!Next
    <3>7. \/ k \notin Jobs \/ Same
          \/ k \in Jobs /\ jobs'[k].retryCount # jobs[k].retryCount
          \/ /\ k \in Jobs /\ jobs'[k].retryCount = jobs[k].retryCount
             /\ jobs'[k].status = "FAILED" /\ jobs[k].status # "FAILED"
          \/ /\ k \in Jobs /\ jobs'[k].retryCount = jobs[k].retryCount
             /\ jobs'[k].status # "FAILED" /\ jobs[k].status = "FAILED"
      OBVIOUS
    <3> QED BY <3>2, <3>3, <3>4, <3>5, <3>6, <3>7
  <2> QED BY <1>2, <2>1, <2>2
<1>3. Spec => []RetryInv
  BY RetryInvInit, RetryInvStep, WellFormedInvariant, PTL DEF Spec
<1> QED BY <1>1, <1>2, <1>3, WellFormedInvariant, PTL DEF Spec, ImplementsRetryBudget, Budget!Spec
================================================================================
