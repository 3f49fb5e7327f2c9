------------------------------- MODULE JobService -------------------------------
(***************************************************************************)
(* The requests of the API that change a job: submit, cancel and retry of  *)
(* JobService.ts, the replays of RetryService.ts and DeadLetterQueue.ts.   *)
(* Cancel and retry read the row, check its status, and write it in a      *)
(* second statement without looking again; a replay is three calls.        *)
(***************************************************************************)
EXTENDS JobRepository, JobQueue

CONSTANTS
    Deferrable,  \* jobs that may be submitted with a later scheduledAt
    Requests     \* the requests clients make, of cancel, retry, replay

VARIABLES
    cancelling,  \* jobs with a cancel request past its check
    retrying,    \* jobs with a retry request past its check
    replays      \* replays in progress, by the id of the entry they add

api == <<cancelling, retrying, replays>>

ServiceTypeOK ==
    /\ cancelling \in SUBSET Jobs
    /\ retrying \in SUBSET Jobs
    /\ replays \in [ReplayIds -> [pc  : {"unused", "add", "remove", "done"},
                                  job : Jobs \cup {Null}]]

ServiceInit ==
    /\ cancelling = {}
    /\ retrying = {}
    /\ replays = [r \in ReplayIds |-> [pc |-> "unused", job |-> Null]]

Request(op) == op \in Requests /\ Spend("call")

--------------------------------------------------------------------------------
(* createJob and submitJob: one insert.                                    *)
Submit(j) ==
    /\ jobs[j].status = "ABSENT"
    /\ \E at \in IF j \in Deferrable THEN {"due", "future"} ELSE {"due"} :
         create(j, at)
    /\ UNCHANGED <<logs, bull, dlq, budget, api>>

Cancellable(j) ==
    jobs[j].status \notin {"ABSENT", "COMPLETED", "FAILED", "CANCELLED"}

CancelCheck(j) ==
    /\ Request("cancel")
    /\ Cancellable(j)
    /\ cancelling' = cancelling \cup {j}
    /\ UNCHANGED <<jobs, logs, bull, dlq, retrying, replays>>

CancelWrite(j) ==
    /\ j \in cancelling
    /\ update(j, [Dto EXCEPT !.status = "CANCELLED", !.completedAt = "set"])
    /\ cancelling' = cancelling \ {j}
    /\ UNCHANGED <<logs, bull, dlq, budget, retrying, replays>>

Retryable(j) == jobs[j].status \in {"FAILED", "CANCELLED", "TIMED_OUT"}

RetryCheck(j) ==
    /\ Request("retry")
    /\ Retryable(j)
    /\ retrying' = retrying \cup {j}
    /\ UNCHANGED <<jobs, logs, bull, dlq, cancelling, replays>>

RetryDto == [Dto EXCEPT !.status = "PENDING", !.startedAt = Undefined,
                        !.completedAt = Undefined]

RetryWrite(j) ==
    /\ j \in retrying
    /\ update(j, RetryDto)
    /\ retrying' = retrying \ {j}
    /\ UNCHANGED <<logs, bull, dlq, budget, cancelling, replays>>

(* replayJob: get the DLQ entry, add its data to the main queue under a    *)
(* new id, remove the DLQ entry.                                           *)
ReplayGet(r, j) ==
    /\ Request("replay")
    /\ replays[r].pc = "unused"
    /\ j \in dlq
    /\ replays' = [replays EXCEPT ![r] = [pc |-> "add", job |-> j]]
    /\ UNCHANGED <<jobs, logs, bull, dlq, cancelling, retrying>>

ReplayAdd(r) ==
    /\ replays[r].pc = "add"
    /\ add(r, replays[r].job)
    /\ replays' = [replays EXCEPT ![r].pc = "remove"]
    /\ UNCHANGED <<jobs, logs, dlq, budget, cancelling, retrying>>

ReplayRemove(r) ==
    /\ replays[r].pc = "remove"
    /\ dlq' = dlq \ {replays[r].job}
    /\ replays' = [replays EXCEPT ![r].pc = "done"]
    /\ UNCHANGED <<jobs, logs, bull, budget, cancelling, retrying>>

--------------------------------------------------------------------------------
ServiceRuns ==
    \/ \E j \in Jobs : \/ Submit(j)
                       \/ CancelCheck(j) \/ CancelWrite(j)
                       \/ RetryCheck(j) \/ RetryWrite(j)
    \/ \E r \in ReplayIds : \/ \E j \in Jobs : ReplayGet(r, j)
                            \/ ReplayAdd(r)
                            \/ ReplayRemove(r)
================================================================================
