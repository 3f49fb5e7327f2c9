---------------------------- MODULE DocumentedClaims ----------------------------
(***************************************************************************)
(* What the repository's documents and comments say of a job's life, and   *)
(* the code does not keep.  Each is refuted by a run of its own.           *)
(***************************************************************************)
EXTENDS Orchestration

(* "Failure + retries remain: RETRYING, schedules retry via BullMQ         *)
(* backoff": a RETRYING job moves on.  processJob returns normally after a *)
(* failure, so BullMQ has nothing to retry.                                *)
RetryingIsRetried ==
    \A j \in Jobs : jobs[j].status = "RETRYING" ~> jobs[j].status # "RETRYING"

(* "Manually retry a failed job": a job put back to PENDING runs, or is    *)
(* cancelled.  BullMQ still knows `job_<id>` and ignores the second add.   *)
PendingIsRun ==
    \A j \in Jobs :
        jobs[j].status = "PENDING" ~> jobs[j].status \in {"RUNNING", "CANCELLED"}

(* "RUNNING -> COMPLETED", and no arrow from there: nothing takes a job    *)
(* out of COMPLETED.  A recovery that read the row while it was RUNNING    *)
(* does.                                                                   *)
CompletedIsFinal ==
    [][\A j \in Jobs :
         jobs[j].status = "COMPLETED" => jobs'[j].status = "COMPLETED"]_vars
================================================================================
