------------------------------ MODULE JobExecutor ------------------------------
(***************************************************************************)
(* JobExecutor.ts: what the execution of a job of each type may come to.   *)
(* A result is OK or the errorCode; NO_CODE is a failure without one, and  *)
(* THROWN a handler that throws.  What handlers do to the outside is not   *)
(* modelled.                                                               *)
(***************************************************************************)

(* A schedule's template may hold a type nobody validated: OTHER.          *)
JobTypes == {"HTTP_REQUEST", "SHELL_COMMAND", "DATA_PIPELINE", "EMAIL_NOTIFICATION",
             "REPORT_GENERATION", "FILE_PROCESSING", "DATABASE_CLEANUP", "WEBHOOK",
             "CUSTOM", "OTHER"}

(* NO_CODE: a 4xx answer.  HTTP_ERROR: 5xx or none.  THROWN: no url.       *)
executeHttpRequest  == {"OK", "NO_CODE", "HTTP_ERROR", "THROWN"}
executeWebhook      == executeHttpRequest
executeShellCommand == {"OK", "SECURITY_VIOLATION", "SHELL_ERROR", "THROWN"}
executeDataPipeline == {"OK", "THROWN"}  \* THROWN: steps is not a list
executeCustom       == {"OK", "HANDLER_NOT_FOUND", "THROWN"}
executeSimulated    == {"OK"}            \* email, report, file, cleanup

dispatch(type) ==
    CASE type = "HTTP_REQUEST"  -> executeHttpRequest
      [] type = "WEBHOOK"       -> executeWebhook
      [] type = "SHELL_COMMAND" -> executeShellCommand
      [] type = "DATA_PIPELINE" -> executeDataPipeline
      [] type = "CUSTOM"        -> executeCustom
      [] type = "OTHER"         -> {"UNKNOWN_JOB_TYPE"}
      [] OTHER                  -> executeSimulated

(* The timer wins only against a handler that waits for something.         *)
createTimeoutPromise(type) ==
    IF type \in {"EMAIL_NOTIFICATION", "FILE_PROCESSING", "DATABASE_CLEANUP", "OTHER"}
    THEN {} ELSE {"JOB_TIMEOUT"}

execute(type) ==
    {IF r = "THROWN" THEN "EXECUTION_ERROR" ELSE r : r \in dispatch(type)}
        \cup createTimeoutPromise(type)

Outcomes == UNION {execute(type) : type \in JobTypes}
================================================================================
