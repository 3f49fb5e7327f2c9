------------------------------ MODULE RetryBudget ------------------------------
(***************************************************************************)
(* What the orchestration promises about retries, without queues, workers  *)
(* or schedulers: a job uses up its retries one by one, never gets one     *)
(* back, and is FAILED only once all are used.                             *)
(***************************************************************************)
EXTENDS Integers

CONSTANTS Jobs, MaxRetries

VARIABLES
    used,   \* retries used up, per job
    failed  \* the jobs that are FAILED

vars == <<used, failed>>

Init ==
    /\ used = [j \in Jobs |-> 0]
    /\ failed = {}

Use(j) ==
    /\ used[j] < MaxRetries[j]
    /\ used' = [used EXCEPT ![j] = @ + 1]
    /\ failed' = failed \ {j}

Fail(j) ==
    /\ used[j] = MaxRetries[j]
    /\ failed' = failed \cup {j}
    /\ UNCHANGED used

Revive(j) ==
    /\ j \in failed
    /\ failed' = failed \ {j}
    /\ UNCHANGED used

Next == \E j \in Jobs : Use(j) \/ Fail(j) \/ Revive(j)

Spec == Init /\ [][Next]_vars
================================================================================
