------------------------------ MODULE Environment ------------------------------
(***************************************************************************)
(* What the outside world may do to the system, and how often: crashes,    *)
(* failing database or Redis calls, lost BullMQ locks, expired BullMQ      *)
(* entries and client requests.  Limits bounds each kind; a TLC run gives  *)
(* small values, the proofs hold for every value.                          *)
(***************************************************************************)
EXTENDS Integers

CONSTANTS
    Jobs,    \* ids of the jobs that may be submitted
    Limits   \* how many disturbances of each kind may happen

Disturbances ==
    {"workerCrash",     \* a worker process dies
     "schedulerCrash",  \* a scheduler process dies
     "fault",           \* one statement or queue call throws
     "outage",          \* a call and the one that handles its failure throw
     "lockLoss",        \* a live worker loses its BullMQ lock
     "expiry",          \* BullMQ removes a finished entry
     "call"}            \* a client cancels, retries or replays

ASSUME LimitsAssumption == Limits \in [Disturbances -> Nat]

VARIABLE budget

EnvironmentTypeOK == budget \in [Disturbances -> Nat]

EnvironmentInit == budget = Limits

(* One more disturbance of kind k happens.                                 *)
Spend(k) ==
    /\ budget[k] > 0
    /\ budget' = [budget EXCEPT ![k] = @ - 1]
================================================================================
