--------------------------- MODULE ClusterEnvironment ---------------------------
(***************************************************************************)
(* The processes that run app.ts, and what may go wrong with them and with *)
(* the workers, with Redis and PostgreSQL, each as often as Bounds allows. *)
(***************************************************************************)
EXTENDS Integers

CONSTANTS
    Processes,  \* processes that run app.ts
    Bounds      \* how many mishaps of each kind may happen

Mishaps == {"crash",     \* a process dies
            "shutdown",  \* a process gets SIGTERM
            "redis",     \* a call of Redis throws
            "pause",     \* a renewal or a heartbeat comes too late
            "slow",      \* a renewal is unanswered when the next one is due
            "restart",   \* a process that monitors others is replaced
            "db"}        \* a call of PostgreSQL throws

ASSUME BoundsAssumption == Bounds \in [Mishaps -> Nat]

VARIABLE spare  \* mishaps that may still happen

SpareTypeOK == spare \in [Mishaps -> Nat]

SpareInit == spare = Bounds

Suffer(k) ==
    /\ spare[k] > 0
    /\ spare' = [spare EXCEPT ![k] = @ - 1]

Suffered(k) == Bounds[k] - spare[k]
================================================================================
