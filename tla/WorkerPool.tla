------------------------------- MODULE WorkerPool -------------------------------
(***************************************************************************)
(* WorkerPool.ts: how many workers the pool has.  (The workers it makes    *)
(* are never started: addWorker calls the constructor only.)               *)
(*                                                                         *)
(* setInterval starts a check of autoScale whether or not the previous one *)
(* has the queue's depth yet.  Between two additions a check awaits an     *)
(* already settled promise: other checks whose answer came with its own    *)
(* may go on there, timers and requests may not.                           *)
(***************************************************************************)
EXTENDS Integers

CONSTANTS
    minWorkers, maxWorkers, scaleUpThreshold, scaleDownThreshold,
    Depths,  \* what getQueueDepth may answer
    Checks   \* bound: checks of autoScale that may overlap

ASSUME PoolAssumption ==
    /\ minWorkers \in Nat
    /\ maxWorkers \in Nat
    /\ minWorkers <= maxWorkers
    /\ scaleUpThreshold \in Nat \ {0}
    /\ scaleDownThreshold \in Nat
    /\ Depths \subseteq Nat

VARIABLES
    pool,    \* new, started, or stopped
    size,    \* workers.length
    checks,  \* of each check: idle, waiting for the depth, or adding
    toAdd,   \* what a check that is adding has still to add
    raced,   \* whether a check got its depth while another was adding
    orphans  \* whether stop() came while a check was waiting

poolVars == <<pool, size, checks, toAdd, raced, orphans>>

PoolTypeOK ==
    /\ pool \in {"new", "started", "stopped"}
    /\ size \in Nat
    /\ checks \in [Checks -> {"idle", "waiting", "adding"}]
    /\ toAdd \in [Checks -> Nat]
    /\ raced \in BOOLEAN
    /\ orphans \in BOOLEAN

PoolInit ==
    /\ pool = "new"
    /\ size = 0
    /\ checks = [c \in Checks |-> "idle"]
    /\ toAdd = [c \in Checks |-> 0]
    /\ raced = FALSE
    /\ orphans = FALSE

Adding == {c \in Checks : checks[c] = "adding"}

--------------------------------------------------------------------------------
(* Its additions await settled promises only: no timer comes in between.   *)
StartPool ==
    /\ pool = "new"
    /\ pool' = "started"
    /\ size' = minWorkers
    /\ UNCHANGED <<checks, toAdd, raced, orphans>>

(* The interval is cleared; checks that are waiting go on.                 *)
StopPool ==
    /\ pool = "started"
    /\ Adding = {}
    /\ pool' = "stopped"
    /\ size' = 0
    /\ orphans' = \E c \in Checks : checks[c] = "waiting"
    /\ UNCHANGED <<checks, toAdd, raced>>

BeginCheck(c) ==
    /\ pool = "started"
    /\ Adding = {}
    /\ checks[c] = "idle"
    /\ checks' = [checks EXCEPT ![c] = "waiting"]
    /\ UNCHANGED <<pool, size, toAdd, raced, orphans>>

(* getQueueDepth throws, and the catch logs it.                            *)
CheckFails(c) ==
    /\ checks[c] = "waiting"
    /\ checks' = [checks EXCEPT ![c] = "idle"]
    /\ UNCHANGED <<pool, size, toAdd, raced, orphans>>

--------------------------------------------------------------------------------
(* jobsPerWorker is depth / divisor.                                       *)
divisor == IF size > 0 THEN size ELSE 1

ceilDiv(a, b) == (a + b - 1) \div b

smaller(a, b) == IF a < b THEN a ELSE b

(* A mutant of shortage: the maximum is what a check may add.              *)
shortageUncapped(depth) ==
    smaller(ceilDiv(depth, divisor * scaleUpThreshold) - size, maxWorkers)

(* Math.ceil(jobsPerWorker / scaleUpThreshold) - current, capped.          *)
shortage(depth) ==
    smaller(ceilDiv(depth, divisor * scaleUpThreshold) - size, maxWorkers - size)

wantsMore(depth) == depth > scaleUpThreshold * divisor /\ size < maxWorkers

wantsLess(depth) == depth < scaleDownThreshold * divisor /\ size > minWorkers

(* The depth arrives.  The first worker is added before the first await.   *)
ScaleUp(c) ==
    \E depth \in Depths :
        /\ checks[c] = "waiting"
        /\ wantsMore(depth)
        /\ shortage(depth) > 0
        /\ size' = size + 1
        /\ toAdd' = [toAdd EXCEPT ![c] = shortage(depth) - 1]
        /\ checks' = [checks EXCEPT ![c] = IF shortage(depth) > 1 THEN "adding" ELSE "idle"]
        /\ raced' = (raced \/ Adding # {})
        /\ UNCHANGED <<pool, orphans>>

surplus == size - minWorkers

ScaleDown(c) ==
    \E depth \in Depths :
        /\ checks[c] = "waiting"
        /\ ~ wantsMore(depth)
        /\ wantsLess(depth)
        /\ size' = size - surplus
        /\ checks' = [checks EXCEPT ![c] = "idle"]
        /\ UNCHANGED <<pool, toAdd, raced, orphans>>

(* Neither; or more are wanted and the formula gives no shortage.          *)
LeaveAlone(c) ==
    \E depth \in Depths :
        /\ checks[c] = "waiting"
        /\ IF wantsMore(depth) THEN shortage(depth) <= 0 ELSE ~ wantsLess(depth)
        /\ checks' = [checks EXCEPT ![c] = "idle"]
        /\ UNCHANGED <<pool, size, toAdd, raced, orphans>>

AddWorker(c) ==
    /\ checks[c] = "adding"
    /\ size' = size + 1
    /\ toAdd' = [toAdd EXCEPT ![c] = @ - 1]
    /\ checks' = [checks EXCEPT ![c] = IF toAdd[c] > 1 THEN "adding" ELSE "idle"]
    /\ UNCHANGED <<pool, raced, orphans>>

PoolNext ==
    \/ StartPool \/ StopPool
    \/ \E c \in Checks :
         \/ BeginCheck(c) \/ CheckFails(c)
         \/ ScaleUp(c) \/ ScaleDown(c) \/ LeaveAlone(c) \/ AddWorker(c)

PoolSpec == PoolInit /\ [][PoolNext]_poolVars

--------------------------------------------------------------------------------
(* "Respects MIN_WORKERS and MAX_WORKERS bounds": from start() to stop()   *)
(* the pool has at least the minimum; it has at most the maximum unless    *)
(* two checks added at the same time; after stop() it is empty unless a    *)
(* check was waiting then and found a deep queue with no worker.           *)
PoolBounds ==
    /\ pool = "started" => minWorkers <= size
    /\ size <= maxWorkers \/ raced
    /\ pool = "stopped" => size = 0 \/ orphans
================================================================================
