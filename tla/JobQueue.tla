-------------------------------- MODULE JobQueue --------------------------------
(***************************************************************************)
(* The two BullMQ queues: the main queue of JobQueue.ts, whose scheduled   *)
(* entries have the id `job_<id>`, and the dead letter queue of            *)
(* DeadLetterQueue.ts, whose entries have the id `dlq_<id>`.  BullMQ       *)
(* itself is a library and is modelled from how the code configures it:    *)
(* attempts, lockDuration, maxStalledCount, removeOnComplete/Fail.         *)
(***************************************************************************)
EXTENDS Integers, Environment

CONSTANTS
    ReplayIds,        \* generated ids of the entries that DLQ replays add
    Workers,          \* the processing slots of all BullMQ workers
    Null,
    Attempts,         \* defaultJobOptions.attempts
    MaxStalledCount   \* maxStalledCount of the BullMQ worker

(* The entry `job_<id>` is named by the job itself.                        *)
BullIds == Jobs \cup ReplayIds

ASSUME QueueAssumption ==
    /\ Jobs \cap ReplayIds = {}
    /\ Null \notin Jobs \cup ReplayIds \cup Workers
    /\ Attempts \in Nat
    /\ MaxStalledCount \in Nat

VARIABLES
    bull,  \* the main queue: one entry per id; state none: not there
    dlq    \* the jobs that have an entry in the dead letter queue

Entry == [state  : {"none", "waiting", "active", "completed", "failed"},
          job    : Jobs \cup {Null},     \* data.jobId
          lock   : Workers \cup {Null},  \* whose lock token is in Redis
          made   : Nat,                  \* attemptsMade
          stalls : Nat]                  \* stalledCounter

QueueTypeOK ==
    /\ bull \in [BullIds -> Entry]
    /\ dlq \in SUBSET Jobs

NoEntry == [state |-> "none", job |-> Null, lock |-> Null,
            made |-> 0, stalls |-> 0]

QueueInit ==
    /\ bull = [id \in BullIds |-> NoEntry]
    /\ dlq = {}

--------------------------------------------------------------------------------
(* Mutants of add: it replaces whatever has the id; it takes another id    *)
(* when the id exists.                                                     *)
addReplacing(id, j) ==
    bull' = [bull EXCEPT ![id] = [NoEntry EXCEPT !.state = "waiting", !.job = j]]

addUnnamed(id, j) ==
    LET free == {k \in BullIds : bull[k].state = "none"}
    IN  \E fresh \in IF id \in free THEN {id} ELSE free :
          bull' = [bull EXCEPT ![fresh] = [NoEntry EXCEPT !.state = "waiting", !.job = j]]

(* Queue.add: an id that exists already, in whatever state, is ignored.    *)
add(id, j) ==
    bull' = IF bull[id].state = "none"
            THEN [bull EXCEPT ![id] = [NoEntry EXCEPT !.state = "waiting",
                                                      !.job = j]]
            ELSE bull

(* A worker fetches a waiting entry and locks it.                          *)
moveToActive(w, id) ==
    /\ bull[id].state = "waiting"
    /\ bull' = [bull EXCEPT ![id] = [@ EXCEPT !.state = "active", !.lock = w]]

(* The processor returned.  Without the lock BullMQ refuses the move.      *)
moveToCompleted(w, id) ==
    bull' = IF bull[id].lock = w
            THEN [bull EXCEPT ![id] = [@ EXCEPT !.state = "completed", !.lock = Null]]
            ELSE bull

(* The processor threw: another attempt, or failed for good.               *)
moveToFailed(w, id) ==
    bull' = IF bull[id].lock = w
            THEN [bull EXCEPT ![id] =
                    [@ EXCEPT !.state = IF bull[id].made + 1 < Attempts
                                        THEN "waiting" ELSE "failed",
                              !.lock = Null,
                              !.made = bull[id].made + 1]]
            ELSE bull

(* Nobody renews the lock any more: the worker died.                       *)
releaseLock(w, id) ==
    bull' = IF bull[id].lock = w
            THEN [bull EXCEPT ![id] = [@ EXCEPT !.lock = Null]]
            ELSE bull

(* The stalled check of any BullMQ worker finds an active entry whose lock *)
(* has expired.                                                            *)
StalledCheck(id) ==
    /\ bull[id].state = "active"
    /\ bull[id].lock = Null
    /\ bull' = [bull EXCEPT ![id] =
                  [@ EXCEPT !.state = IF bull[id].stalls + 1 > MaxStalledCount
                                      THEN "failed" ELSE "waiting",
                            !.stalls = bull[id].stalls + 1]]
    /\ UNCHANGED <<dlq, budget>>

(* A live worker misses its renewals for lockDuration.                     *)
LockLost(id) ==
    /\ bull[id].lock # Null
    /\ Spend("lockLoss")
    /\ bull' = [bull EXCEPT ![id] = [@ EXCEPT !.lock = Null]]
    /\ UNCHANGED dlq

(* removeOnComplete, removeOnFail.                                         *)
Expire(id) ==
    /\ bull[id].state \in {"completed", "failed"}
    /\ Spend("expiry")
    /\ bull' = [bull EXCEPT ![id] = NoEntry]
    /\ UNCHANGED dlq

(* DeadLetterQueue.add: like any add, ignored when the id exists.          *)
dlqAdd(j) == dlq' = dlq \cup {j}
================================================================================
