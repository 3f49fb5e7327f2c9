---------------------------- MODULE SchedulerCluster ----------------------------
(***************************************************************************)
(* Which process schedules: the leadership of JobScheduler.ts in several   *)
(* processes that share the Redis lock, and the CronScheduler that each    *)
(* starts while it leads.  (The poll loop of a leader is JobScheduler.tla, *)
(* which assumes nothing about how many there are.)                        *)
(***************************************************************************)
EXTENDS DistributedLock, CronScheduler

VARIABLES
    life,      \* of each process: down, up, or stopping after SIGTERM
    leader,    \* the processes whose isLeader is true
    renewing,  \* the processes whose lockRenewalInterval is set
    backoff    \* the processes asleep before they try again

clusterVars == <<spare, key, held, cron, ticks, schedules, occurred, created,
                 life, leader, renewing, backoff>>

ClusterTypeOK ==
    /\ SpareTypeOK
    /\ LockTypeOK
    /\ CronTypeOK
    /\ life \in [Processes -> {"down", "up", "stopping"}]
    /\ leader \in SUBSET Processes
    /\ renewing \in SUBSET Processes
    /\ backoff \in SUBSET Processes

ClusterInit ==
    /\ SpareInit
    /\ LockInit
    /\ CronInit
    /\ life = [p \in Processes |-> "down"]
    /\ leader = {}
    /\ renewing = {}
    /\ backoff = {}

cronTables == <<ticks, schedules, occurred, created>>

--------------------------------------------------------------------------------
(* A mutant of becomeLeader: it never renews.                              *)
becomeLeaderForGood(p) ==
    /\ leader' = leader \cup {p}
    /\ cronStart(p)
    /\ UNCHANGED renewing

(* The lock is acquired.                                                   *)
becomeLeader(p) ==
    /\ leader' = leader \cup {p}
    /\ cronStart(p)
    /\ renewing' = renewing \cup {p}

(* tryBecomeLeader: acquired; a follower; or, when Redis fails, a leader   *)
(* without a lock.                                                         *)
tryBecomeLeader(p) ==
    /\ \/ tryAcquire(p) /\ becomeLeader(p) /\ UNCHANGED spare
       \/ acquireRefused(p) /\ UNCHANGED <<spare, leader, cron, renewing>>
       \/ /\ Suffer("redis")
          /\ acquireThrows(p)
          /\ leader' = leader \cup {p}
          /\ cronStart(p)
          /\ UNCHANGED renewing
    /\ UNCHANGED cronTables

Start(p) ==
    /\ life[p] = "down"
    /\ life' = [life EXCEPT ![p] = "up"]
    /\ tryBecomeLeader(p)
    /\ UNCHANGED backoff

(* Mutants of StepDown: the process trusts the token it remembers; the     *)
(* cron scheduler goes on.                                                 *)
StepDownTrusting(p) ==
    /\ p \in renewing \ held
    /\ renewFails(p)
    /\ leader' = leader \ {p}
    /\ cronStop(p)
    /\ renewing' = renewing \ {p}
    /\ backoff' = backoff \cup {p}
    /\ UNCHANGED <<spare, cronTables, life>>

StepDownCronning(p) ==
    /\ p \in renewing
    /\ renewFails(p)
    /\ leader' = leader \ {p}
    /\ renewing' = renewing \ {p}
    /\ backoff' = backoff \cup {p}
    /\ UNCHANGED <<spare, cron, cronTables, life>>

(* The renewal finds the lock gone.  A renewal that finds it, or throws,   *)
(* changes nothing.                                                        *)
StepDown(p) ==
    /\ p \in renewing
    /\ renewFails(p)
    /\ leader' = leader \ {p}
    /\ cronStop(p)
    /\ renewing' = renewing \ {p}
    /\ backoff' = backoff \cup {p}
    /\ UNCHANGED <<spare, cronTables, life>>

(* After the sleep it tries again, once, even if it was stopped meanwhile. *)
TryAgain(p) ==
    /\ p \in backoff
    /\ backoff' = backoff \ {p}
    /\ tryBecomeLeader(p)
    /\ UNCHANGED life

(* stop() on SIGTERM: the lock is not released, isLeader stays.            *)
Stop(p) ==
    /\ life[p] = "up"
    /\ Suffer("shutdown")
    /\ life' = [life EXCEPT ![p] = "stopping"]
    /\ renewing' = renewing \ {p}
    /\ cronStop(p)
    /\ UNCHANGED <<key, held, cronTables, leader, backoff>>

vanish(p) ==
    /\ life' = [life EXCEPT ![p] = "down"]
    /\ forget(p)
    /\ cronForget(p)
    /\ leader' = leader \ {p}
    /\ renewing' = renewing \ {p}
    /\ backoff' = backoff \ {p}

Exit(p) == life[p] = "stopping" /\ vanish(p) /\ UNCHANGED spare

Crash(p) == life[p] # "down" /\ Suffer("crash") /\ vanish(p)

(* The time to live of the key runs out: because nobody renews it, or      *)
(* because the one who does is late.                                       *)
KeyExpires ==
    /\ key # Null
    /\ key \notin renewing
    /\ expire
    /\ UNCHANGED <<spare, cronVars, life, leader, renewing, backoff>>

RenewalIsLate ==
    /\ key \in renewing
    /\ Suffer("pause")
    /\ expire
    /\ UNCHANGED <<cronVars, life, leader, renewing, backoff>>

--------------------------------------------------------------------------------
leadership == <<key, held, life, leader, renewing, backoff>>

CronStep(p) == TickSteps(p) /\ UNCHANGED <<spare, leadership>>

ClusterNext ==
    \/ \E p \in Processes :
         \/ Start(p) \/ StepDown(p) \/ TryAgain(p)
         \/ Stop(p) \/ Exit(p) \/ Crash(p)
         \/ CronStep(p)
         \/ (\E t \in Ticks : TickFails(p, t)) /\ UNCHANGED leadership
    \/ KeyExpires
    \/ RenewalIsLate
    \/ \E s \in Schedules : /\ ScheduleRequests(s) \/ FallDue(s)
                            /\ UNCHANGED <<spare, leadership>>

ClusterSpec == ClusterInit /\ [][ClusterNext]_clusterVars

(* Timers fire: the renewal interval, the sleep, the key's time to live,   *)
(* the cron interval; a process that was told to stop exits.               *)
ClusterFairSpec ==
    /\ ClusterSpec
    /\ \A p \in Processes :
         /\ WF_clusterVars(StepDown(p))
         /\ WF_clusterVars(TryAgain(p))
         /\ WF_clusterVars(Exit(p))
         /\ WF_clusterVars(CronStep(p))
    /\ WF_clusterVars(KeyExpires)

--------------------------------------------------------------------------------
(* A process leads with a lock it has acquired and keeps renewing, unless  *)
(* Redis failed and it leads without one: tryBecomeLeader and the renewal  *)
(* never leave a leader that would not notice the loss of its lock.        *)
LeadersRenew ==
    \A p \in leader :
        life[p] = "up" => p \in held \cap renewing \/ Suffered("redis") > 0

(* Cron triggers come from leaders only: the cron scheduler is started and *)
(* stopped with the leadership.                                            *)
CronFollowsLeader == cron \subseteq leader

(* The jobs a schedule still has to create because it was advanced.        *)
Creating(s) ==
    Cardinality({pt \in Processes \X Ticks : ticks[pt[1]][pt[2]].creating = s})

(* total_triggered_count is what was created and what is about to be, but  *)
(* for the triggers that a crash, a shutdown or a failing insert lost      *)
(* between the advance and the insert.                                     *)
TriggersAreCounted ==
    \A s \in Schedules :
        schedules[s].state # "deleted" =>
            LET known == created[s] + Creating(s)
                lost  == Suffered("db") + Cardinality(Ticks)
                             * (Suffered("crash") + Suffered("shutdown"))
            IN  known <= schedules[s].count /\ schedules[s].count <= known + lost

(* Two leaders do not last: one that has lost its lock to another process  *)
(* steps down, or gets the lock back.                                      *)
LostLockIsNoticed ==
    \A p \in Processes :
        p \in leader \cap held /\ key # p ~> p \notin leader \cap held \/ key = p

--------------------------------------------------------------------------------
(* What the comments promise, and the code does not keep.                  *)

(* "Followers monitor for leader failure and take over": while a process   *)
(* is up, one that is up comes to lead.  A follower never tries again.     *)
FollowersTakeOver ==
    (\E p \in Processes : life[p] = "up")
        ~> \/ \E p \in leader : life[p] = "up"
           \/ \A p \in Processes : life[p] = "down"

(* "The distributed lock (DistributedLock) ensures exactly-once            *)
(* triggering": no more jobs than occurrences.  Ticks of the one leader    *)
(* overlap.                                                                *)
TriggeredOnce == \A s \in Schedules : created[s] <= occurred[s]
================================================================================
