------------------------------ MODULE ClusterParts ------------------------------
(***************************************************************************)
(* The processes of the cluster: the schedulers of SchedulerCluster, and   *)
(* the workers with the monitors of Monitoring.  They share what may go    *)
(* wrong and nothing else, so a behaviour is one of either side, chosen at *)
(* the start, while the other rests.                                       *)
(***************************************************************************)
EXTENDS SchedulerCluster, Monitoring

VARIABLE side

leaderVars == <<key, held, cronVars, life, leader, renewing, backoff>>

sideVars == <<spare, leaderVars, registryVars, monitorVars, side>>

SidesInit == ClusterInit /\ PresenceInit /\ side \in {"schedulers", "workers"}

(* A step A of a scheduler, of a worker or a monitor.                      *)
Scheduling(A) ==
    /\ side = "schedulers"
    /\ A
    /\ UNCHANGED <<registryVars, monitorVars, side>>

Watching(A) ==
    /\ side = "workers"
    /\ A
    /\ UNCHANGED <<leaderVars, side>>

SidesNext == Scheduling(ClusterNext) \/ Watching(PresenceNext)

(* The fairness of ClusterFairSpec and of PresenceFairSpec.                *)
SidesFairSpec ==
    /\ SidesInit
    /\ [][SidesNext]_sideVars
    /\ \A p \in Processes :
         /\ WF_sideVars(Scheduling(StepDown(p)))
         /\ WF_sideVars(Scheduling(TryAgain(p)))
         /\ WF_sideVars(Scheduling(Exit(p)))
         /\ WF_sideVars(Scheduling(CronStep(p)))
    /\ WF_sideVars(Scheduling(KeyExpires))
    /\ \A p \in WorkerIds :
         /\ WF_sideVars(Watching(Beats(p) /\ UNCHANGED monitorVars))
         /\ WF_sideVars(Watching(Ages(p) /\ UNCHANGED monitorVars))
    /\ \A c \in Monitors :
         /\ WF_sideVars(Watching(DetectLost(c)))
         /\ WF_sideVars(Watching(NotifyLost(c)))
         /\ WF_sideVars(Watching(ReadWorkers(c) \/ Evaluate(c)))
================================================================================
