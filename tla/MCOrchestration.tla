---------------------------- MODULE MCOrchestration ----------------------------
(***************************************************************************)
(* Instances of Orchestration for TLC.  A cfg picks the sets, one of the   *)
(* retry budgets and one of the bounds on disturbances below.              *)
(***************************************************************************)
EXTENDS DocumentedClaims, FiniteSetsExt, TLC

CONSTANTS j1, j2, w1, w2, s1, s2, r1, r2

NoRetry      == [j \in Jobs |-> 0]
OneRetry     == [j \in Jobs |-> 1]
SamePriority == [j \in Jobs |-> 3]
HighFirst    == [j \in Jobs |-> IF j = j1 THEN 2 ELSE 3]

Pipeline     == [j \in Jobs |-> "DATA_PIPELINE"]
Custom       == [j \in Jobs |-> "CUSTOM"]
ReportFirst  == [j \in Jobs |-> IF j = j1 THEN "REPORT_GENERATION" ELSE "CUSTOM"]

NoLimits       == [k \in Disturbances |-> 0]
JobLimits      == [NoLimits EXCEPT !["workerCrash"] = 1, !["expiry"] = 1,
                                   !["outage"] = 1, !["schedulerCrash"] = 1,
                                   !["lockLoss"] = 1, !["call"] = 2]
ProgressLimits == [NoLimits EXCEPT !["workerCrash"] = 2, !["fault"] = 1,
                                   !["call"] = 1]

(* One disturbance, for the runs that refute a documented claim.           *)
OneCall == [NoLimits EXCEPT !["call"] = 1]

(* Either two schedulers and two jobs see nothing but a lost lock; or one  *)
(* scheduler at a time and one job see any three of the others.            *)
Scenarios ==
    \/ \A k \in Disturbances \ {"lockLoss"} : Spent(k) = 0
    \/ /\ Spent("lockLoss") = 0
       /\ jobs[j2].status = "ABSENT"
       /\ \E s \in Schedulers : sched[s] = Polled
       /\ MapThenSumSet(Spent, Disturbances) <= 3

(* Sound for safety only.                                                  *)
Symmetry == Permutations(Workers) \cup Permutations(Schedulers)
                \cup Permutations(ReplayIds)
================================================================================
