------------------------------- MODULE Monitoring -------------------------------
(***************************************************************************)
(* What the API processes make of the workers table: HealthCheck.ts with   *)
(* detectAndMarkLostWorkers, and the rule NO_ACTIVE_WORKERS of             *)
(* AlertManager.ts.  (Its other rules read counts of queues and are edges  *)
(* of the same kind.)                                                      *)
(***************************************************************************)
EXTENDS WorkerRegistry

CONSTANTS
    Monitors,  \* processes that run a HealthCheck and an AlertManager
    Alerting   \* those whose AlertManager is followed: none looks at another

ASSUME AlertingAssumption == Alerting \subseteq Monitors

VARIABLES
    pending,   \* the lost workers a monitor has still to report
    notified,  \* how often a worker was reported as lost
    counted,   \* what a monitor's evaluation in progress has read
    firing     \* the monitors whose NO_ACTIVE_WORKERS alert is firing

monitorVars == <<pending, notified, counted, firing>>

presenceVars == <<spare, registryVars, monitorVars>>

Quiet == [p \in WorkerIds |-> 0]

PresenceTypeOK ==
    /\ SpareTypeOK
    /\ RegistryTypeOK
    /\ pending \in [Monitors -> [WorkerIds -> Nat]]
    /\ notified \in [WorkerIds -> Nat]
    /\ counted \in [Monitors -> {"nothing", "none", "some"}]
    /\ firing \in SUBSET Monitors

PresenceInit ==
    /\ SpareInit
    /\ RegistryInit
    /\ pending = [c \in Monitors |-> Quiet]
    /\ notified = Quiet
    /\ counted = [c \in Monitors |-> "nothing"]
    /\ firing = {}

--------------------------------------------------------------------------------
addTo(f, S)    == [p \in WorkerIds |-> f[p] + IF p \in S THEN 1 ELSE 0]
takeFrom(f, S) == [p \in WorkerIds |-> f[p] - IF p \in S THEN 1 ELSE 0]

(* One run of HealthCheck: mark, and then report each.  A run that finds   *)
(* nobody changes nothing; a run may start while an earlier one reports.   *)
DetectLost(c) ==
    /\ lostWorkers # {}
    /\ markLostWorkers
    /\ pending' = [pending EXCEPT ![c] = addTo(@, lostWorkers)]
    /\ UNCHANGED <<spare, phase, beats, late, notified, counted, firing>>

(* A mutant of NotifyLost: only if the row still says so.                  *)
NotifyStillLost(c) ==
    \E p \in WorkerIds :
        /\ pending[c][p] > 0
        /\ pending' = [pending EXCEPT ![c] = takeFrom(@, {p})]
        /\ notified' = [notified EXCEPT ![p] = @ + IF rows[p].status = "LOST" THEN 1 ELSE 0]
        /\ UNCHANGED <<spare, registryVars, counted, firing>>

(* Its two sends swallow their errors.                                     *)
notifyWorkerLost(p) == notified' = [notified EXCEPT ![p] = @ + 1]

NotifyLost(c) ==
    \E p \in WorkerIds :
        /\ pending[c][p] > 0
        /\ pending' = [pending EXCEPT ![c] = takeFrom(@, {p})]
        /\ notifyWorkerLost(p)
        /\ UNCHANGED <<spare, registryVars, counted, firing>>

(* findById throws: allSettled swallows it, with the rest of the run.      *)
NotifyFails(c) ==
    \E S \in SUBSET {p \in WorkerIds : pending[c][p] > 0} \ {{}} :
        /\ Suffer("db")
        /\ pending' = [pending EXCEPT ![c] = takeFrom(@, S)]
        /\ UNCHANGED <<registryVars, notified, counted, firing>>

--------------------------------------------------------------------------------
(* A mutant of activeWorkers: every row counts, but OFFLINE.               *)
activeUnlessOffline == {p \in WorkerIds : rows[p].status \notin {Absent, "OFFLINE"}}

activeWorkers == {p \in WorkerIds : rows[p].status \in Active}

(* The rule reads the table, and evaluate() goes on from what it read.     *)
ReadWorkers(c) ==
    /\ c \in Alerting
    /\ counted[c] = "nothing"
    /\ counted' = [counted EXCEPT ![c] = IF activeWorkers = {} THEN "none" ELSE "some"]
    /\ UNCHANGED <<spare, registryVars, pending, notified, firing>>

(* A mutant of alertState: an alert is never resolved.                     *)
alertStateSticky(c) == IF counted[c] = "none" THEN firing \cup {c} ELSE firing

(* Both edges: an alert that starts to fire, and one that is resolved.     *)
alertState(c) == IF counted[c] = "none" THEN firing \cup {c} ELSE firing \ {c}

Evaluate(c) ==
    /\ counted[c] # "nothing"
    /\ firing' = alertState(c)
    /\ counted' = [counted EXCEPT ![c] = "nothing"]
    /\ UNCHANGED <<spare, registryVars, pending, notified>>

(* Another process takes over with no memory of runs and alerts.           *)
Restart(c) ==
    /\ Suffer("restart")
    /\ pending' = [pending EXCEPT ![c] = Quiet]
    /\ counted' = [counted EXCEPT ![c] = "nothing"]
    /\ firing' = firing \ {c}
    /\ UNCHANGED <<registryVars, notified>>

--------------------------------------------------------------------------------
PresenceNext ==
    \/ \E p \in WorkerIds : RegistryStep(p) /\ UNCHANGED monitorVars
    \/ \E c \in Monitors :
         \/ DetectLost(c) \/ NotifyLost(c) \/ NotifyFails(c)
         \/ ReadWorkers(c) \/ Evaluate(c)
         \/ Restart(c)

PresenceSpec == PresenceInit /\ [][PresenceNext]_presenceVars

(* The intervals of heartbeat, health check and alerts fire, and time      *)
(* passes.  Nothing makes a process start, or its shutdown end.            *)
PresenceFairSpec ==
    /\ PresenceSpec
    /\ \A p \in WorkerIds :
         /\ WF_presenceVars(Beats(p) /\ UNCHANGED monitorVars)
         /\ WF_presenceVars(Ages(p) /\ UNCHANGED monitorVars)
    /\ \A c \in Monitors :
         /\ WF_presenceVars(DetectLost(c))
         /\ WF_presenceVars(NotifyLost(c))
         /\ WF_presenceVars(ReadWorkers(c) \/ Evaluate(c))

--------------------------------------------------------------------------------
(* However many monitors look, a worker is reported as lost at most once   *)
(* for its end, once more for each heartbeat that was under way then (it   *)
(* puts the row back), and once for each heartbeat that was held up past   *)
(* the threshold: markLostWorkers takes a row out of what the next run     *)
(* would find.                                                             *)
Ended(p) == IF phase[p] \in {"new", "up"} THEN 0 ELSE 1 + late[p]

ReportsArePaidFor ==
    \A p \in WorkerIds : notified[p] <= Suffered("pause") + Ended(p)

(* A worker that shut down, with no heartbeat under way when it cleared    *)
(* its interval, is OFFLINE once it is gone and stays so: no monitor takes *)
(* it for lost.  (Absent: its start failed.)                               *)
ShutdownHolds ==
    \A p \in WorkerIds :
        phase[p] = "gone" /\ late[p] = 0 /\ Suffered("crash") = 0
            => rows[p].status \in {"OFFLINE", Absent}

(* No worker is reported as lost while it is up, unless it was held up.    *)
LostAlertsAreReal ==
    \A p \in WorkerIds :
        notified[p] > 0 => phase[p] # "up" \/ Suffered("pause") > 0

(* The row of a process that is gone, by a crash or a shutdown, comes to   *)
(* say so and stays that way, even if its last heartbeat overwrote OFFLINE *)
(* or LOST.  Only a crash in the middle of a shutdown may leave DRAINING   *)
(* there: markLostWorkers does not look at such rows.                      *)
GoneIsNoticed ==
    \A p \in WorkerIds :
        <>[](phase[p] = "gone" => \/ rows[p].status \in {Absent, "OFFLINE", "LOST"}
                                  \/ rows[p].status = "DRAINING" /\ Suffered("crash") > 0)

(* A worker marked LOST is reported, unless a statement of the run failed  *)
(* or the monitor went away in the middle of it.                           *)
LossesAreReported ==
    \A p \in WorkerIds :
        rows[p].status = "LOST"
            ~> notified[p] > 0 \/ Suffered("db") + Suffered("restart") > 0

(* A worker marked LOST that is up after all becomes active again.         *)
FalseLossesHeal ==
    \A p \in WorkerIds :
        rows[p].status = "LOST" ~> rows[p].status # "LOST" \/ phase[p] # "up"

(* When every worker is gone, every monitor ends up with the alert firing, *)
(* whatever it had read before and whatever heartbeat still comes in.      *)
OutageIsAlerted ==
    <>[]((\A p \in WorkerIds : phase[p] = "gone") => firing = Alerting)

(* A worker that is up, and not held up, ends the alert.                   *)
AlertIsResolved ==
    \A c \in Alerting : \A p \in WorkerIds :
        phase[p] = "up" ~> c \notin firing \/ phase[p] # "up" \/ Suffered("pause") > 0
================================================================================
