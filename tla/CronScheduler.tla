----------------------------- MODULE CronScheduler -----------------------------
(***************************************************************************)
(* CronScheduler.ts and the table `schedules`, with the requests of        *)
(* api/routes/schedules.ts that change it.  setInterval starts a tick      *)
(* whether or not the previous one has ended, and the row locks of         *)
(* fetchDueSchedules end with its SELECT.                                  *)
(*                                                                         *)
(* The resume request is left out: it destructures the single row that     *)
(* first() returns as an array, throws, and answers 500 without a write.   *)
(***************************************************************************)
EXTENDS ClusterEnvironment, FiniteSets

CONSTANTS
    Schedules,
    Ticks,           \* bound: ticks of one process that may overlap
    MaxOccurrences,  \* bound: how often a schedule falls due
    NoSchedule

ASSUME CronAssumption ==
    /\ NoSchedule \notin Schedules
    /\ MaxOccurrences \in Nat
    /\ IsFiniteSet(Ticks)

VARIABLES
    cron,      \* the processes whose CronScheduler isRunning
    ticks,     \* the ticks in progress
    schedules, \* the table
    occurred,  \* how often a schedule fell due
    created    \* jobs created for a schedule

cronVars == <<cron, ticks, schedules, occurred, created>>

Tick == [todo     : SUBSET Schedules,            \* fetched, not triggered yet
         creating : Schedules \cup {NoSchedule}] \* advanced, job not created yet

(* next_trigger_at against now; total_triggered_count.                     *)
Schedule == [state : {"absent", "active", "paused", "deleted"},
             next  : {"due", "future"},
             count : Nat]

CronTypeOK ==
    /\ cron \in SUBSET Processes
    /\ ticks \in [Processes -> [Ticks -> Tick]]
    /\ schedules \in [Schedules -> Schedule]
    /\ occurred \in [Schedules -> Nat]
    /\ created \in [Schedules -> Nat]

NoTick == [todo |-> {}, creating |-> NoSchedule]

CronInit ==
    /\ cron = {}
    /\ ticks = [p \in Processes |-> [t \in Ticks |-> NoTick]]
    /\ schedules = [s \in Schedules |-> [state |-> "absent", next |-> "future", count |-> 0]]
    /\ occurred = [s \in Schedules |-> 0]
    /\ created = [s \in Schedules |-> 0]

--------------------------------------------------------------------------------
cronStart(p) == cron' = cron \cup {p}

(* Ticks in progress go on.                                                *)
cronStop(p) == cron' = cron \ {p}

dueSchedules == {s \in Schedules : schedules[s].state = "active" /\ schedules[s].next = "due"}

BeginTick(p, t) ==
    /\ p \in cron
    /\ ticks[p][t] = NoTick
    /\ ticks' = [ticks EXCEPT ![p][t].todo = dueSchedules]
    /\ UNCHANGED <<cron, schedules, occurred, created>>

(* Mutants of advanced: the count is not raised; it counts down.           *)
advancedUncounted(row) == [row EXCEPT !.next = "future"]

advancedDown(row) == [row EXCEPT !.next = "future", !.count = @ - 1]

(* The UPDATE of triggerSchedule; next_trigger_at is after now.            *)
advanced(row) == [row EXCEPT !.next = "future", !.count = @ + 1]

(* triggerSchedule advances the schedule first, whatever has become of it  *)
(* since it was fetched ...                                                *)
Advance(p, t, s) ==
    /\ ticks[p][t].creating = NoSchedule
    /\ s \in ticks[p][t].todo
    /\ schedules' = [schedules EXCEPT ![s] = IF @.state = "deleted" THEN @ ELSE advanced(@)]
    /\ ticks' = [ticks EXCEPT ![p][t] = [todo |-> @.todo \ {s}, creating |-> s]]
    /\ UNCHANGED <<cron, occurred, created>>

(* ... and then has the job created.                                       *)
Trigger(p, t) ==
    /\ ticks[p][t].creating # NoSchedule
    /\ created' = [created EXCEPT ![ticks[p][t].creating] = @ + 1]
    /\ ticks' = [ticks EXCEPT ![p][t].creating = NoSchedule]
    /\ UNCHANGED <<cron, schedules, occurred>>

(* A statement throws: tick logs it and drops the rest.                    *)
TickFails(p, t) ==
    /\ ticks[p][t] # NoTick
    /\ Suffer("db")
    /\ ticks' = [ticks EXCEPT ![p][t] = NoTick]
    /\ UNCHANGED <<cron, schedules, occurred, created>>

cronForget(p) ==
    /\ cron' = cron \ {p}
    /\ ticks' = [ticks EXCEPT ![p] = [t \in Ticks |-> NoTick]]
    /\ UNCHANGED <<schedules, occurred, created>>

--------------------------------------------------------------------------------
setState(s, state) ==
    /\ schedules' = [schedules EXCEPT ![s].state = state]
    /\ UNCHANGED <<cron, ticks, occurred, created>>

PostSchedule(s)   == schedules[s].state = "absent" /\ setState(s, "active")
PauseSchedule(s)  == schedules[s].state = "active" /\ setState(s, "paused")
DeleteSchedule(s) == schedules[s].state \in {"active", "paused"} /\ setState(s, "deleted")

(* next_trigger_at is reached.                                             *)
FallDue(s) ==
    /\ schedules[s].state \in {"active", "paused"}
    /\ schedules[s].next = "future"
    /\ occurred[s] < MaxOccurrences
    /\ schedules' = [schedules EXCEPT ![s].next = "due"]
    /\ occurred' = [occurred EXCEPT ![s] = @ + 1]
    /\ UNCHANGED <<cron, ticks, created>>

TickSteps(p) ==
    \E t \in Ticks : \/ BeginTick(p, t)
                     \/ \E s \in Schedules : Advance(p, t, s)
                     \/ Trigger(p, t)

ScheduleRequests(s) == PostSchedule(s) \/ PauseSchedule(s) \/ DeleteSchedule(s)
================================================================================
