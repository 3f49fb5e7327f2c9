----------------------------- MODULE WorkerRegistry -----------------------------
(***************************************************************************)
(* The workers table and the worker processes that write it:               *)
(* WorkerRepository.ts, and start, startHeartbeat and shutdown of          *)
(* WorkerNode.ts.  A process registers a row of its own, so a process that *)
(* starts again is another member of WorkerIds.                            *)
(*                                                                         *)
(* The heartbeat interval does not wait for the statement it sent before,  *)
(* so several may be under way; they may land out of order, and after the  *)
(* end of their process.                                                   *)
(***************************************************************************)
EXTENDS ClusterEnvironment

CONSTANTS
    WorkerIds,     \* processes that run WorkerNode.ts
    MaxHeartbeats  \* bound on the heartbeats of a process under way at once

ASSUME HeartbeatAssumption == MaxHeartbeats \in Nat \ {0}

VARIABLES
    phase,  \* of each process: new, up, then draining and closing, or gone
    rows,   \* its row of the workers table
    beats,  \* heartbeats it has sent and PostgreSQL has not yet applied, by age
    late    \* how many were under way when it stopped sending (history)

registryVars == <<phase, rows, beats, late>>

WorkerStatus == {"ONLINE", "BUSY", "DRAINING", "OFFLINE", "LOST"}

Active == {"ONLINE", "BUSY"}

Absent == "absent"

(* Whether a last_heartbeat_at is within the lost threshold.               *)
Age == {"recent", "stale"}

WorkerRow == [status : WorkerStatus \cup {Absent}, beat : Age]

NoRow == [status |-> Absent, beat |-> "recent"]

RegistryTypeOK ==
    /\ phase \in [WorkerIds -> {"new", "up", "draining", "closing", "gone"}]
    /\ rows \in [WorkerIds -> WorkerRow]
    /\ beats \in [WorkerIds -> [Age -> Nat]]
    /\ late \in [WorkerIds -> Nat]

RegistryInit ==
    /\ phase = [p \in WorkerIds |-> "new"]
    /\ rows = [p \in WorkerIds |-> NoRow]
    /\ beats = [p \in WorkerIds |-> [age \in Age |-> 0]]
    /\ late = [p \in WorkerIds |-> 0]

enter(p, ph) == phase' = [phase EXCEPT ![p] = ph]

UnderWay(p) == beats[p]["recent"] + beats[p]["stale"]

(* The interval is cleared, or gone with its process.                      *)
stopSending(p) ==
    late' = IF phase[p] = "up" THEN [late EXCEPT ![p] = UnderWay(p)] ELSE late

--------------------------------------------------------------------------------
register(p) == rows' = [rows EXCEPT ![p] = [status |-> "ONLINE", beat |-> "recent"]]

(* A mutant of heartbeat: a row once LOST only gets a new timestamp.       *)
heartbeatUnlessLost(p, b) ==
    rows' = [rows EXCEPT ![p] =
                [b EXCEPT !.status = IF rows[p].status = "LOST" THEN "LOST" ELSE @]]

(* The update names the row by its id alone: whatever its status is.       *)
heartbeat(p, b) == rows' = [rows EXCEPT ![p] = b]

updateStatus(p, status) == rows' = [rows EXCEPT ![p].status = status]

(* Mutants of lostWorkers: BUSY is forgotten; the age is; the status is.   *)
lostOnline == {p \in WorkerIds : rows[p].status = "ONLINE" /\ rows[p].beat = "stale"}

lostAnyAge == {p \in WorkerIds : rows[p].status \in Active}

lostAgain == {p \in WorkerIds : rows[p].status # Absent /\ rows[p].beat = "stale"}

lostWorkers ==
    {p \in WorkerIds : rows[p].status \in Active /\ rows[p].beat = "stale"}

(* One statement: of two that run at once the second finds no row left.    *)
markLostWorkers ==
    rows' = [p \in WorkerIds |->
                IF p \in lostWorkers THEN [rows[p] EXCEPT !.status = "LOST"] ELSE rows[p]]

--------------------------------------------------------------------------------
StartWorker(p) ==
    /\ phase[p] = "new"
    /\ enter(p, "up")
    /\ register(p)
    /\ UNCHANGED <<spare, beats, late>>

(* start() rejects and the process exits.                                  *)
StartFails(p) ==
    /\ phase[p] = "new"
    /\ Suffer("db")
    /\ enter(p, "gone")
    /\ UNCHANGED <<rows, beats, late>>

(* A mutant of SendHeartbeat: shutdown() does not clear the interval.      *)
SendHeartbeatToTheEnd(p) ==
    /\ phase[p] \notin {"new", "gone"}
    /\ UnderWay(p) < MaxHeartbeats
    /\ beats' = [beats EXCEPT ![p]["recent"] = @ + 1]
    /\ UNCHANGED <<spare, phase, rows, late>>

(* The timer fires, whatever it sent before.                               *)
SendHeartbeat(p) ==
    /\ phase[p] = "up"
    /\ UnderWay(p) < MaxHeartbeats
    /\ beats' = [beats EXCEPT ![p]["recent"] = @ + 1]
    /\ UNCHANGED <<spare, phase, rows, late>>

(* A statement under way is applied, wherever its process is by now: BUSY  *)
(* or ONLINE, by what the BullMQ worker had answered.                      *)
HeartbeatLands(p, age) ==
    /\ beats[p][age] > 0
    /\ \E s \in Active : heartbeat(p, [status |-> s, beat |-> age])
    /\ beats' = [beats EXCEPT ![p][age] = @ - 1]
    /\ UNCHANGED <<spare, phase, late>>

(* The catch of startHeartbeat.                                            *)
HeartbeatFails(p, age) ==
    /\ beats[p][age] > 0
    /\ Suffer("db")
    /\ beats' = [beats EXCEPT ![p][age] = @ - 1]
    /\ UNCHANGED <<phase, rows, late>>

(* shutdown(): no new heartbeat; DRAINING; close; OFFLINE; exit.           *)
Shutdown(p) ==
    /\ phase[p] = "up"
    /\ Suffer("shutdown")
    /\ stopSending(p)
    /\ enter(p, "draining")
    /\ UNCHANGED <<rows, beats>>

MarkDraining(p) ==
    /\ phase[p] = "draining"
    /\ enter(p, "closing")
    /\ updateStatus(p, "DRAINING")
    /\ UNCHANGED <<spare, beats, late>>

MarkOffline(p) ==
    /\ phase[p] = "closing"
    /\ enter(p, "gone")
    /\ updateStatus(p, "OFFLINE")
    /\ UNCHANGED <<spare, beats, late>>

(* The rejection is an uncaught exception, whose handler shuts down again. *)
ShutdownFails(p) ==
    /\ phase[p] \in {"draining", "closing"}
    /\ Suffer("db")
    /\ enter(p, "draining")
    /\ UNCHANGED <<rows, beats, late>>

CrashWorker(p) ==
    /\ phase[p] \notin {"new", "gone"}
    /\ Suffer("crash")
    /\ stopSending(p)
    /\ enter(p, "gone")
    /\ UNCHANGED <<rows, beats>>

--------------------------------------------------------------------------------
(* The threshold passes for a row, or for a heartbeat under way: if its    *)
(* process is up, that one must have been held up.                         *)
Overdue(p) == IF phase[p] = "up" THEN Suffer("pause") ELSE UNCHANGED spare

RowAges(p) ==
    /\ rows[p].status # Absent
    /\ rows[p].beat = "recent"
    /\ Overdue(p)
    /\ rows' = [rows EXCEPT ![p].beat = "stale"]
    /\ UNCHANGED <<phase, beats, late>>

HeartbeatAges(p) ==
    /\ beats[p]["recent"] > 0
    /\ Overdue(p)
    /\ beats' = [beats EXCEPT ![p]["recent"] = @ - 1, ![p]["stale"] = @ + 1]
    /\ UNCHANGED <<phase, rows, late>>

Beats(p) == SendHeartbeat(p) \/ \E age \in Age : HeartbeatLands(p, age)

Ages(p) == phase[p] # "up" /\ RowAges(p)

RegistryStep(p) ==
    \/ StartWorker(p) \/ StartFails(p)
    \/ Beats(p) \/ \E age \in Age : HeartbeatFails(p, age)
    \/ Shutdown(p) \/ MarkDraining(p) \/ MarkOffline(p) \/ ShutdownFails(p)
    \/ CrashWorker(p)
    \/ RowAges(p) \/ HeartbeatAges(p)
================================================================================
