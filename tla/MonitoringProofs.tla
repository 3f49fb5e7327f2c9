---------------------------- MODULE MonitoringProofs ----------------------------
(***************************************************************************)
(* Proofs about lost workers and how they are reported, for any number of  *)
(* worker processes and monitors, and any number of mishaps.               *)
(***************************************************************************)
EXTENDS Monitoring, Counting

PauseWithinBounds == \A k \in Mishaps : spare[k] <= Bounds[k]

(* What a process that has not started has in the table.                   *)
NewIsAbsent ==
    \A p \in WorkerIds :
        phase[p] = "new" => rows[p] = NoRow /\ \A age \in Age : beats[p][age] = 0

(* Once it has stopped sending, no more heartbeats are under way than then.*)
LateBeats ==
    \A p \in WorkerIds : phase[p] \notin {"new", "up"} => UnderWay(p) <= late[p]

TableInv == RegistryTypeOK /\ NewIsAbsent /\ LateBeats

PresenceInv == PresenceTypeOK /\ PauseWithinBounds /\ NewIsAbsent /\ LateBeats

--------------------------------------------------------------------------------
(* Types.                                                                  *)

(* A step that suffers nothing, or one mishap.                             *)
LEMMA Mishap ==
    ASSUME SpareTypeOK, PauseWithinBounds, UNCHANGED spare \/ \E k \in Mishaps : Suffer(k)
    PROVE  /\ SpareTypeOK' /\ PauseWithinBounds'
           /\ \A k \in Mishaps : /\ Suffered(k) \in Nat /\ Suffered(k)' \in Nat
                                 /\ Suffered(k) <= Suffered(k)'
           /\ \A k \in Mishaps : Suffer(k) => Suffered(k)' = Suffered(k) + 1
<1>1. \A k \in Mishaps : spare[k] \in Nat /\ Bounds[k] \in Nat /\ spare[k] <= Bounds[k]
  BY BoundsAssumption DEF SpareTypeOK, PauseWithinBounds
<1>2. ASSUME NEW k \in Mishaps, Suffer(k)
      PROVE  /\ spare[k] > 0 /\ spare'[k] = spare[k] - 1 /\ spare' \in [Mishaps -> Nat]
             /\ \A i \in Mishaps : i # k => spare'[i] = spare[i]
  BY <1>2 DEF Suffer, SpareTypeOK
<1>3. spare' \in [Mishaps -> Nat] /\ \A k \in Mishaps : spare'[k] <= spare[k]
  BY <1>1, <1>2 DEF SpareTypeOK
<1>4. SpareTypeOK' /\ PauseWithinBounds'
  BY <1>1, <1>3 DEF SpareTypeOK, PauseWithinBounds
<1>5. ASSUME NEW k \in Mishaps
      PROVE  /\ Suffered(k) \in Nat /\ Suffered(k)' \in Nat /\ Suffered(k) <= Suffered(k)'
  BY <1>1, <1>3 DEF Suffered
<1>6. ASSUME NEW k \in Mishaps, Suffer(k) PROVE Suffered(k)' = Suffered(k) + 1
  BY <1>1, <1>2, <1>6 DEF Suffered
<1> QED BY <1>4, <1>5, <1>6

(* Which mishaps the steps suffer.                                         *)
LEMMA MishapSteps ==
    ASSUME [PresenceNext]_presenceVars
    PROVE  UNCHANGED spare \/ \E k \in Mishaps : Suffer(k)
<1>1. {"db", "shutdown", "crash", "pause", "restart"} \subseteq Mishaps
  BY DEF Mishaps
<1>2. ASSUME NEW p \in WorkerIds, RegistryStep(p)
      PROVE  UNCHANGED spare \/ \E k \in {"db", "shutdown", "crash", "pause"} : Suffer(k)
  BY <1>2
     DEF RegistryStep, StartWorker, StartFails, Beats, SendHeartbeat, HeartbeatLands,
         HeartbeatFails, Shutdown, MarkDraining, MarkOffline, ShutdownFails, CrashWorker,
         RowAges, HeartbeatAges, Overdue
<1>3. ASSUME NEW c \in Monitors, \/ DetectLost(c) \/ NotifyLost(c) \/ NotifyFails(c)
                                 \/ ReadWorkers(c) \/ Evaluate(c) \/ Restart(c)
      PROVE  UNCHANGED spare \/ \E k \in {"db", "restart"} : Suffer(k)
  BY <1>3 DEF DetectLost, NotifyLost, NotifyFails, ReadWorkers, Evaluate, Restart
<1> QED BY <1>1, <1>2, <1>3 DEF PresenceNext, presenceVars

(* The counts of heartbeats under way are numbers.                         *)
LEMMA BeatTypes ==
    ASSUME RegistryTypeOK, NEW p \in WorkerIds
    PROVE  /\ beats[p] \in [Age -> Nat] /\ beats[p]["recent"] \in Nat /\ beats[p]["stale"] \in Nat
           /\ UnderWay(p) \in Nat /\ late[p] \in Nat
           /\ rows[p] \in WorkerRow
           /\ phase[p] \in {"new", "up", "draining", "closing", "gone"}
BY DEF RegistryTypeOK, UnderWay, Age

(* What a step of one worker process does to phases, rows and heartbeats.  *)
LEMMA RegistryTypes ==
    ASSUME TableInv, NEW p \in WorkerIds, RegistryStep(p)
    PROVE  /\ TableInv'
           /\ \A q \in WorkerIds : q # p => /\ phase'[q] = phase[q] /\ rows'[q] = rows[q]
                                            /\ beats'[q] = beats[q] /\ late'[q] = late[q]
<1> DEFINE Phases == {"new", "up", "draining", "closing", "gone"}
           Total(b) == b["recent"] + b["stale"]
           Goal == /\ TableInv'
                   /\ \A q \in WorkerIds : q # p => /\ phase'[q] = phase[q] /\ rows'[q] = rows[q]
                                                    /\ beats'[q] = beats[q] /\ late'[q] = late[q]
<1>0. /\ phase \in [WorkerIds -> Phases] /\ rows \in [WorkerIds -> WorkerRow]
      /\ beats \in [WorkerIds -> [Age -> Nat]] /\ late \in [WorkerIds -> Nat]
      /\ rows[p] \in WorkerRow /\ beats[p] \in [Age -> Nat] /\ late[p] \in Nat
      /\ phase[p] \in Phases
  BY DEF TableInv, RegistryTypeOK
<1>1. ASSUME /\ phase' = phase \/ phase' = [phase EXCEPT ![p] = phase'[p]]
             /\ rows' = rows \/ rows' = [rows EXCEPT ![p] = rows'[p]]
             /\ beats' = beats \/ beats' = [beats EXCEPT ![p] = beats'[p]]
             /\ late' = late \/ late' = [late EXCEPT ![p] = late'[p]],
             phase'[p] \in Phases \ {"new"}, rows'[p] \in WorkerRow,
             beats'[p] \in [Age -> Nat], late'[p] \in Nat,
             phase'[p] = "up" \/ Total(beats'[p]) <= late'[p]
      PROVE  Goal
  <2>1. /\ phase' \in [WorkerIds -> Phases] /\ rows' \in [WorkerIds -> WorkerRow]
        /\ beats' \in [WorkerIds -> [Age -> Nat]] /\ late' \in [WorkerIds -> Nat]
    BY <1>0, <1>1
  <2>2. \A q \in WorkerIds : q # p => /\ phase'[q] = phase[q] /\ rows'[q] = rows[q]
                                      /\ beats'[q] = beats[q] /\ late'[q] = late[q]
    BY <1>0, <1>1
  <2>3. NewIsAbsent'
    BY <1>1, <2>1, <2>2 DEF TableInv, NewIsAbsent
  <2>4. LateBeats'
    BY <1>1, <2>1, <2>2 DEF TableInv, LateBeats, UnderWay
  <2> QED BY <2>1, <2>2, <2>3, <2>4 DEF TableInv, RegistryTypeOK
<1>2. /\ \A st \in WorkerStatus : [rows[p] EXCEPT !.status = st] \in WorkerRow
      /\ [rows[p] EXCEPT !.beat = "stale"] \in WorkerRow
      /\ \A s \in Active, age \in Age : [status |-> s, beat |-> age] \in WorkerRow
      /\ "ONLINE" \in Active /\ "recent" \in Age
  BY <1>0 DEF WorkerRow, WorkerStatus, Active, Age
<1>3. /\ phase[p] = "new" => /\ rows[p].status = Absent
                             /\ beats[p]["recent"] = 0 /\ beats[p]["stale"] = 0
      /\ phase[p] \notin {"new", "up"} => Total(beats[p]) <= late[p]
      /\ beats[p]["recent"] \in Nat /\ beats[p]["stale"] \in Nat
  BY <1>0 DEF TableInv, NewIsAbsent, LateBeats, UnderWay, NoRow, Age
<1>4. {"up", "draining", "closing", "gone"} = Phases \ {"new"}
  OBVIOUS
<1>5. Age = {"recent", "stale"}
  BY DEF Age
<1>6. ASSUME StartWorker(p) PROVE Goal
  <2>1. /\ phase' = [phase EXCEPT ![p] = "up"] /\ beats' = beats /\ late' = late
        /\ rows' = [rows EXCEPT ![p] = [status |-> "ONLINE", beat |-> "recent"]]
    BY <1>6 DEF StartWorker, enter, register
  <2>2. phase'[p] = "up" /\ rows'[p] \in WorkerRow /\ rows' = [rows EXCEPT ![p] = rows'[p]]
    BY <1>0, <1>2, <2>1
  <2> HIDE DEF Goal
  <2> QED BY <1>0, <1>1, <2>1, <2>2
<1>7. ASSUME StartFails(p) PROVE Goal
  <2>1. /\ phase' = [phase EXCEPT ![p] = "gone"] /\ rows' = rows /\ beats' = beats /\ late' = late
        /\ Total(beats[p]) <= late[p] /\ phase'[p] = "gone"
    BY <1>0, <1>3, <1>7 DEF StartFails, enter
  <2> HIDE DEF Goal, Total
  <2> QED BY <1>0, <1>1, <2>1
<1>8. ASSUME Shutdown(p) \/ CrashWorker(p) PROVE Goal
  <2>1. /\ phase[p] # "new" /\ phase' = [phase EXCEPT ![p] = phase'[p]]
        /\ phase'[p] \in {"draining", "gone"}
        /\ rows' = rows /\ beats' = beats /\ stopSending(p)
    BY <1>0, <1>8 DEF Shutdown, CrashWorker, enter
  <2>2. Total(beats[p]) \in Nat
    BY <1>3
  <2>3. /\ late' = late \/ late' = [late EXCEPT ![p] = late'[p]]
        /\ late'[p] \in Nat /\ Total(beats[p]) <= late'[p]
    <3>1. CASE phase[p] = "up"
      <4>1. late' = [late EXCEPT ![p] = Total(beats[p])]
        BY <2>1, <3>1 DEF stopSending, UnderWay
      <4> HIDE DEF Total
      <4> QED BY <1>0, <2>2, <4>1
    <3>2. CASE phase[p] # "up"
      BY <1>0, <1>3, <2>1, <3>2 DEF stopSending
    <3> QED BY <3>1, <3>2
  <2> HIDE DEF Goal, Total
  <2> QED BY <1>0, <1>1, <2>1, <2>3
<1>9. ASSUME ShutdownFails(p) PROVE Goal
  <2>1. /\ phase' = [phase EXCEPT ![p] = "draining"] /\ rows' = rows /\ beats' = beats
        /\ late' = late /\ Total(beats[p]) <= late[p] /\ phase'[p] = "draining"
    BY <1>0, <1>3, <1>9 DEF ShutdownFails, enter
  <2> HIDE DEF Goal, Total
  <2> QED BY <1>0, <1>1, <2>1
<1>10. ASSUME beats' = [beats EXCEPT ![p] = beats'[p]], beats'[p] \in [Age -> Nat],
              phase' = phase, late' = late, phase[p] # "new",
              phase[p] = "up" \/ Total(beats'[p]) <= Total(beats[p]),
              rows' = rows \/ rows' = [rows EXCEPT ![p] = rows'[p]], rows'[p] \in WorkerRow
       PROVE  Goal
  <2>1. Total(beats'[p]) \in Nat /\ Total(beats[p]) \in Nat
    BY <1>0, <1>5, <1>10
  <2>2. phase[p] = "up" \/ Total(beats'[p]) <= late[p]
    <3> HIDE DEF Total
    <3> QED BY <1>0, <1>3, <1>10, <2>1
  <2> HIDE DEF Goal, Total
  <2> QED BY <1>0, <1>1, <1>10, <2>2
<1>11. ASSUME SendHeartbeat(p) PROVE Goal
  <2>1. /\ beats' = [beats EXCEPT ![p] = [beats[p] EXCEPT !["recent"] = @ + 1]]
        /\ phase[p] = "up" /\ phase' = phase /\ rows' = rows /\ late' = late
    BY <1>11 DEF SendHeartbeat
  <2>2. beats' = [beats EXCEPT ![p] = beats'[p]] /\ beats'[p] \in [Age -> Nat]
    BY <1>0, <1>5, <2>1
  <2> HIDE DEF Goal, Total
  <2> QED BY <1>0, <1>10, <2>1, <2>2
<1>12. ASSUME NEW age \in Age, HeartbeatLands(p, age) \/ HeartbeatFails(p, age)
       PROVE  Goal
  <2>1. /\ beats[p][age] > 0 /\ phase' = phase /\ late' = late
        /\ beats' = [beats EXCEPT ![p] = [beats[p] EXCEPT ![age] = @ - 1]]
    BY <1>12 DEF HeartbeatLands, HeartbeatFails
  <2>2. /\ beats' = [beats EXCEPT ![p] = beats'[p]] /\ beats'[p] \in [Age -> Nat]
        /\ beats'[p] = [beats[p] EXCEPT ![age] = @ - 1]
    BY <1>0, <1>5, <2>1
  <2>3. Total(beats'[p]) <= Total(beats[p]) /\ phase[p] # "new"
    BY <1>0, <1>3, <1>5, <2>1, <2>2
  <2>4. (rows' = rows \/ rows' = [rows EXCEPT ![p] = rows'[p]]) /\ rows'[p] \in WorkerRow
    BY <1>0, <1>2, <1>12 DEF HeartbeatLands, HeartbeatFails, heartbeat
  <2> HIDE DEF Goal, Total
  <2> QED BY <1>10, <2>1, <2>2, <2>3, <2>4
<1>13. ASSUME MarkDraining(p) \/ MarkOffline(p) PROVE Goal
  <2>1. /\ phase' = [phase EXCEPT ![p] = phase'[p]] /\ phase'[p] \in {"closing", "gone"}
        /\ beats' = beats /\ late' = late /\ phase[p] \notin {"new", "up"}
    BY <1>0, <1>13 DEF MarkDraining, MarkOffline, enter
  <2>2. rows' = [rows EXCEPT ![p] = rows'[p]] /\ rows'[p] \in WorkerRow
    BY <1>0, <1>2, <1>13 DEF MarkDraining, MarkOffline, updateStatus, WorkerStatus
  <2>3. Total(beats[p]) <= late[p]
    BY <1>3, <2>1
  <2> HIDE DEF Goal, Total
  <2> QED BY <1>0, <1>1, <2>1, <2>2, <2>3
<1>14. ASSUME RowAges(p) PROVE Goal
  <2>1. /\ rows' = [rows EXCEPT ![p] = [rows[p] EXCEPT !.beat = "stale"]] /\ phase[p] # "new"
        /\ phase' = phase /\ beats' = beats /\ late' = late
    BY <1>3, <1>14 DEF RowAges
  <2>2. rows' = [rows EXCEPT ![p] = rows'[p]] /\ rows'[p] \in WorkerRow
    BY <1>0, <1>2, <2>1
  <2>3. phase[p] = "up" \/ Total(beats[p]) <= late[p]
    BY <1>3, <2>1
  <2> HIDE DEF Goal, Total
  <2> QED BY <1>0, <1>1, <2>1, <2>2, <2>3
<1>15. ASSUME HeartbeatAges(p) PROVE Goal
  <2>1. /\ beats[p]["recent"] > 0 /\ phase' = phase /\ rows' = rows /\ late' = late
        /\ beats' = [beats EXCEPT ![p]["recent"] = @ - 1, ![p]["stale"] = @ + 1]
    BY <1>15 DEF HeartbeatAges
  <2>2. /\ beats' = [beats EXCEPT ![p] = beats'[p]] /\ beats'[p] \in [Age -> Nat]
        /\ beats'[p]["recent"] = beats[p]["recent"] - 1
        /\ beats'[p]["stale"] = beats[p]["stale"] + 1
    BY <1>0, <1>5, <2>1
  <2>3. phase[p] # "new"
    BY <1>3, <2>1
  <2>4. Total(beats'[p]) <= Total(beats[p])
    BY <1>3, <2>2
  <2> HIDE DEF Goal, Total
  <2> QED BY <1>0, <1>10, <2>1, <2>2, <2>3, <2>4
<1>16. Goal
  <2> HIDE DEF Goal
  <2> QED BY <1>6, <1>7, <1>8, <1>9, <1>11, <1>12, <1>13, <1>14, <1>15 DEF RegistryStep, Beats
<1> QED BY <1>16

(* Lists of workers to report.                                             *)
LEMMA PendingTypes ==
    ASSUME NEW f \in [WorkerIds -> Nat], NEW S \in SUBSET WorkerIds
    PROVE  /\ addTo(f, S) \in [WorkerIds -> Nat]
           /\ (\A p \in S : f[p] > 0) => takeFrom(f, S) \in [WorkerIds -> Nat]
           /\ \A p \in WorkerIds : /\ addTo(f, S)[p] = f[p] + IF p \in S THEN 1 ELSE 0
                                   /\ takeFrom(f, S)[p] = f[p] - IF p \in S THEN 1 ELSE 0
BY DEF addTo, takeFrom

(* Rows that are marked as lost.                                           *)
LEMMA MarkTypes ==
    ASSUME TableInv, markLostWorkers, UNCHANGED <<phase, beats, late>>
    PROVE  /\ TableInv'
           /\ \A p \in WorkerIds :
                rows'[p] = IF p \in lostWorkers THEN [rows[p] EXCEPT !.status = "LOST"]
                                                ELSE rows[p]
<1>1. \A p \in WorkerIds : rows[p] \in WorkerRow /\ [rows[p] EXCEPT !.status = "LOST"] \in WorkerRow
  BY DEF TableInv, RegistryTypeOK, WorkerRow, WorkerStatus
<1>2. \A p \in WorkerIds : phase[p] = "new" => p \notin lostWorkers
  BY DEF TableInv, NewIsAbsent, lostWorkers, NoRow, Absent, Active
<1>3. \A p \in WorkerIds :
        rows'[p] = IF p \in lostWorkers THEN [rows[p] EXCEPT !.status = "LOST"] ELSE rows[p]
  BY DEF markLostWorkers
<1>4. rows' \in [WorkerIds -> WorkerRow]
  BY <1>1 DEF markLostWorkers
<1> QED BY <1>2, <1>3, <1>4 DEF TableInv, RegistryTypeOK, NewIsAbsent, LateBeats, UnderWay

(* The steps of a monitor.                                                 *)
LEMMA MonitorTypes ==
    ASSUME PresenceInv, NEW c \in Monitors,
           \/ DetectLost(c) \/ NotifyLost(c) \/ NotifyFails(c)
           \/ ReadWorkers(c) \/ Evaluate(c) \/ Restart(c)
    PROVE  /\ TableInv'
           /\ pending' \in [Monitors -> [WorkerIds -> Nat]]
           /\ notified' \in [WorkerIds -> Nat]
           /\ counted' \in [Monitors -> {"nothing", "none", "some"}]
           /\ firing' \in SUBSET Monitors
<1> USE DEF PresenceInv, PresenceTypeOK
<1>0. pending[c] \in [WorkerIds -> Nat]
  OBVIOUS
<1>b. TableInv
  BY DEF TableInv
<1>1. ASSUME UNCHANGED registryVars PROVE TableInv'
  BY <1>b, <1>1 DEF registryVars, TableInv, RegistryTypeOK, NewIsAbsent, LateBeats, UnderWay
<1>2. CASE DetectLost(c)
  <2>1. addTo(pending[c], lostWorkers) \in [WorkerIds -> Nat]
    BY <1>0, PendingTypes DEF lostWorkers
  <2>2. TableInv'
    BY <1>b, <1>2, MarkTypes DEF DetectLost
  <2> QED BY <1>2, <2>1, <2>2 DEF DetectLost
<1>3. CASE NotifyLost(c)
  <2>1. PICK p \in WorkerIds : /\ pending[c][p] > 0
                               /\ pending' = [pending EXCEPT ![c] = takeFrom(@, {p})]
                               /\ notifyWorkerLost(p)
                               /\ UNCHANGED <<spare, registryVars, counted, firing>>
    BY <1>3 DEF NotifyLost
  <2>2. takeFrom(pending[c], {p}) \in [WorkerIds -> Nat]
    <3>1. {p} \in SUBSET WorkerIds /\ \A q \in {p} : pending[c][q] > 0
      BY <2>1
    <3> QED BY <1>0, <3>1, PendingTypes
  <2>3. notified' \in [WorkerIds -> Nat]
    BY <2>1 DEF notifyWorkerLost
  <2>4. pending' \in [Monitors -> [WorkerIds -> Nat]]
    BY <2>1, <2>2
  <2> QED BY <1>1, <2>1, <2>3, <2>4
<1>4. CASE NotifyFails(c)
  <2>1. PICK S \in SUBSET {p \in WorkerIds : pending[c][p] > 0} :
               /\ pending' = [pending EXCEPT ![c] = takeFrom(@, S)]
               /\ UNCHANGED <<registryVars, notified, counted, firing>>
    BY <1>4 DEF NotifyFails
  <2>2. takeFrom(pending[c], S) \in [WorkerIds -> Nat]
    BY <1>0, PendingTypes
  <2> QED BY <1>1, <2>1, <2>2
<1>5. CASE ReadWorkers(c)
  BY <1>1, <1>5 DEF ReadWorkers
<1>6. CASE Evaluate(c)
  BY <1>1, <1>6 DEF Evaluate, alertState
<1>7. CASE Restart(c)
  BY <1>1, <1>7 DEF Restart, Quiet
<1> QED BY <1>2, <1>3, <1>4, <1>5, <1>6, <1>7

(* The invariant of the tables of workers and monitors.                    *)
LEMMA PresenceStep == PresenceInv /\ [PresenceNext]_presenceVars => PresenceInv'
<1> SUFFICES ASSUME PresenceInv, [PresenceNext]_presenceVars PROVE PresenceInv'
  OBVIOUS
<1>1. SpareTypeOK' /\ PauseWithinBounds'
  BY Mishap, MishapSteps DEF PresenceInv, PresenceTypeOK
<1>2. ASSUME NEW p \in WorkerIds, RegistryStep(p), UNCHANGED monitorVars PROVE PresenceInv'
  BY <1>1, <1>2, RegistryTypes DEF PresenceInv, PresenceTypeOK, TableInv, monitorVars
<1>3. ASSUME NEW c \in Monitors, \/ DetectLost(c) \/ NotifyLost(c) \/ NotifyFails(c)
                                 \/ ReadWorkers(c) \/ Evaluate(c) \/ Restart(c)
      PROVE  PresenceInv'
  BY <1>1, <1>3, MonitorTypes DEF PresenceInv, PresenceTypeOK, TableInv
<1>4. CASE UNCHANGED presenceVars
  BY <1>1, <1>4
     DEF PresenceInv, PresenceTypeOK, RegistryTypeOK, NewIsAbsent, LateBeats, UnderWay,
         presenceVars, registryVars, monitorVars
<1> QED BY <1>2, <1>3, <1>4 DEF PresenceNext

(* It holds in every behaviour.                                            *)
THEOREM PresenceInvariant == PresenceSpec => []PresenceInv
<1>1. PresenceInit => PresenceInv
  <2> SUFFICES ASSUME PresenceInit PROVE PresenceInv
    OBVIOUS
  <2>1. SpareTypeOK /\ PauseWithinBounds
    BY BoundsAssumption DEF PresenceInit, SpareInit, SpareTypeOK, PauseWithinBounds
  <2>2. RegistryTypeOK /\ NewIsAbsent /\ LateBeats
    BY DEF PresenceInit, RegistryInit, RegistryTypeOK, NewIsAbsent, LateBeats, NoRow, WorkerRow, Age
  <2>3. /\ pending \in [Monitors -> [WorkerIds -> Nat]] /\ notified \in [WorkerIds -> Nat]
        /\ counted \in [Monitors -> {"nothing", "none", "some"}] /\ firing \in SUBSET Monitors
    BY DEF PresenceInit, Quiet
  <2> QED BY <2>1, <2>2, <2>3 DEF PresenceInv, PresenceTypeOK
<1> QED BY <1>1, PresenceStep, PTL DEF PresenceSpec

(* Rows, heartbeats under way and reports keep their types.                *)
THEOREM PresenceTypeCorrect == PresenceSpec => []PresenceTypeOK
<1>1. PresenceInv => PresenceTypeOK
  BY DEF PresenceInv
<1> QED BY <1>1, PresenceInvariant, PTL

--------------------------------------------------------------------------------
(* Reports.  What may still lead to a report of a worker as lost: reports  *)
(* a monitor owes, a row that a run may mark, heartbeats under way that    *)
(* may make such a row.  While a worker is up a row or a heartbeat counts  *)
(* only once it is stale, and then it was held up.                         *)

Owed(p) == {o \in Monitors \X (Nat \ {0}) : o[2] <= pending[o[1]][p]}

RowAtRisk(p)  == rows[p].status \in Active /\ (phase[p] = "up" => rows[p].beat = "stale")

BeatsAtRisk(p) == IF phase[p] = "up" THEN beats[p]["stale"] ELSE UnderWay(p)

Bit(b) == IF b THEN 1 ELSE 0

Risk(p) == Bit(RowAtRisk(p)) + BeatsAtRisk(p)

LossInv ==
    \A p \in WorkerIds :
        /\ IsFiniteSet(Owed(p))
        /\ notified[p] + Cardinality(Owed(p)) + Risk(p) <= Suffered("pause") + Ended(p)

(* Risks and ends are numbers, before a step and after it.                 *)
LEMMA RiskTypes ==
    ASSUME TableInv, NEW p \in WorkerIds
    PROVE  Risk(p) \in Nat /\ Ended(p) \in Nat /\ BeatsAtRisk(p) \in Nat
<1>1. BeatsAtRisk(p) \in Nat /\ Ended(p) \in Nat
  BY BeatTypes DEF TableInv, BeatsAtRisk, Ended
<1>2. Bit(RowAtRisk(p)) \in {0, 1}
  BY DEF Bit
<1> QED BY <1>1, <1>2 DEF Risk

LEMMA RiskTypesNext ==
    ASSUME TableInv', NEW p \in WorkerIds
    PROVE  Risk(p)' \in Nat /\ Ended(p)' \in Nat /\ BeatsAtRisk(p)' \in Nat
<1>1. /\ beats'[p]["recent"] \in Nat /\ beats'[p]["stale"] \in Nat /\ late'[p] \in Nat
  BY DEF TableInv, RegistryTypeOK, Age
<1>2. BeatsAtRisk(p)' \in Nat /\ Ended(p)' \in Nat
  BY <1>1 DEF BeatsAtRisk, UnderWay, Ended
<1>3. Bit(RowAtRisk(p)') \in {0, 1} /\ Risk(p)' = Bit(RowAtRisk(p)') + BeatsAtRisk(p)'
  BY DEF Bit, Risk
<1> QED BY <1>2, <1>3

(* A step of a worker process raises its risk only by being held up, or by *)
(* ending, which pays for the row and for the heartbeats then under way.   *)
LEMMA RiskSteps ==
    ASSUME TableInv, TableInv', NEW p \in WorkerIds, RegistryStep(p)
    PROVE  \/ Risk(p)' <= Risk(p) /\ Ended(p)' = Ended(p)
           \/ Ended(p) = 0 /\ Risk(p)' <= Ended(p)'
           \/ Suffer("pause") /\ Risk(p)' <= Risk(p) + 1 /\ Ended(p)' = Ended(p)
<1> DEFINE r == RowAtRisk(p)  r1 == RowAtRisk(p)'
           b == BeatsAtRisk(p)  b1 == BeatsAtRisk(p)'
           x == beats[p]["recent"]  y == beats[p]["stale"]
           x1 == beats'[p]["recent"]  y1 == beats'[p]["stale"]
<1>a. /\ Risk(p) = Bit(r) + b /\ Risk(p)' = Bit(r1) + b1
      /\ b \in Nat /\ b1 \in Nat /\ x \in Nat /\ y \in Nat /\ x1 \in Nat /\ y1 \in Nat
      /\ Risk(p) \in Nat /\ Risk(p)' \in Nat
  BY RiskTypes, RiskTypesNext DEF Risk, Bit, TableInv, RegistryTypeOK, Age
<1>b. /\ phase \in [WorkerIds -> {"new", "up", "draining", "closing", "gone"}]
      /\ rows \in [WorkerIds -> WorkerRow] /\ rows[p] \in WorkerRow
      /\ beats \in [WorkerIds -> [Age -> Nat]] /\ late \in [WorkerIds -> Nat]
      /\ "recent" \in Age /\ "stale" \in Age /\ Age = {"recent", "stale"}
  BY DEF TableInv, RegistryTypeOK, Age
<1>c. phase[p] = "new" => rows[p] = NoRow /\ x = 0 /\ y = 0
  BY <1>b DEF TableInv, NewIsAbsent
<1>d. NoRow.status \notin Active /\ NoRow.status = Absent
  BY DEF NoRow, Active, Absent
<1>e. ASSUME r1 => r, b1 <= b PROVE Risk(p)' <= Risk(p)
  <2> HIDE DEF r, r1, b, b1
  <2> QED BY <1>a, <1>e DEF Bit
<1>f. ASSUME \/ (r1 => r) /\ b1 <= b + 1
             \/ b1 <= b
      PROVE  Risk(p)' <= Risk(p) + 1
  <2> HIDE DEF r, r1, b, b1
  <2> QED BY <1>a, <1>f DEF Bit
<1>g. /\ b = (IF phase[p] = "up" THEN y ELSE x + y)
      /\ b1 = (IF phase'[p] = "up" THEN y1 ELSE x1 + y1)
  BY DEF BeatsAtRisk, UnderWay
<1>1. CASE StartWorker(p)
  <2>1. ~ r1 /\ Ended(p)' = Ended(p) /\ phase'[p] = "up" /\ y1 = 0
    BY <1>1, <1>b, <1>c DEF StartWorker, enter, register, RowAtRisk, Ended
  <2>2. b1 <= b
    BY <1>a, <1>g, <2>1
  <2> QED BY <1>e, <2>1, <2>2
<1>2. CASE StartFails(p)
  <2>1. Ended(p) = 0 /\ ~ r1 /\ phase'[p] = "gone" /\ x1 = 0 /\ y1 = 0
    BY <1>2, <1>b, <1>c, <1>d DEF StartFails, enter, RowAtRisk, Ended
  <2>2. b1 = 0 /\ Risk(p)' = 0
    BY <1>a, <1>g, <2>1 DEF Bit
  <2>3. Ended(p)' \in Nat
    BY RiskTypesNext
  <2> QED BY <2>1, <2>2, <2>3
<1>3. CASE Shutdown(p) \/ CrashWorker(p)
  <2>1. /\ phase'[p] \notin {"new", "up"} /\ rows' = rows /\ beats' = beats /\ stopSending(p)
        /\ phase[p] # "new"
    BY <1>3, <1>b DEF Shutdown, CrashWorker, enter
  <2>2. CASE phase[p] = "up"
    <3>1. Ended(p) = 0 /\ late'[p] = x + y /\ Ended(p)' = 1 + (x + y)
      BY <1>b, <2>1, <2>2 DEF Ended, stopSending, UnderWay
    <3>2. b1 = x + y
      BY <1>g, <2>1
    <3>3. Risk(p)' <= 1 + (x + y)
      <4> HIDE DEF r, r1, b, b1, x, y
      <4> QED BY <1>a, <3>2 DEF Bit
    <3> QED BY <3>1, <3>3
  <2>3. CASE phase[p] # "up"
    <3>1. (r1 => r) /\ Ended(p)' = Ended(p)
      BY <1>b, <2>1, <2>3 DEF stopSending, Ended, RowAtRisk
    <3>2. b1 <= b
      BY <1>a, <1>g, <2>1, <2>3
    <3> QED BY <1>e, <3>1, <3>2
  <2> QED BY <2>2, <2>3
<1>4. CASE SendHeartbeat(p)
  <2>1. (r1 => r) /\ Ended(p)' = Ended(p) /\ phase[p] = "up" /\ phase'[p] = "up" /\ y1 = y
    BY <1>4, <1>b DEF SendHeartbeat, RowAtRisk, Ended
  <2>2. b1 <= b
    BY <1>a, <1>g, <2>1
  <2> QED BY <1>e, <2>1, <2>2
<1>5. ASSUME NEW age \in Age, HeartbeatLands(p, age)
      PROVE  Risk(p)' <= Risk(p) /\ Ended(p)' = Ended(p)
  <2>1. /\ Ended(p)' = Ended(p) /\ phase' = phase
        /\ age = "recent" => x > 0 /\ x1 = x - 1 /\ y1 = y
        /\ age = "stale" => y > 0 /\ y1 = y - 1 /\ x1 = x
        /\ r1 => phase[p] # "up" \/ age = "stale"
    BY <1>5, <1>b DEF HeartbeatLands, heartbeat, RowAtRisk, Ended
  <2>2. CASE r1
    <3>1. b1 + 1 <= b
      BY <1>a, <1>b, <1>g, <2>1, <2>2
    <3> HIDE DEF r, r1, b, b1
    <3> QED BY <1>a, <2>1, <2>2, <3>1 DEF Bit
  <2>3. CASE ~ r1
    <3>1. b1 <= b
      BY <1>a, <1>b, <1>g, <2>1
    <3> HIDE DEF r, r1, b, b1
    <3> QED BY <1>e, <2>1, <2>3, <3>1
  <2> QED BY <2>2, <2>3
<1>6. ASSUME NEW age \in Age, HeartbeatFails(p, age)
      PROVE  Risk(p)' <= Risk(p) /\ Ended(p)' = Ended(p)
  <2>1. /\ Ended(p)' = Ended(p) /\ phase' = phase /\ (r1 => r)
        /\ age = "recent" => x > 0 /\ x1 = x - 1 /\ y1 = y
        /\ age = "stale" => y > 0 /\ y1 = y - 1 /\ x1 = x
    BY <1>6, <1>b DEF HeartbeatFails, RowAtRisk, Ended
  <2>2. b1 <= b
    BY <1>a, <1>b, <1>g, <2>1
  <2> QED BY <1>e, <2>1, <2>2
<1>7. CASE MarkDraining(p) \/ MarkOffline(p)
  <2>1. /\ ~ r1 /\ Ended(p)' = Ended(p) /\ x1 = x /\ y1 = y
        /\ phase[p] # "up" /\ phase'[p] # "up"
    BY <1>7, <1>b DEF MarkDraining, MarkOffline, enter, updateStatus, RowAtRisk, Ended,
                      WorkerRow, Active
  <2>2. b1 <= b
    BY <1>a, <1>g, <2>1
  <2> QED BY <1>e, <2>1, <2>2
<1>8. CASE ShutdownFails(p)
  <2>1. /\ (r1 => r) /\ Ended(p)' = Ended(p) /\ x1 = x /\ y1 = y
        /\ phase[p] # "up" /\ phase'[p] # "up"
    BY <1>8, <1>b DEF ShutdownFails, enter, RowAtRisk, Ended
  <2>2. b1 <= b
    BY <1>a, <1>g, <2>1
  <2> QED BY <1>e, <2>1, <2>2
<1>9. CASE RowAges(p)
  <2>1. phase' = phase /\ x1 = x /\ y1 = y /\ Ended(p)' = Ended(p)
    BY <1>9, <1>b DEF RowAges, Ended
  <2>2. b1 <= b
    BY <1>a, <1>g, <2>1
  <2>3. CASE phase[p] = "up"
    BY <1>9, <1>f, <2>1, <2>2, <2>3 DEF RowAges, Overdue
  <2>4. CASE phase[p] # "up"
    <3>1. r1 => r
      BY <1>9, <1>b, <2>4 DEF RowAges, RowAtRisk, WorkerRow
    <3> QED BY <1>e, <2>1, <2>2, <3>1
  <2> QED BY <2>3, <2>4
<1>10. CASE HeartbeatAges(p)
  <2>1. /\ phase' = phase /\ (r1 => r) /\ Ended(p)' = Ended(p)
        /\ x > 0 /\ x1 = x - 1 /\ y1 = y + 1
    BY <1>10, <1>b DEF HeartbeatAges, RowAtRisk, Ended
  <2>2. b1 <= b + 1 /\ (phase[p] # "up" => b1 <= b)
    BY <1>a, <1>g, <2>1
  <2>3. CASE phase[p] = "up"
    BY <1>10, <1>f, <2>1, <2>2, <2>3 DEF HeartbeatAges, Overdue
  <2>4. CASE phase[p] # "up"
    BY <1>e, <2>1, <2>2, <2>4
  <2> QED BY <2>3, <2>4
<1> QED
  BY <1>1, <1>2, <1>3, <1>4, <1>5, <1>6, <1>7, <1>8, <1>9, <1>10 DEF RegistryStep, Beats

(* A step of a worker process keeps the balance of every worker.           *)
LEMMA LossRegistry ==
    ASSUME PresenceInv, LossInv, NEW q \in WorkerIds, RegistryStep(q), UNCHANGED monitorVars,
           NEW p \in WorkerIds
    PROVE  /\ IsFiniteSet(Owed(p)')
           /\ notified'[p] + Cardinality(Owed(p)') + Risk(p)' <= Suffered("pause")' + Ended(p)'
<1> DEFINE n == notified[p]  o == Cardinality(Owed(p))  r == Risk(p)  r1 == Risk(p)'
           s == Suffered("pause")  s1 == Suffered("pause")'  e == Ended(p)  e1 == Ended(p)'
<1>1. Owed(p)' = Owed(p) /\ notified' = notified /\ IsFiniteSet(Owed(p))
  BY DEF monitorVars, Owed, LossInv
<1>0. TableInv /\ TableInv'
  <2>1. TableInv
    BY DEF PresenceInv, PresenceTypeOK, TableInv
  <2> QED BY <2>1, RegistryTypes
<1>2. /\ n \in Nat /\ o \in Nat /\ n + o + r <= s + e
      /\ r \in Nat /\ r1 \in Nat /\ e \in Nat /\ e1 \in Nat
  <2>1. r \in Nat /\ e \in Nat /\ r1 \in Nat /\ e1 \in Nat
    BY <1>0, RiskTypes, RiskTypesNext
  <2> QED BY <1>1, <2>1, FS_CardinalityType DEF LossInv, PresenceInv, PresenceTypeOK
<1>3. s \in Nat /\ s1 \in Nat /\ s <= s1 /\ (Suffer("pause") => s1 = s + 1)
  <2>1. UNCHANGED spare \/ \E k \in Mishaps : Suffer(k)
    BY MishapSteps DEF PresenceNext
  <2>2. "pause" \in Mishaps
    BY DEF Mishaps
  <2> QED BY <2>1, <2>2, Mishap DEF PresenceInv, PresenceTypeOK
<1>4. \/ r1 <= r /\ e1 = e
      \/ e = 0 /\ r1 <= e1
      \/ Suffer("pause") /\ r1 <= r + 1 /\ e1 = e
  <2>1. CASE p = q
    BY <1>0, <2>1, RiskSteps
  <2>2. CASE p # q
    <3>1. /\ phase'[p] = phase[p] /\ rows'[p] = rows[p] /\ beats'[p] = beats[p]
          /\ late'[p] = late[p]
      BY <1>0, <2>2, RegistryTypes
    <3>2. r1 = r /\ e1 = e
      BY <3>1 DEF Risk, Bit, RowAtRisk, BeatsAtRisk, UnderWay, Ended
    <3> HIDE DEF r, r1, e, e1
    <3> QED BY <1>2, <3>2
  <2> QED BY <2>1, <2>2
<1>5. n + o + r1 <= s1 + e1
  <2> HIDE DEF n, o, r, r1, s, s1, e, e1
  <2>1. CASE r1 <= r /\ e1 = e
    BY <1>2, <1>3, <2>1
  <2>2. CASE e = 0 /\ r1 <= e1
    BY <1>2, <1>3, <2>2
  <2>3. CASE Suffer("pause") /\ r1 <= r + 1 /\ e1 = e
    BY <1>2, <1>3, <2>3
  <2> QED BY <1>4, <2>1, <2>2, <2>3
<1> QED BY <1>1, <1>5

(* A monitor's list for a worker: what it owes.                            *)
LEMMA OwedSteps ==
    ASSUME PresenceInv, NEW c \in Monitors, NEW f \in [WorkerIds -> Nat],
           pending' = [pending EXCEPT ![c] = f], NEW p \in WorkerIds, IsFiniteSet(Owed(p))
    PROVE  /\ f[p] = pending[c][p] + 1 =>
                IsFiniteSet(Owed(p)') /\ Cardinality(Owed(p)') = Cardinality(Owed(p)) + 1
           /\ f[p] + 1 = pending[c][p] =>
                IsFiniteSet(Owed(p)') /\ Cardinality(Owed(p)') = Cardinality(Owed(p)) - 1
           /\ f[p] <= pending[c][p] =>
                IsFiniteSet(Owed(p)') /\ Cardinality(Owed(p)') <= Cardinality(Owed(p))
<1>0. /\ \A d \in Monitors : pending[d][p] \in Nat
      /\ \A d \in Monitors : pending'[d][p] = IF d = c THEN f[p] ELSE pending[d][p]
      /\ f[p] \in Nat /\ pending[c][p] \in Nat
  BY DEF PresenceInv, PresenceTypeOK
<1>a. /\ \A d \in Monitors, i \in Nat \ {0} : <<d, i>> \in Owed(p) <=> i <= pending[d][p]
      /\ \A d \in Monitors, i \in Nat \ {0} : <<d, i>> \in Owed(p)' <=> i <= pending'[d][p]
      /\ \A o \in Owed(p) \cup Owed(p)' :
            \E d \in Monitors, i \in Nat \ {0} : o = <<d, i>>
  BY DEF Owed
<1>1. ASSUME f[p] = pending[c][p] + 1
      PROVE  IsFiniteSet(Owed(p)') /\ Cardinality(Owed(p)') = Cardinality(Owed(p)) + 1
  <2> DEFINE x == <<c, f[p]>>
  <2>1. x \notin Owed(p) /\ x \in Owed(p)'
    BY <1>0, <1>a, <1>1
  <2>2. \A d \in Monitors, i \in Nat \ {0} :
          <<d, i>> # x => (i <= pending'[d][p] <=> i <= pending[d][p])
    BY <1>0, <1>1
  <2> HIDE DEF x
  <2>3. \A y : y # x => (y \in Owed(p)' <=> y \in Owed(p))
    BY <1>a, <2>2
  <2> QED BY <2>1, <2>3, OneMember
<1>2. ASSUME f[p] + 1 = pending[c][p]
      PROVE  IsFiniteSet(Owed(p)') /\ Cardinality(Owed(p)') = Cardinality(Owed(p)) - 1
  <2> DEFINE x == <<c, pending[c][p]>>
  <2>1. x \in Owed(p) /\ x \notin Owed(p)'
    BY <1>0, <1>a, <1>2
  <2>2. \A d \in Monitors, i \in Nat \ {0} :
          <<d, i>> # x => (i <= pending'[d][p] <=> i <= pending[d][p])
    BY <1>0, <1>2
  <2> HIDE DEF x
  <2>3. \A y : y # x => (y \in Owed(p)' <=> y \in Owed(p))
    BY <1>a, <2>2
  <2> QED BY <2>1, <2>3, OneMember
<1>3. ASSUME f[p] <= pending[c][p]
      PROVE  IsFiniteSet(Owed(p)') /\ Cardinality(Owed(p)') <= Cardinality(Owed(p))
  <2>1. \A d \in Monitors, i \in Nat \ {0} : i <= pending'[d][p] => i <= pending[d][p]
    BY <1>0, <1>3
  <2>2. Owed(p)' \in SUBSET Owed(p)
    BY <1>a, <2>1
  <2> QED BY <2>2, FS_Subset
<1> QED BY <1>1, <1>2, <1>3

(* A run that marks a row takes the row out of what another may mark, and  *)
(* owes the report; a report made is no longer owed.                       *)
LEMMA LossMonitor ==
    ASSUME PresenceInv, LossInv, NEW c \in Monitors, NEW p \in WorkerIds,
           \/ DetectLost(c) \/ NotifyLost(c) \/ NotifyFails(c)
           \/ ReadWorkers(c) \/ Evaluate(c) \/ Restart(c)
    PROVE  /\ IsFiniteSet(Owed(p)')
           /\ notified'[p] + Cardinality(Owed(p)') + Risk(p)' <= Suffered("pause")' + Ended(p)'
<1> DEFINE n == notified[p]  n1 == notified'[p]
           o == Cardinality(Owed(p))  o1 == Cardinality(Owed(p)')
           r == Risk(p)  r1 == Risk(p)'
           s == Suffered("pause")  s1 == Suffered("pause")'  e == Ended(p)  e1 == Ended(p)'
           Goal == IsFiniteSet(Owed(p)') /\ n1 + o1 + r1 <= s1 + e1
<1>1. IsFiniteSet(Owed(p)) /\ pending[c] \in [WorkerIds -> Nat]
  BY DEF LossInv, PresenceInv, PresenceTypeOK
<1>0. TableInv
  BY DEF PresenceInv, PresenceTypeOK, TableInv
<1>2. n \in Nat /\ o \in Nat /\ n + o + r <= s + e /\ r \in Nat /\ e \in Nat
  BY <1>0, <1>1, RiskTypes, FS_CardinalityType DEF LossInv, PresenceInv, PresenceTypeOK
<1>3. s \in Nat /\ s1 \in Nat /\ s <= s1
  <2>1. UNCHANGED spare \/ \E k \in Mishaps : Suffer(k)
    BY MishapSteps DEF PresenceNext
  <2>2. "pause" \in Mishaps
    BY DEF Mishaps
  <2> QED BY <2>1, <2>2, Mishap DEF PresenceInv, PresenceTypeOK
<1>4. ASSUME UNCHANGED registryVars PROVE r1 = r /\ e1 = e
  BY <1>4 DEF registryVars, Risk, Bit, RowAtRisk, BeatsAtRisk, UnderWay, Ended
<1>5. ASSUME IsFiniteSet(Owed(p)'), n1 + o1 + r1 <= n + o + r, e1 = e,
             n1 \in Nat, r1 \in Nat
      PROVE  Goal
  <2>1. o1 \in Nat
    BY <1>5, FS_CardinalityType
  <2> HIDE DEF n, n1, o, o1, r, r1, s, s1, e, e1
  <2> QED BY <1>2, <1>3, <1>5, <2>1
<1>6. ASSUME IsFiniteSet(Owed(p)'), o1 <= o, n1 = n, UNCHANGED registryVars PROVE Goal
  <2>1. r1 = r /\ e1 = e /\ o1 \in Nat
    BY <1>4, <1>6, FS_CardinalityType
  <2>2. n1 + o1 + r1 <= n + o + r /\ n1 \in Nat /\ r1 \in Nat
    <3> HIDE DEF n, n1, o, o1, r, r1, s, s1, e, e1
    <3> QED BY <1>2, <1>6, <2>1
  <2> HIDE DEF Goal
  <2> QED BY <1>5, <1>6, <2>1, <2>2
<1>7. ASSUME DetectLost(c) PROVE Goal
  <2>1. /\ pending' = [pending EXCEPT ![c] = addTo(pending[c], lostWorkers)]
        /\ phase' = phase /\ beats' = beats /\ late' = late /\ n1 = n
        /\ rows'[p] = IF p \in lostWorkers THEN [rows[p] EXCEPT !.status = "LOST"] ELSE rows[p]
    BY <1>0, <1>7, MarkTypes DEF DetectLost
  <2>2. /\ addTo(pending[c], lostWorkers) \in [WorkerIds -> Nat]
        /\ addTo(pending[c], lostWorkers)[p] = pending[c][p] + IF p \in lostWorkers THEN 1 ELSE 0
        /\ pending[c][p] \in Nat
    <3>1. lostWorkers \in SUBSET WorkerIds
      BY DEF lostWorkers
    <3> HIDE DEF lostWorkers
    <3> QED BY <1>1, <3>1, PendingTypes
  <2>3. e1 = e
    BY <2>1 DEF Ended
  <2>4. CASE p \in lostWorkers
    <3>1. IsFiniteSet(Owed(p)') /\ o1 = o + 1
      BY <1>1, <2>1, <2>2, <2>4, OwedSteps
    <3>2. RowAtRisk(p) /\ ~ RowAtRisk(p)' /\ BeatsAtRisk(p)' = BeatsAtRisk(p)
      BY <2>1, <2>4
         DEF lostWorkers, RowAtRisk, BeatsAtRisk, UnderWay, PresenceInv, PresenceTypeOK,
             RegistryTypeOK, WorkerRow, Active
    <3>3. r1 + 1 = r /\ r1 \in Nat
      BY <1>0, <3>2, RiskTypes DEF Risk, Bit
    <3>4. n1 + o1 + r1 <= n + o + r /\ n1 \in Nat
      <4> HIDE DEF n, n1, o, o1, r, r1
      <4> QED BY <1>2, <2>1, <3>1, <3>3
    <3> HIDE DEF Goal
    <3> QED BY <1>5, <2>3, <3>1, <3>3, <3>4
  <2>5. CASE p \notin lostWorkers
    <3>1. IsFiniteSet(Owed(p)') /\ o1 <= o /\ o1 \in Nat
      <4>1. addTo(pending[c], lostWorkers)[p] <= pending[c][p]
        BY <2>2, <2>5
      <4>2. IsFiniteSet(Owed(p)') /\ o1 <= o
        BY <1>1, <2>1, <2>2, <4>1, OwedSteps
      <4> QED BY <4>2, FS_CardinalityType
    <3>2. r1 = r
      BY <2>1, <2>5 DEF Risk, Bit, RowAtRisk, BeatsAtRisk, UnderWay
    <3>3. n1 + o1 + r1 <= n + o + r /\ n1 \in Nat /\ r1 \in Nat
      <4> HIDE DEF n, n1, o, o1, r, r1
      <4> QED BY <1>2, <2>1, <3>1, <3>2
    <3> HIDE DEF Goal
    <3> QED BY <1>5, <2>3, <3>1, <3>3
  <2> QED BY <2>4, <2>5
<1>8. ASSUME NotifyLost(c) PROVE Goal
  <2>1. PICK q \in WorkerIds : /\ pending[c][q] > 0
                               /\ pending' = [pending EXCEPT ![c] = takeFrom(@, {q})]
                               /\ notifyWorkerLost(q)
                               /\ UNCHANGED registryVars
    BY <1>8 DEF NotifyLost
  <2> DEFINE f == takeFrom(pending[c], {q})
  <2>2. /\ f \in [WorkerIds -> Nat] /\ pending' = [pending EXCEPT ![c] = f]
        /\ f[p] = pending[c][p] - IF p = q THEN 1 ELSE 0
        /\ pending[c][p] \in Nat
    <3>1. {q} \in SUBSET WorkerIds /\ \A x \in {q} : pending[c][x] > 0
      BY <2>1
    <3>2. p \in {q} <=> p = q
      OBVIOUS
    <3> QED BY <1>1, <2>1, <3>1, <3>2, PendingTypes
  <2> HIDE DEF f
  <2>3. notified \in [WorkerIds -> Nat]
    BY DEF PresenceInv, PresenceTypeOK
  <2>4. r1 = r /\ e1 = e
    BY <1>4, <2>1
  <2>5. CASE p = q
    <3>1. f[p] + 1 = pending[c][p]
      BY <2>2, <2>5
    <3>2. IsFiniteSet(Owed(p)') /\ o1 = o - 1
      BY <1>1, <2>2, <3>1, OwedSteps
    <3>3. n1 = n + 1
      BY <2>1, <2>3, <2>5 DEF notifyWorkerLost
    <3>4. n1 + o1 + r1 <= n + o + r /\ n1 \in Nat /\ r1 \in Nat
      <4> HIDE DEF n, n1, o, o1, r, r1
      <4> QED BY <1>2, <2>4, <3>2, <3>3
    <3> HIDE DEF Goal
    <3> QED BY <1>5, <2>4, <3>2, <3>4
  <2>6. CASE p # q
    <3>1. f[p] <= pending[c][p]
      BY <2>2, <2>6
    <3>2. IsFiniteSet(Owed(p)') /\ o1 <= o
      BY <1>1, <2>2, <3>1, OwedSteps
    <3>3. n1 = n
      BY <2>1, <2>3, <2>6 DEF notifyWorkerLost
    <3> HIDE DEF Goal
    <3> QED BY <1>6, <2>1, <3>2, <3>3
  <2> QED BY <2>5, <2>6
<1>9. ASSUME NotifyFails(c) PROVE Goal
  <2>1. PICK S \in SUBSET {q \in WorkerIds : pending[c][q] > 0} :
               /\ pending' = [pending EXCEPT ![c] = takeFrom(@, S)]
               /\ UNCHANGED <<registryVars, notified>>
    BY <1>9 DEF NotifyFails
  <2>2. /\ takeFrom(pending[c], S) \in [WorkerIds -> Nat]
        /\ takeFrom(pending[c], S)[p] = pending[c][p] - IF p \in S THEN 1 ELSE 0
        /\ pending[c][p] \in Nat
    BY <1>1, PendingTypes
  <2>3. takeFrom(pending[c], S)[p] <= pending[c][p]
    BY <2>2
  <2>4. IsFiniteSet(Owed(p)') /\ o1 <= o
    BY <1>1, <2>1, <2>2, <2>3, OwedSteps
  <2> HIDE DEF Goal
  <2> QED BY <1>6, <2>1, <2>4
<1>10. ASSUME ReadWorkers(c) \/ Evaluate(c) PROVE Goal
  <2>1. Owed(p)' = Owed(p) /\ n1 = n /\ UNCHANGED registryVars
    BY <1>10 DEF ReadWorkers, Evaluate, Owed
  <2>2. o1 <= o
    BY <1>2, <2>1
  <2> HIDE DEF Goal
  <2> QED BY <1>1, <1>6, <2>1, <2>2
<1>11. ASSUME Restart(c) PROVE Goal
  <2>1. Quiet \in [WorkerIds -> Nat] /\ Quiet[p] <= pending[c][p]
    BY <1>1 DEF Quiet
  <2>2. pending' = [pending EXCEPT ![c] = Quiet] /\ n1 = n /\ UNCHANGED registryVars
    BY <1>11 DEF Restart
  <2>3. IsFiniteSet(Owed(p)') /\ o1 <= o
    BY <1>1, <2>1, <2>2, OwedSteps
  <2> HIDE DEF Goal
  <2> QED BY <1>6, <2>2, <2>3
<1>12. Goal
  <2> HIDE DEF Goal
  <2> QED BY <1>7, <1>8, <1>9, <1>10, <1>11
<1> QED BY <1>12

(* Nothing was lost, and nobody is owed a report, at the start.            *)
LEMMA LossInit == PresenceInit => LossInv
<1> SUFFICES ASSUME PresenceInit, NEW p \in WorkerIds
             PROVE  /\ IsFiniteSet(Owed(p))
                    /\ notified[p] + Cardinality(Owed(p)) + Risk(p) <= Suffered("pause") + Ended(p)
  BY DEF LossInv
<1>1. Owed(p) = {}
  BY DEF Owed, PresenceInit, Quiet
<1>2. Risk(p) = 0 /\ Ended(p) = 0 /\ notified[p] = 0
  <2>1. ~ RowAtRisk(p) /\ BeatsAtRisk(p) = 0
    BY DEF PresenceInit, RegistryInit, RowAtRisk, BeatsAtRisk, UnderWay, NoRow, Absent, Active, Age
  <2> QED BY <2>1 DEF Risk, Bit, Ended, PresenceInit, RegistryInit, Quiet
<1>3. Suffered("pause") = 0
  BY BoundsAssumption DEF PresenceInit, SpareInit, Suffered, Mishaps
<1> QED BY <1>1, <1>2, <1>3, FS_EmptySet

(* Reports, and what may still lead to one, are paid for in every          *)
(* behaviour.                                                              *)
THEOREM LossInvariant == PresenceSpec => []LossInv
<1>1. PresenceInv /\ LossInv /\ [PresenceNext]_presenceVars => LossInv'
  <2> SUFFICES ASSUME PresenceInv, LossInv, [PresenceNext]_presenceVars, NEW p \in WorkerIds
               PROVE  /\ IsFiniteSet(Owed(p)')
                      /\ notified'[p] + Cardinality(Owed(p)') + Risk(p)'
                            <= Suffered("pause")' + Ended(p)'
    BY DEF LossInv
  <2>1. CASE UNCHANGED presenceVars
    BY <2>1 DEF presenceVars, registryVars, monitorVars, LossInv, Owed, Risk, Bit, RowAtRisk,
                BeatsAtRisk, UnderWay, Ended, Suffered
  <2> QED BY <2>1, LossRegistry, LossMonitor DEF PresenceNext
<1> QED BY <1>1, LossInit, PresenceInvariant, PTL DEF PresenceSpec

(* The numbers that LossInv relates.                                       *)
LEMMA LossNumbers ==
    ASSUME PresenceInv, LossInv, NEW p \in WorkerIds
    PROVE  /\ notified[p] \in Nat /\ Cardinality(Owed(p)) \in Nat /\ Risk(p) \in Nat
           /\ Ended(p) \in Nat /\ Suffered("pause") \in Nat
<1>1. notified[p] \in Nat
  BY DEF PresenceInv, PresenceTypeOK
<1>2. Cardinality(Owed(p)) \in Nat
  BY FS_CardinalityType DEF LossInv
<1>3. Risk(p) \in Nat /\ Ended(p) \in Nat
  <2>1. TableInv
    BY DEF PresenceInv, PresenceTypeOK, TableInv
  <2> QED BY <2>1, RiskTypes
<1>4. Suffered("pause") \in Nat
  <2>1. "pause" \in Mishaps
    BY DEF Mishaps
  <2>2. /\ spare["pause"] \in Nat /\ Bounds["pause"] \in Nat
        /\ spare["pause"] <= Bounds["pause"]
    BY <2>1, BoundsAssumption DEF PresenceInv, PresenceTypeOK, SpareTypeOK, PauseWithinBounds
  <2> QED BY <2>2 DEF Suffered
<1> QED BY <1>1, <1>2, <1>3, <1>4

(* However many monitors look at the table, in whatever order they mark    *)
(* and report, fail and are replaced, and however many heartbeats are      *)
(* under way at once: a worker is reported as lost at most once for its    *)
(* end, once for each heartbeat under way when it ended, and once for each *)
(* row or heartbeat that was held up.                                      *)
THEOREM ReportsPaidFor == PresenceSpec => []ReportsArePaidFor
<1>1. PresenceInv /\ LossInv => ReportsArePaidFor
  <2> SUFFICES ASSUME PresenceInv, LossInv, NEW p \in WorkerIds
               PROVE  notified[p] <= Suffered("pause") + Ended(p)
    BY DEF ReportsArePaidFor
  <2>1. /\ notified[p] \in Nat /\ Cardinality(Owed(p)) \in Nat /\ Risk(p) \in Nat
        /\ Ended(p) \in Nat /\ Suffered("pause") \in Nat
    BY LossNumbers
  <2>2. notified[p] + Cardinality(Owed(p)) + Risk(p) <= Suffered("pause") + Ended(p)
    BY DEF LossInv
  <2> QED BY <2>1, <2>2
<1> QED BY <1>1, LossInvariant, PresenceInvariant, PTL

(* No worker that is up is reported as lost unless it was held up.         *)
THEOREM LostAlertsReal == PresenceSpec => []LostAlertsAreReal
<1>1. PresenceInv /\ LossInv => LostAlertsAreReal
  <2> SUFFICES ASSUME PresenceInv, LossInv, NEW p \in WorkerIds, notified[p] > 0, phase[p] = "up"
               PROVE  Suffered("pause") > 0
    BY DEF LostAlertsAreReal
  <2>1. /\ notified[p] \in Nat /\ Cardinality(Owed(p)) \in Nat /\ Risk(p) \in Nat
        /\ Ended(p) = 0 /\ Suffered("pause") \in Nat
    BY LossNumbers DEF Ended
  <2> QED BY <2>1 DEF LossInv
<1> QED BY <1>1, LossInvariant, PresenceInvariant, PTL

--------------------------------------------------------------------------------
(* Shutdowns.                                                              *)

(* What a worker process does to its row keeps OFFLINE there.              *)
LEMMA ShutdownSteps ==
    ASSUME TableInv, ShutdownHolds, NEW p \in WorkerIds, RegistryStep(p),
           Suffered("crash") = 0, ~ Suffer("crash"), phase'[p] = "gone", late'[p] = 0
    PROVE  rows'[p].status \in {"OFFLINE", Absent}
<1>0. /\ phase \in [WorkerIds -> {"new", "up", "draining", "closing", "gone"}]
      /\ rows \in [WorkerIds -> WorkerRow] /\ rows[p] \in WorkerRow
      /\ beats[p]["recent"] \in Nat /\ beats[p]["stale"] \in Nat /\ Age = {"recent", "stale"}
  BY DEF TableInv, RegistryTypeOK, Age
<1>1. phase[p] = "gone" /\ late[p] = 0 =>
        /\ rows[p].status \in {"OFFLINE", Absent}
        /\ \A age \in Age : beats[p][age] = 0
  <2>1. phase[p] = "gone" /\ late[p] = 0 => UnderWay(p) <= 0
    BY DEF TableInv, LateBeats
  <2> QED BY <1>0, <2>1 DEF ShutdownHolds, UnderWay
<1>2. phase[p] = "new" => rows[p].status = Absent
  BY DEF TableInv, NewIsAbsent, NoRow
<1>3. CASE StartFails(p)
  BY <1>2, <1>3 DEF StartFails
<1>4. CASE MarkOffline(p)
  BY <1>0, <1>4 DEF MarkOffline, updateStatus, WorkerRow
<1>5. CASE StartWorker(p) \/ Shutdown(p) \/ MarkDraining(p) \/ ShutdownFails(p) \/ CrashWorker(p)
           \/ SendHeartbeat(p)
  BY <1>0, <1>5 DEF StartWorker, Shutdown, MarkDraining, ShutdownFails, CrashWorker, SendHeartbeat,
                    enter
<1>6. CASE RowAges(p)
  BY <1>0, <1>1, <1>6 DEF RowAges, WorkerRow
<1>7. CASE HeartbeatAges(p) \/ \E age \in Age : HeartbeatLands(p, age) \/ HeartbeatFails(p, age)
  BY <1>0, <1>1, <1>7 DEF HeartbeatAges, HeartbeatLands, HeartbeatFails
<1> QED BY <1>3, <1>4, <1>5, <1>6, <1>7 DEF RegistryStep, Beats

(* A worker that shut down with nothing under way is OFFLINE and stays so, *)
(* for any workers and monitors and any number of heartbeats.              *)
THEOREM ShutdownIsKept == PresenceSpec => []ShutdownHolds
<1>1. PresenceInit => ShutdownHolds
  BY DEF PresenceInit, RegistryInit, ShutdownHolds
<1>2. PresenceInv /\ ShutdownHolds /\ [PresenceNext]_presenceVars => ShutdownHolds'
  <2> SUFFICES ASSUME PresenceInv, ShutdownHolds, [PresenceNext]_presenceVars,
                      NEW p \in WorkerIds,
                      phase'[p] = "gone", late'[p] = 0, Suffered("crash")' = 0
               PROVE  rows'[p].status \in {"OFFLINE", Absent}
    BY DEF ShutdownHolds
  <2>1. TableInv /\ "crash" \in Mishaps
    BY DEF PresenceInv, PresenceTypeOK, TableInv, Mishaps
  <2>2. Suffered("crash") = 0 /\ ~ Suffer("crash")
    <3>1. UNCHANGED spare \/ \E k \in Mishaps : Suffer(k)
      BY MishapSteps
    <3>2. /\ Suffered("crash") \in Nat /\ Suffered("crash") <= Suffered("crash")'
          /\ Suffer("crash") => Suffered("crash")' = Suffered("crash") + 1
      BY <2>1, <3>1, Mishap DEF PresenceInv, PresenceTypeOK
    <3> QED BY <3>2
  <2>3. ASSUME NEW q \in WorkerIds, RegistryStep(q)
        PROVE  rows'[p].status \in {"OFFLINE", Absent}
    <3>1. CASE p = q
      BY <2>1, <2>2, <2>3, <3>1, ShutdownSteps
    <3>2. CASE p # q
      <4>1. phase'[p] = phase[p] /\ rows'[p] = rows[p] /\ late'[p] = late[p]
        BY <2>1, <2>3, <3>2, RegistryTypes
      <4> QED BY <2>2, <4>1 DEF ShutdownHolds
    <3> QED BY <3>1, <3>2
  <2>4. ASSUME NEW c \in Monitors, DetectLost(c)
        PROVE  rows'[p].status \in {"OFFLINE", Absent}
    <3>1. /\ phase' = phase /\ late' = late
          /\ rows'[p] = IF p \in lostWorkers THEN [rows[p] EXCEPT !.status = "LOST"] ELSE rows[p]
      BY <2>1, <2>4, MarkTypes DEF DetectLost
    <3>2. rows[p].status \in {"OFFLINE", Absent}
      BY <2>2, <3>1 DEF ShutdownHolds
    <3>3. p \notin lostWorkers
      BY <3>2 DEF lostWorkers, Active, Absent
    <3> QED BY <3>1, <3>2, <3>3
  <2>5. ASSUME UNCHANGED registryVars PROVE rows'[p].status \in {"OFFLINE", Absent}
    BY <2>2, <2>5 DEF registryVars, ShutdownHolds
  <2>6. ASSUME NEW c \in Monitors, \/ NotifyLost(c) \/ NotifyFails(c) \/ ReadWorkers(c)
                                   \/ Evaluate(c) \/ Restart(c)
        PROVE  UNCHANGED registryVars
    BY <2>6 DEF NotifyLost, NotifyFails, ReadWorkers, Evaluate, Restart
  <2> QED BY <2>3, <2>4, <2>5, <2>6 DEF PresenceNext, presenceVars
<1> QED BY <1>1, <1>2, PresenceInvariant, PTL DEF PresenceSpec
================================================================================
