------------------------- MODULE SchedulerClusterProofs -------------------------
(***************************************************************************)
(* Proofs about leadership and cron for any number of processes, schedules *)
(* and ticks, and any number of mishaps.                                   *)
(***************************************************************************)
EXTENDS SchedulerCluster, Counting

(* Mishaps are only ever used up.                                          *)
SpareWithinBounds == \A k \in Mishaps : spare[k] <= Bounds[k]

(* A process that is down neither leads nor renews nor sleeps before it    *)
(* tries again: nothing of a former life can make it lead.                 *)
DownIsIdle ==
    \A p \in Processes : life[p] = "down" => p \notin leader \cup renewing \cup backoff

LeaderInv == /\ ClusterTypeOK
             /\ SpareWithinBounds
             /\ DownIsIdle
             /\ CronFollowsLeader
             /\ LeadersRenew

(* The invariant holds when all processes are down.                        *)
LEMMA ClusterInitOK == ClusterInit => LeaderInv
<1> SUFFICES ASSUME ClusterInit PROVE LeaderInv
  OBVIOUS
<1> USE DEF ClusterInit, SpareInit, LockInit, CronInit
<1>1. ClusterTypeOK
  <2>1. SpareTypeOK /\ SpareWithinBounds
    BY BoundsAssumption DEF SpareTypeOK, SpareWithinBounds
  <2>2. LockTypeOK
    BY DEF LockTypeOK
  <2>3. CronTypeOK
    BY DEF CronTypeOK, Tick, NoTick, Schedule
  <2> QED BY <2>1, <2>2, <2>3 DEF ClusterTypeOK
<1>2. SpareWithinBounds
  BY BoundsAssumption DEF SpareWithinBounds
<1>3. DownIsIdle /\ CronFollowsLeader /\ LeadersRenew
  BY DEF DownIsIdle, CronFollowsLeader, LeadersRenew
<1> QED BY <1>1, <1>2, <1>3 DEF LeaderInv

(* A mishap keeps the budget in its type and within its bounds, and what   *)
(* has been suffered stays suffered.                                       *)
LEMMA SufferOK ==
    ASSUME SpareTypeOK, SpareWithinBounds, NEW k \in Mishaps, Suffer(k) \/ UNCHANGED spare
    PROVE  /\ SpareTypeOK' /\ SpareWithinBounds'
           /\ \A i \in Mishaps : Suffered(i)' >= Suffered(i)
           /\ Suffer(k) => Suffered(k)' > 0
  BY BoundsAssumption DEF SpareTypeOK, SpareWithinBounds, Suffer, Suffered

(* Every change of a row of `schedules` gives a row.                       *)
LEMMA RowChanges ==
    ASSUME NEW row \in Schedule
    PROVE  /\ \A st \in {"absent", "active", "paused", "deleted"} :
                [row EXCEPT !.state = st] \in Schedule
           /\ [row EXCEPT !.next = "due"] \in Schedule
           /\ advanced(row) \in Schedule
<1>1. ASSUME NEW st \in {"absent", "active", "paused", "deleted"}
      PROVE  [row EXCEPT !.state = st] \in Schedule
  BY DEF Schedule
<1>2. [row EXCEPT !.next = "due"] \in Schedule
  BY DEF Schedule
<1>3. advanced(row) \in Schedule
  <2>1. row.count + 1 \in Nat
    BY DEF Schedule
  <2>2. ASSUME NEW n \in Nat
        PROVE  [row EXCEPT !.next = "future", !.count = n] \in Schedule
    BY DEF Schedule
  <2> QED BY <2>1, <2>2 DEF advanced
<1> QED BY <1>1, <1>2, <1>3

(* A tick keeps the types and starts or stops no cron scheduler.           *)
LEMMA CronStepOK ==
    ASSUME CronTypeOK, NEW p \in Processes,
           TickSteps(p) \/ \E t \in Ticks : TickFails(p, t)
    PROVE  CronTypeOK' /\ cron' = cron
<1>1. CASE \E t \in Ticks : BeginTick(p, t)
  BY <1>1 DEF CronTypeOK, BeginTick, Tick, NoTick, dueSchedules
<1>2. CASE \E t \in Ticks, s \in Schedules : Advance(p, t, s)
  <2>1. PICK t \in Ticks, s \in Schedules : Advance(p, t, s)
    BY <1>2
  <2>2. schedules' \in [Schedules -> Schedule]
    <3>1. /\ schedules[s] \in Schedule
          /\ advanced(schedules[s]) \in Schedule
      BY RowChanges DEF CronTypeOK
    <3> QED BY <2>1, <3>1 DEF CronTypeOK, Advance
  <2>3. [todo |-> ticks[p][t].todo \ {s}, creating |-> s] \in Tick
    BY DEF CronTypeOK, Tick
  <2>4. ticks' \in [Processes -> [Ticks -> Tick]]
    BY <2>1, <2>3 DEF CronTypeOK, Advance
  <2> QED BY <2>1, <2>2, <2>4 DEF CronTypeOK, Advance
<1>3. CASE \E t \in Ticks : Trigger(p, t)
  <2>1. PICK t \in Ticks : Trigger(p, t)
    BY <1>3
  <2>2. ticks[p][t].creating \in Schedules
    BY <2>1 DEF CronTypeOK, Trigger, Tick
  <2>3. created' \in [Schedules -> Nat]
    BY <2>1, <2>2 DEF CronTypeOK, Trigger
  <2>4. [ticks[p][t] EXCEPT !.creating = NoSchedule] \in Tick
    <3>1. ticks[p][t] \in Tick
      BY DEF CronTypeOK
    <3> QED BY <3>1 DEF Tick
  <2>5. ticks' \in [Processes -> [Ticks -> Tick]]
    BY <2>1, <2>4 DEF CronTypeOK, Trigger
  <2> QED BY <2>1, <2>3, <2>5 DEF CronTypeOK, Trigger
<1>4. CASE \E t \in Ticks : TickFails(p, t)
  BY <1>4 DEF CronTypeOK, TickFails, Tick, NoTick
<1> QED BY <1>1, <1>2, <1>3, <1>4 DEF TickSteps

(* So does a request on a schedule, and time.                              *)
LEMMA RequestOK ==
    ASSUME CronTypeOK, NEW s \in Schedules, ScheduleRequests(s) \/ FallDue(s)
    PROVE  CronTypeOK' /\ cron' = cron
<1>1. schedules[s] \in Schedule
  BY DEF CronTypeOK
<1>2. CASE FallDue(s)
  <2>1. schedules' \in [Schedules -> Schedule]
    BY <1>1, <1>2, RowChanges DEF FallDue, CronTypeOK
  <2> QED BY <1>2, <2>1 DEF FallDue, CronTypeOK
<1>3. ASSUME NEW st \in {"active", "paused", "deleted"}, setState(s, st)
      PROVE  CronTypeOK' /\ cron' = cron
  <2>1. [schedules[s] EXCEPT !.state = st] \in Schedule
    BY <1>1, RowChanges
  <2>2. schedules' \in [Schedules -> Schedule]
    BY <1>3, <2>1 DEF setState, CronTypeOK
  <2> QED BY <1>3, <2>2 DEF setState, CronTypeOK
<1> QED
  BY <1>2, <1>3 DEF ScheduleRequests, PostSchedule, PauseSchedule, DeleteSchedule

(* The three ways out of tryBecomeLeader.                                  *)
LEMMA TryOK ==
    ASSUME LeaderInv, NEW p \in Processes, tryBecomeLeader(p)
    PROVE  /\ SpareTypeOK' /\ SpareWithinBounds' /\ LockTypeOK' /\ CronTypeOK'
           /\ leader' \in {leader, leader \cup {p}}
           /\ renewing' \in {renewing, renewing \cup {p}}
           /\ CronFollowsLeader'
           /\ held \subseteq held' /\ renewing \subseteq renewing'
           /\ Suffered("redis")' >= Suffered("redis")
           /\ leader' = leader \/ p \in held' \cap renewing' \/ Suffered("redis")' > 0
<1> USE DEF LeaderInv, ClusterTypeOK, tryBecomeLeader
<1>1. CASE tryAcquire(p) /\ becomeLeader(p) /\ UNCHANGED spare
  <2>1. Suffered("redis")' >= Suffered("redis") /\ SpareTypeOK' /\ SpareWithinBounds'
    BY <1>1, SufferOK DEF Mishaps
  <2> QED BY <1>1, <2>1 DEF tryAcquire, becomeLeader, cronStart, LockTypeOK,
                            CronTypeOK, CronFollowsLeader, cronTables
<1>2. CASE acquireRefused(p) /\ UNCHANGED <<spare, leader, cron, renewing>>
  <2>1. Suffered("redis")' >= Suffered("redis") /\ SpareTypeOK' /\ SpareWithinBounds'
    BY <1>2, SufferOK DEF Mishaps
  <2> QED BY <1>2, <2>1 DEF acquireRefused, LockTypeOK, CronTypeOK,
                            CronFollowsLeader, cronTables
<1>3. CASE /\ Suffer("redis") /\ acquireThrows(p) /\ leader' = leader \cup {p}
           /\ cronStart(p) /\ UNCHANGED renewing
  <2>1. /\ Suffered("redis")' >= Suffered("redis") /\ SpareTypeOK' /\ SpareWithinBounds'
        /\ Suffered("redis")' > 0
    BY <1>3, SufferOK DEF Mishaps
  <2> QED BY <1>3, <2>1 DEF acquireThrows, cronStart, LockTypeOK,
                            CronTypeOK, CronFollowsLeader, cronTables
<1> QED BY <1>1, <1>2, <1>3

(* A process that dies or exits takes its leadership and cron along.       *)
LEMMA VanishOK ==
    ASSUME LeaderInv, NEW p \in Processes, vanish(p),
           NEW k \in Mishaps, Suffer(k) \/ UNCHANGED spare
    PROVE  LeaderInv'
<1> USE DEF LeaderInv, ClusterTypeOK, vanish
<1>1. SpareTypeOK' /\ SpareWithinBounds' /\ Suffered("redis")' >= Suffered("redis")
  BY SufferOK DEF Mishaps
<1>2. LockTypeOK' /\ CronTypeOK'
  BY DEF forget, cronForget, LockTypeOK, CronTypeOK, NoTick, Tick
<1>3. DownIsIdle' /\ CronFollowsLeader'
  BY DEF DownIsIdle, CronFollowsLeader, cronForget
<1>4. LeadersRenew'
  <2> SUFFICES ASSUME NEW q \in leader', life'[q] = "up"
               PROVE  q \in held' \cap renewing' \/ Suffered("redis")' > 0
    BY DEF LeadersRenew
  <2>1. q # p /\ q \in leader /\ life[q] = "up"
    OBVIOUS
  <2>2. q \in held \cap renewing \/ Suffered("redis") > 0
    BY <2>1 DEF LeadersRenew
  <2>3. CASE q \in held \cap renewing
    BY <2>1, <2>3 DEF forget
  <2>4. CASE Suffered("redis") > 0
    BY <2>4, <1>1, BoundsAssumption DEF Suffered, SpareTypeOK, Mishaps
  <2> QED BY <2>2, <2>3, <2>4
<1> QED BY <1>1, <1>2, <1>3, <1>4

(* What leadership is made of, but for the lock's key: a step that leaves  *)
(* it alone keeps what is said of it.                                      *)
LEMMA LeadershipFrame ==
    ASSUME LeaderInv, UNCHANGED <<held, life, leader, renewing, backoff>>, cron' = cron,
           NEW k \in Mishaps, Suffer(k) \/ UNCHANGED spare,
           LockTypeOK', CronTypeOK'
    PROVE  LeaderInv'
<1> USE DEF LeaderInv, ClusterTypeOK
<1>1. SpareTypeOK' /\ SpareWithinBounds' /\ Suffered("redis")' >= Suffered("redis")
  BY SufferOK DEF Mishaps
<1>2. Suffered("redis") > 0 => Suffered("redis")' > 0
  BY <1>1, BoundsAssumption DEF Suffered, SpareTypeOK, Mishaps
<1>3. DownIsIdle' /\ CronFollowsLeader' /\ LeadersRenew'
  BY <1>2 DEF DownIsIdle, CronFollowsLeader, LeadersRenew
<1> QED BY <1>1, <1>3

(* Every step keeps the invariant, one case per action.                    *)
LEMMA ClusterStepOK == LeaderInv /\ [ClusterNext]_clusterVars => LeaderInv'
<1> SUFFICES ASSUME LeaderInv, [ClusterNext]_clusterVars PROVE LeaderInv'
  OBVIOUS
<1>a. SpareTypeOK /\ LockTypeOK /\ CronTypeOK
  BY DEF LeaderInv, ClusterTypeOK
<1>b. Mishaps = {"crash", "shutdown", "redis", "pause", "slow", "restart", "db"}
  BY DEF Mishaps
<1>c. ASSUME NEW p \in Processes, tryBecomeLeader(p),
             life' \in {life, [life EXCEPT ![p] = "up"]},
             life' = life => p \in backoff,
             life' # life => life[p] = "down" /\ backoff' = backoff,
             backoff' \in SUBSET backoff
      PROVE  LeaderInv'
  <2>1. /\ SpareTypeOK' /\ SpareWithinBounds' /\ LockTypeOK' /\ CronTypeOK'
        /\ leader' \in {leader, leader \cup {p}}
        /\ renewing' \in {renewing, renewing \cup {p}}
        /\ CronFollowsLeader'
        /\ held \subseteq held' /\ renewing \subseteq renewing'
        /\ Suffered("redis")' >= Suffered("redis")
        /\ leader' = leader \/ p \in held' \cap renewing' \/ Suffered("redis")' > 0
    BY <1>c, TryOK
  <2>2. life'[p] # "down"
    BY <1>c DEF LeaderInv, ClusterTypeOK, DownIsIdle
  <2>3. DownIsIdle'
    BY <1>c, <2>1, <2>2 DEF LeaderInv, ClusterTypeOK, DownIsIdle
  <2>4. LeadersRenew'
    <3> SUFFICES ASSUME NEW q \in leader', life'[q] = "up"
                 PROVE  q \in held' \cap renewing' \/ Suffered("redis")' > 0
      BY DEF LeadersRenew
    <3>1. CASE q \notin leader
      BY <2>1, <3>1
    <3>2. CASE q \in leader
      <4>1. life[q] = "up"
        BY <1>c, <3>2 DEF LeaderInv, ClusterTypeOK, DownIsIdle
      <4>2. q \in held \cap renewing \/ Suffered("redis") > 0
        BY <4>1, <3>2 DEF LeaderInv, LeadersRenew
      <4>3. Suffered("redis") > 0 => Suffered("redis")' > 0
        BY <2>1, <1>a, <1>b, BoundsAssumption DEF Suffered, SpareTypeOK
      <4> QED BY <4>2, <4>3, <2>1
    <3> QED BY <3>1, <3>2
  <2> QED BY <1>c, <2>1, <2>3, <2>4 DEF LeaderInv, ClusterTypeOK
<1>1. ASSUME NEW p \in Processes, Start(p) PROVE LeaderInv'
  BY <1>1, <1>c DEF Start, LeaderInv, ClusterTypeOK
<1>2. ASSUME NEW p \in Processes, StepDown(p) PROVE LeaderInv'
  <2>1. LockTypeOK' /\ CronTypeOK' /\ UNCHANGED <<spare, life>>
    BY <1>2, <1>a DEF StepDown, renewFails, cronStop, cronTables, LockTypeOK, CronTypeOK
  <2>2. Suffered("redis")' = Suffered("redis")
    BY <2>1 DEF Suffered
  <2>3. life[p] # "down"
    BY <1>2 DEF StepDown, LeaderInv, DownIsIdle
  <2>4. DownIsIdle' /\ CronFollowsLeader'
    BY <1>2, <2>3 DEF StepDown, cronStop, LeaderInv, ClusterTypeOK, DownIsIdle, CronFollowsLeader
  <2>5. LeadersRenew'
    BY <1>2, <2>2 DEF StepDown, renewFails, LeaderInv, LeadersRenew
  <2>6. SpareTypeOK' /\ SpareWithinBounds'
    BY <2>1, <1>a DEF SpareTypeOK, SpareWithinBounds, LeaderInv
  <2> QED BY <1>2, <2>1, <2>4, <2>5, <2>6 DEF StepDown, LeaderInv, ClusterTypeOK
<1>3. ASSUME NEW p \in Processes, TryAgain(p) PROVE LeaderInv'
  BY <1>3, <1>c DEF TryAgain
<1>4. ASSUME NEW p \in Processes, Stop(p) PROVE LeaderInv'
  <2>1. SpareTypeOK' /\ SpareWithinBounds' /\ Suffered("redis")' >= Suffered("redis")
    BY <1>4, <1>a, <1>b, SufferOK DEF Stop, LeaderInv
  <2>2. LockTypeOK' /\ CronTypeOK'
    BY <1>4, <1>a DEF Stop, cronStop, cronTables, LockTypeOK, CronTypeOK
  <2>3. DownIsIdle' /\ CronFollowsLeader'
    BY <1>4 DEF Stop, cronStop, LeaderInv, ClusterTypeOK, DownIsIdle, CronFollowsLeader
  <2>4. Suffered("redis") > 0 => Suffered("redis")' > 0
    BY <2>1, <1>a, <1>b, BoundsAssumption DEF Suffered, SpareTypeOK
  <2>5. LeadersRenew'
    BY <1>4, <2>4 DEF Stop, LeaderInv, ClusterTypeOK, LeadersRenew
  <2> QED BY <1>4, <2>1, <2>2, <2>3, <2>5 DEF Stop, LeaderInv, ClusterTypeOK
<1>5. ASSUME NEW p \in Processes, Exit(p) \/ Crash(p) PROVE LeaderInv'
  BY <1>5, <1>b, VanishOK DEF Exit, Crash
<1>6. ASSUME NEW p \in Processes, CronStep(p) PROVE LeaderInv'
  <2>1. CronTypeOK' /\ cron' = cron
    BY <1>6, <1>a, CronStepOK DEF CronStep
  <2> QED BY <1>6, <1>a, <1>b, <2>1, LeadershipFrame DEF CronStep, leadership, LockTypeOK
<1>7. ASSUME NEW p \in Processes, NEW t \in Ticks, TickFails(p, t), UNCHANGED leadership
      PROVE  LeaderInv'
  <2>1. CronTypeOK' /\ cron' = cron
    BY <1>7, <1>a, CronStepOK
  <2> QED BY <1>7, <1>a, <1>b, <2>1, LeadershipFrame DEF TickFails, leadership, LockTypeOK
<1>8. CASE KeyExpires \/ RenewalIsLate
  <2>1. LockTypeOK' /\ CronTypeOK' /\ cron' = cron
    BY <1>8, <1>a DEF KeyExpires, RenewalIsLate, expire, cronVars, LockTypeOK, CronTypeOK
  <2> QED BY <1>8, <1>b, <2>1, LeadershipFrame DEF KeyExpires, RenewalIsLate, expire
<1>9. ASSUME NEW s \in Schedules, ScheduleRequests(s) \/ FallDue(s),
             UNCHANGED <<spare, leadership>>
      PROVE  LeaderInv'
  <2>1. CronTypeOK' /\ cron' = cron
    BY <1>9, <1>a, RequestOK
  <2> QED BY <1>9, <1>a, <1>b, <2>1, LeadershipFrame DEF leadership, LockTypeOK
<1>10. CASE UNCHANGED clusterVars
  <2>1. LockTypeOK' /\ CronTypeOK'
    BY <1>10, <1>a DEF clusterVars, LockTypeOK, CronTypeOK
  <2> QED BY <1>10, <1>b, <2>1, LeadershipFrame DEF clusterVars
<1> QED
  BY <1>1, <1>2, <1>3, <1>4, <1>5, <1>6, <1>7, <1>8, <1>9, <1>10 DEF ClusterNext

(* The inductive invariant of the scheduler processes.                     *)
THEOREM LeaderInvariant == ClusterSpec => []LeaderInv
<1> QED BY ClusterInitOK, ClusterStepOK, PTL DEF ClusterSpec

(* The types of leadership, lock and cron, in every reachable state.       *)
THEOREM ClusterTypeCorrect == ClusterSpec => []ClusterTypeOK
<1>1. LeaderInv => ClusterTypeOK
  BY DEF LeaderInv
<1> QED BY <1>1, LeaderInvariant, PTL

(* A process that is up and leads holds a lock entry and renews it, unless *)
(* Redis has failed: no start, step down, stop, crash or retry leaves a    *)
(* leader behind that cannot notice the loss of its lock.                  *)
THEOREM LeadersKeepRenewing == ClusterSpec => []LeadersRenew
<1>1. LeaderInv => LeadersRenew
  BY DEF LeaderInv
<1> QED BY <1>1, LeaderInvariant, PTL

(* The cron scheduler runs in leaders only.                                *)
THEOREM CronInLeaders == ClusterSpec => []CronFollowsLeader
<1>1. LeaderInv => CronFollowsLeader
  BY DEF LeaderInv
<1> QED BY <1>1, LeaderInvariant, PTL

--------------------------------------------------------------------------------
(* Triggers.  A process that stops or crashes may lose one trigger in each *)
(* of its ticks; while it is stopping it has not lost them yet.            *)

CreatingAt(s) == {pt \in Processes \X Ticks : ticks[pt[1]][pt[2]].creating = s}

Stopping == {p \in Processes : life[p] = "stopping"}

Ends == Suffered("crash") + Suffered("shutdown") - Cardinality(Stopping)

Lost == Suffered("db") + Cardinality(Ticks) * Ends

StopsPaid == IsFiniteSet(Stopping) /\ Cardinality(Stopping) <= Suffered("shutdown")

TriggerInv ==
    /\ StopsPaid
    /\ \A s \in Schedules :
         /\ IsFiniteSet(CreatingAt(s))
         /\ schedules[s].state # "deleted" =>
              /\ created[s] + Creating(s) <= schedules[s].count
              /\ schedules[s].count <= created[s] + Creating(s) + Lost

(* What was suffered is a number.                                          *)
LEMMA SufferedNat ==
    ASSUME LeaderInv
    PROVE  \A k \in Mishaps : Suffered(k) \in Nat
BY BoundsAssumption DEF LeaderInv, ClusterTypeOK, SpareTypeOK, SpareWithinBounds, Suffered

(* A mishap of one kind adds one to what was suffered of it.               *)
LEMMA OneMore ==
    ASSUME LeaderInv, NEW k \in Mishaps, Suffer(k)
    PROVE  /\ Suffered(k)' = Suffered(k) + 1
           /\ \A i \in Mishaps : i # k => Suffered(i)' = Suffered(i)
<1>1. \A i \in Mishaps : spare[i] \in Nat /\ Bounds[i] \in Nat
  BY BoundsAssumption DEF LeaderInv, ClusterTypeOK, SpareTypeOK
<1>2. spare'[k] = spare[k] - 1 /\ \A i \in Mishaps : i # k => spare'[i] = spare[i]
  BY DEF LeaderInv, ClusterTypeOK, SpareTypeOK, Suffer
<1> QED BY <1>1, <1>2 DEF Suffered

(* A step that ends no process suffers nothing or one mishap that is none. *)
LEMMA OtherMishaps ==
    ASSUME LeaderInv, [ClusterNext]_clusterVars,
           ~ \E p \in Processes : Stop(p) \/ Exit(p) \/ Crash(p)
    PROVE  /\ UNCHANGED spare \/ \E k \in Mishaps \ {"crash", "shutdown"} : Suffer(k)
           /\ Stopping' = Stopping
<1>a. life \in [Processes -> {"down", "up", "stopping"}]
  BY DEF LeaderInv, ClusterTypeOK
<1>b. {"redis", "pause", "db"} \subseteq Mishaps \ {"crash", "shutdown"}
  BY DEF Mishaps
<1>1. ASSUME NEW p \in Processes, tryBecomeLeader(p)
      PROVE  UNCHANGED spare \/ Suffer("redis")
  BY <1>1 DEF tryBecomeLeader
<1>2. ASSUME UNCHANGED life PROVE Stopping' = Stopping
  BY <1>2 DEF Stopping
<1>3. ASSUME NEW p \in Processes, Start(p)
      PROVE  (UNCHANGED spare \/ Suffer("redis")) /\ Stopping' = Stopping
  BY <1>a, <1>1, <1>3 DEF Start, Stopping
<1>4. ASSUME NEW p \in Processes, StepDown(p) \/ TryAgain(p) \/ CronStep(p)
      PROVE  (UNCHANGED spare \/ Suffer("redis")) /\ UNCHANGED life
  BY <1>1, <1>4 DEF StepDown, TryAgain, CronStep, leadership
<1>5. ASSUME NEW p \in Processes, NEW t \in Ticks, TickFails(p, t), UNCHANGED leadership
      PROVE  Suffer("db") /\ UNCHANGED life
  BY <1>5 DEF TickFails, leadership
<1>6. ASSUME KeyExpires \/ RenewalIsLate
      PROVE  (UNCHANGED spare \/ Suffer("pause")) /\ UNCHANGED life
  BY <1>6 DEF KeyExpires, RenewalIsLate
<1> QED
  BY <1>b, <1>2, <1>3, <1>4, <1>5, <1>6 DEF ClusterNext, clusterVars, leadership

(* The ends of processes that may have lost triggers are never taken back, *)
(* and one that exits or dies adds one.                                    *)
LEMMA EndsGrow ==
    ASSUME LeaderInv, LeaderInv', StopsPaid, [ClusterNext]_clusterVars
    PROVE  /\ StopsPaid'
           /\ Ends \in Nat /\ Ends' \in Nat /\ Ends <= Ends'
           /\ Suffered("db") \in Nat /\ Suffered("db")' \in Nat
           /\ Suffered("db") <= Suffered("db")'
           /\ (\E p \in Processes : Exit(p) \/ Crash(p)) => Ends + 1 <= Ends'
<1> DEFINE c == Suffered("crash")  c1 == Suffered("crash")'
           h == Suffered("shutdown")  h1 == Suffered("shutdown")'
           d == Suffered("db")  d1 == Suffered("db")'
           m == Cardinality(Stopping)  m1 == Cardinality(Stopping')
<1>a. Mishaps = {"crash", "shutdown", "redis", "pause", "slow", "restart", "db"}
  BY DEF Mishaps
<1>b. /\ c \in Nat /\ c1 \in Nat /\ h \in Nat /\ h1 \in Nat /\ d \in Nat /\ d1 \in Nat
  <2>1. \A k \in Mishaps : Suffered(k) \in Nat
    BY SufferedNat
  <2>2. \A k \in Mishaps : Suffered(k)' \in Nat
    BY BoundsAssumption DEF LeaderInv, ClusterTypeOK, SpareTypeOK, SpareWithinBounds, Suffered
  <2> QED BY <1>a, <2>1, <2>2
<1>c. m \in Nat /\ m <= h /\ IsFiniteSet(Stopping)
  BY FS_CardinalityType DEF StopsPaid
<1>d. life \in [Processes -> {"down", "up", "stopping"}]
  BY DEF LeaderInv, ClusterTypeOK
<1>e. Ends = c + h - m /\ Ends' = c1 + h1 - m1
  BY DEF Ends
<1>f. ASSUME NEW q \in Processes, \A r \in Processes : r # q => life'[r] = life[r]
      PROVE  /\ IsFiniteSet(Stopping') /\ m1 \in Nat
             /\ m1 = m + (IF q \in Stopping' THEN 1 ELSE 0) - (IF q \in Stopping THEN 1 ELSE 0)
  <2>1. \A y : y # q => (y \in Stopping' <=> y \in Stopping)
    BY <1>f DEF Stopping
  <2> QED BY <1>c, <2>1, OneMember
<1>1. ASSUME NEW p \in Processes, Stop(p)
      PROVE  IsFiniteSet(Stopping') /\ m1 = m + 1 /\ h1 = h + 1 /\ c1 = c /\ d1 = d
  <2>1. IsFiniteSet(Stopping') /\ p \notin Stopping /\ p \in Stopping' /\ m1 = m + 1
    <3>1. p \notin Stopping /\ p \in Stopping' /\ \A r \in Processes : r # p => life'[r] = life[r]
      BY <1>1, <1>d DEF Stop, Stopping
    <3> QED BY <1>c, <1>f, <3>1
  <2>2. h1 = h + 1 /\ c1 = c /\ d1 = d
    BY <1>1, <1>a, OneMore DEF Stop
  <2> QED BY <2>1, <2>2
<1>2. ASSUME NEW p \in Processes, vanish(p)
      PROVE  /\ IsFiniteSet(Stopping')
             /\ m1 = m - (IF life[p] = "stopping" THEN 1 ELSE 0)
  <2>1. /\ p \in Stopping <=> life[p] = "stopping"
        /\ p \notin Stopping' /\ \A r \in Processes : r # p => life'[r] = life[r]
    BY <1>2, <1>d DEF vanish, Stopping
  <2> QED BY <1>c, <1>f, <2>1
<1>3. ASSUME NEW p \in Processes, Exit(p)
      PROVE  IsFiniteSet(Stopping') /\ m1 = m - 1 /\ h1 = h /\ c1 = c /\ d1 = d
  <2>1. h1 = h /\ c1 = c /\ d1 = d /\ vanish(p) /\ life[p] = "stopping"
    BY <1>3 DEF Exit, Suffered
  <2> QED BY <1>2, <2>1
<1>4. ASSUME NEW p \in Processes, Crash(p)
      PROVE  IsFiniteSet(Stopping') /\ m1 \in {m, m - 1} /\ h1 = h /\ c1 = c + 1 /\ d1 = d
  <2>1. h1 = h /\ c1 = c + 1 /\ d1 = d /\ vanish(p)
    BY <1>4, <1>a, OneMore DEF Crash
  <2> QED BY <1>2, <1>c, <2>1
<1>5. ASSUME ~ \E p \in Processes : Stop(p) \/ Exit(p) \/ Crash(p)
      PROVE  IsFiniteSet(Stopping') /\ m1 = m /\ h1 = h /\ c1 = c /\ d <= d1
  <2>1. /\ UNCHANGED spare \/ \E k \in Mishaps \ {"crash", "shutdown"} : Suffer(k)
        /\ Stopping' = Stopping
    BY <1>5, OtherMishaps
  <2>2. CASE UNCHANGED spare
    BY <1>b, <1>c, <2>1, <2>2 DEF Suffered
  <2>3. ASSUME NEW k \in Mishaps \ {"crash", "shutdown"}, Suffer(k)
        PROVE  h1 = h /\ c1 = c /\ d <= d1
    <3>1. /\ Suffered(k)' = Suffered(k) + 1
          /\ \A i \in Mishaps : i # k => Suffered(i)' = Suffered(i)
      BY <2>3, OneMore
    <3>2. h1 = h /\ c1 = c
      BY <1>a, <3>1
    <3>3. d1 = d + 1 \/ d1 = d
      BY <1>a, <3>1
    <3> QED BY <1>b, <3>2, <3>3
  <2> QED BY <1>c, <2>1, <2>2, <2>3
<1>6. m1 \in Nat
  BY <1>1, <1>3, <1>4, <1>5, FS_CardinalityType
<1>7. StopsPaid' <=> IsFiniteSet(Stopping') /\ m1 <= h1
  BY DEF StopsPaid
<1> HIDE DEF c, c1, h, h1, d, d1, m, m1
<1>8. ASSUME NEW p \in Processes, Exit(p) \/ Crash(p)
      PROVE  IsFiniteSet(Stopping') /\ m1 <= h1 /\ d1 = d /\ c + h - m + 1 <= c1 + h1 - m1
  <2>1. CASE Exit(p)
    BY <1>b, <1>c, <1>3, <1>6, <2>1
  <2>2. CASE Crash(p)
    BY <1>b, <1>c, <1>4, <1>6, <2>2
  <2> QED BY <1>8, <2>1, <2>2
<1>9. ASSUME ~ \E p \in Processes : Exit(p) \/ Crash(p)
      PROVE  IsFiniteSet(Stopping') /\ m1 <= h1 /\ d <= d1 /\ c + h - m = c1 + h1 - m1
  <2>1. CASE \E p \in Processes : Stop(p)
    BY <1>b, <1>c, <1>1, <1>6, <2>1
  <2>2. CASE ~ \E p \in Processes : Stop(p)
    BY <1>b, <1>c, <1>5, <1>6, <1>9, <2>2
  <2> QED BY <2>1, <2>2
<1>10. d = Suffered("db") /\ d1 = Suffered("db")'
  BY DEF d, d1
<1>11. c + h - m \in Nat /\ c1 + h1 - m1 \in Int
  BY <1>b, <1>c, <1>6
<1>12. CASE \E p \in Processes : Exit(p) \/ Crash(p)
  BY <1>b, <1>e, <1>7, <1>8, <1>10, <1>11, <1>12
<1>13. CASE ~ \E p \in Processes : Exit(p) \/ Crash(p)
  BY <1>b, <1>e, <1>7, <1>9, <1>10, <1>11, <1>13
<1> QED BY <1>12, <1>13

(* What a step does to the triggers of a schedule: it keeps the balance of *)
(* the count against what was and will be created, or it is a tick that    *)
(* fails and takes one along, or a process that ends, with its ticks.      *)
LEMMA TriggerSteps ==
    ASSUME LeaderInv, LeaderInv', [ClusterNext]_clusterVars, NEW s \in Schedules,
           IsFiniteSet(CreatingAt(s))
    PROVE  /\ IsFiniteSet(CreatingAt(s)')
           /\ schedules'[s].state # "deleted" => schedules[s].state # "deleted"
           /\ \/ schedules'[s].state = "deleted"
              \/ created'[s] + Creating(s)' + schedules[s].count
                     = created[s] + Creating(s) + schedules'[s].count
              \/ /\ \E p \in Processes : Exit(p) \/ Crash(p)
                 /\ created'[s] = created[s] /\ schedules'[s].count = schedules[s].count
                 /\ Creating(s)' <= Creating(s)
                 /\ Creating(s) <= Creating(s)' + Cardinality(Ticks)
              \/ /\ Suffer("db")
                 /\ created'[s] = created[s] /\ schedules'[s].count = schedules[s].count
                 /\ Creating(s)' <= Creating(s) /\ Creating(s) <= Creating(s)' + 1
<1> DEFINE n == schedules[s].count  n1 == schedules'[s].count
           a == created[s]  a1 == created'[s]
           C == CreatingAt(s)  C1 == CreatingAt(s)'
           k == Cardinality(C)  k1 == Cardinality(C1)
           Dead == schedules'[s].state = "deleted"
           Kept == IsFiniteSet(C1) /\ (schedules[s].state = "deleted" => Dead)
<1>0. /\ ticks \in [Processes -> [Ticks -> Tick]] /\ schedules \in [Schedules -> Schedule]
      /\ schedules[s] \in Schedule /\ created \in [Schedules -> Nat]
      /\ n \in Nat /\ n1 \in Nat /\ a \in Nat /\ a1 \in Nat /\ k \in Nat
  BY FS_CardinalityType DEF LeaderInv, ClusterTypeOK, CronTypeOK, Schedule
<1>1. Creating(s) = k /\ Creating(s)' = k1
  BY DEF Creating, CreatingAt
<1>2. ASSUME UNCHANGED <<ticks, created>>, n1 = n PROVE IsFiniteSet(C1) /\ k1 = k /\ a1 = a /\ n1 = n
  BY <1>2 DEF CreatingAt
<1>3. ASSUME NEW p \in Processes, NEW t \in Ticks, NEW x \in Tick,
             ticks' = [ticks EXCEPT ![p][t] = x]
      PROVE  /\ IsFiniteSet(C1)
             /\ k1 = k + (IF x.creating = s THEN 1 ELSE 0)
                       - (IF ticks[p][t].creating = s THEN 1 ELSE 0)
  <2>1. /\ \A y : y # <<p, t>> => (y \in C1 <=> y \in C)
        /\ <<p, t>> \in C1 <=> x.creating = s
        /\ <<p, t>> \in C <=> ticks[p][t].creating = s
    BY <1>0, <1>3 DEF CreatingAt
  <2> QED BY <2>1, OneMember
<1>4. ASSUME NEW p \in Processes, NEW t \in Ticks, BeginTick(p, t)
      PROVE  Kept /\ k1 = k /\ a1 = a /\ n1 = n
  <2> DEFINE x == [ticks[p][t] EXCEPT !.todo = dueSchedules]
  <2>1. x \in Tick /\ x.creating = NoSchedule /\ ticks[p][t].creating = NoSchedule
    BY <1>0, <1>4 DEF BeginTick, NoTick, Tick, dueSchedules
  <2>2. ticks' = [ticks EXCEPT ![p][t] = x]
    BY <1>4 DEF BeginTick
  <2> HIDE DEF x
  <2>3. IsFiniteSet(C1) /\ k1 = k
    <3>1. /\ IsFiniteSet(C1)
          /\ k1 = k + (IF x.creating = s THEN 1 ELSE 0)
                    - (IF ticks[p][t].creating = s THEN 1 ELSE 0)
      BY <1>3, <2>1, <2>2
    <3> HIDE DEF C, C1, k, k1
    <3> QED BY <1>0, CronAssumption, <2>1, <3>1
  <2> QED BY <1>4, <2>3 DEF BeginTick
<1>5. ASSUME NEW p \in Processes, NEW t \in Ticks, NEW r \in Schedules, Advance(p, t, r)
      PROVE  Kept /\ (Dead \/ a1 + k1 + n = a + k + n1)
  <2> DEFINE x == [todo |-> ticks[p][t].todo \ {r}, creating |-> r]
  <2>1. x \in Tick /\ x.creating = r /\ ticks[p][t].creating # s
    BY <1>0, <1>5, CronAssumption DEF Advance, Tick
  <2>2. ticks' = [ticks EXCEPT ![p][t] = x] /\ a1 = a
    BY <1>5 DEF Advance
  <2> HIDE DEF x
  <2>3. IsFiniteSet(C1) /\ k1 = k + IF r = s THEN 1 ELSE 0
    <3>1. /\ IsFiniteSet(C1)
          /\ k1 = k + (IF x.creating = s THEN 1 ELSE 0)
                    - (IF ticks[p][t].creating = s THEN 1 ELSE 0)
      BY <1>3, <2>1, <2>2
    <3> HIDE DEF C, C1, k, k1
    <3> QED BY <1>0, <2>1, <3>1
  <2>4. CASE r # s
    BY <1>0, <1>5, <2>2, <2>3, <2>4 DEF Advance
  <2>5. CASE r = s
    <3>1. ASSUME schedules[s].state = "deleted" PROVE Dead
      BY <1>0, <1>5, <2>5, <3>1 DEF Advance
    <3>2. ASSUME schedules[s].state # "deleted" PROVE n1 = n + 1
      <4>1. schedules'[s] = advanced(schedules[s])
        BY <1>0, <1>5, <2>5, <3>2 DEF Advance
      <4> QED BY <1>0, <4>1 DEF advanced, Schedule
    <3>3. n1 = n + 1 => a1 + k1 + n = a + k + n1
      BY <1>0, <2>2, <2>3, <2>5
    <3> QED BY <2>3, <3>1, <3>2, <3>3
  <2> QED BY <2>4, <2>5
<1>6. ASSUME NEW p \in Processes, NEW t \in Ticks, Trigger(p, t)
      PROVE  Kept /\ a1 + k1 + n = a + k + n1
  <2> DEFINE x == [ticks[p][t] EXCEPT !.creating = NoSchedule]
             r == ticks[p][t].creating
  <2>1. x \in Tick /\ x.creating # s /\ r \in Schedules
    BY <1>0, <1>6, CronAssumption DEF Trigger, Tick
  <2>2. /\ ticks' = [ticks EXCEPT ![p][t] = x] /\ n1 = n /\ schedules' = schedules
        /\ created' = [created EXCEPT ![r] = @ + 1]
    BY <1>6 DEF Trigger
  <2> HIDE DEF x
  <2>3. IsFiniteSet(C1) /\ k1 = k - IF r = s THEN 1 ELSE 0
    <3>1. /\ IsFiniteSet(C1)
          /\ k1 = k + (IF x.creating = s THEN 1 ELSE 0)
                    - (IF ticks[p][t].creating = s THEN 1 ELSE 0)
      BY <1>3, <2>1, <2>2
    <3> HIDE DEF C, C1, k, k1
    <3> QED BY <1>0, <2>1, <3>1
  <2> HIDE DEF r
  <2>4. a1 = a + IF r = s THEN 1 ELSE 0
    BY <1>0, <2>1, <2>2
  <2> QED BY <1>0, <2>2, <2>3, <2>4
<1>7. ASSUME NEW p \in Processes, NEW t \in Ticks, TickFails(p, t)
      PROVE  Kept /\ a1 = a /\ n1 = n /\ k1 \in {k, k - 1} /\ Suffer("db")
  <2>1. NoTick \in Tick /\ NoTick.creating # s /\ ticks' = [ticks EXCEPT ![p][t] = NoTick]
    BY <1>7, CronAssumption DEF TickFails, NoTick, Tick
  <2>2. IsFiniteSet(C1) /\ k1 \in {k, k - 1}
    <3>1. /\ IsFiniteSet(C1)
          /\ k1 = k + (IF NoTick.creating = s THEN 1 ELSE 0)
                    - (IF ticks[p][t].creating = s THEN 1 ELSE 0)
      BY <1>3, <2>1
    <3> HIDE DEF C, C1, k, k1
    <3> QED BY <1>0, <2>1, <3>1
  <2> QED BY <1>7, <2>2 DEF TickFails
<1>8. ASSUME NEW p \in Processes, vanish(p)
      PROVE  Kept /\ a1 = a /\ n1 = n /\ k1 <= k /\ k <= k1 + Cardinality(Ticks)
  <2> DEFINE B == {p} \X Ticks
  <2>1. IsFiniteSet(B) /\ Cardinality(B) = Cardinality(Ticks)
    <3>1. IsFiniteSet({p}) /\ Cardinality({p}) = 1
      BY FS_Singleton
    <3>2. Cardinality(Ticks) \in Nat
      BY CronAssumption, FS_CardinalityType
    <3> QED BY <3>1, <3>2, CronAssumption, FS_Product
  <2>2. ticks' = [ticks EXCEPT ![p] = [t \in Ticks |-> NoTick]] /\ NoTick.creating # s
    BY <1>8, CronAssumption DEF vanish, cronForget, NoTick
  <2>3. C1 \subseteq C /\ C \ B \subseteq C1
    BY <1>0, <2>2 DEF CreatingAt
  <2> HIDE DEF B
  <2>4. IsFiniteSet(C1) /\ k1 <= k /\ k <= k1 + Cardinality(Ticks)
    BY <2>1, <2>3, SomeLeave
  <2> QED BY <1>8, <2>4 DEF vanish, cronForget
<1>9. ASSUME NEW r \in Schedules, ScheduleRequests(r) \/ FallDue(r)
      PROVE  Kept /\ k1 = k /\ a1 = a /\ n1 = n
  <2>1. ASSUME NEW st \in {"active", "paused", "deleted"}, setState(r, st),
               schedules[r].state # "deleted"
        PROVE  n1 = n /\ (schedules[s].state = "deleted" => Dead) /\ UNCHANGED <<ticks, created>>
    BY <1>0, <2>1 DEF setState, Schedule
  <2>2. ASSUME FallDue(r)
        PROVE  n1 = n /\ (schedules[s].state = "deleted" => Dead) /\ UNCHANGED <<ticks, created>>
    BY <1>0, <2>2 DEF FallDue, Schedule
  <2>3. n1 = n /\ (schedules[s].state = "deleted" => Dead) /\ UNCHANGED <<ticks, created>>
    BY <1>9, <2>1, <2>2 DEF ScheduleRequests, PostSchedule, PauseSchedule, DeleteSchedule
  <2> QED BY <1>2, <2>3
<1>10. ASSUME UNCHANGED <<ticks, schedules, created>> PROVE Kept /\ k1 = k /\ a1 = a /\ n1 = n
  BY <1>2, <1>10
<1>11. ASSUME NEW p \in Processes, Start(p) \/ StepDown(p) \/ TryAgain(p) \/ Stop(p)
       PROVE  UNCHANGED <<ticks, schedules, created>>
  BY <1>11 DEF Start, StepDown, TryAgain, tryBecomeLeader, Stop, cronTables
<1>12. ASSUME KeyExpires \/ RenewalIsLate \/ UNCHANGED clusterVars
       PROVE  UNCHANGED <<ticks, schedules, created>>
  BY <1>12 DEF KeyExpires, RenewalIsLate, cronVars, clusterVars
<1>13. Kept /\ \/ Dead \/ a1 + k1 + n = a + k + n1
               \/ /\ \E p \in Processes : Exit(p) \/ Crash(p)
                  /\ a1 = a /\ n1 = n /\ k1 <= k /\ k <= k1 + Cardinality(Ticks)
               \/ Suffer("db") /\ a1 = a /\ n1 = n /\ k1 \in {k, k - 1}
  <2> HIDE DEF Kept, Dead, a, a1, n, n1, k, k1
  <2>1. k1 = k /\ a1 = a /\ n1 = n => a1 + k1 + n = a + k + n1
    OBVIOUS
  <2>2. ASSUME NEW p \in Processes, CronStep(p)
        PROVE  Kept /\ (Dead \/ a1 + k1 + n = a + k + n1)
    BY <1>4, <1>5, <1>6, <2>1, <2>2 DEF CronStep, TickSteps
  <2>3. ASSUME NEW p \in Processes, Exit(p) \/ Crash(p)
        PROVE  Kept /\ a1 = a /\ n1 = n /\ k1 <= k /\ k <= k1 + Cardinality(Ticks)
    BY <1>8, <2>3 DEF Exit, Crash
  <2> QED BY <1>7, <1>9, <1>10, <1>11, <1>12, <2>1, <2>2, <2>3 DEF ClusterNext
<1>14. CASE Suffer("db") /\ a1 = a /\ n1 = n /\ k1 \in {k, k - 1}
  <2>1. k1 <= k /\ k <= k1 + 1
    BY <1>0, <1>14
  <2> QED BY <1>1, <1>13, <1>14, <2>1
<1>15. CASE ~(Suffer("db") /\ a1 = a /\ n1 = n /\ k1 \in {k, k - 1})
  BY <1>1, <1>13, <1>15
<1> QED BY <1>14, <1>15

(* The invariant holds at the start, when nothing was triggered.           *)
LEMMA TriggerInit == ClusterInit => TriggerInv
<1> SUFFICES ASSUME ClusterInit PROVE TriggerInv
  OBVIOUS
<1>1. Stopping = {} /\ \A s \in Schedules : CreatingAt(s) = {}
  BY CronAssumption DEF ClusterInit, CronInit, NoTick, Stopping, CreatingAt
<1>2. IsFiniteSet({}) /\ Cardinality({}) = 0
  BY FS_EmptySet
<1>3. \A k \in Mishaps : Suffered(k) = 0
  BY BoundsAssumption DEF ClusterInit, SpareInit, Suffered
<1>4. Suffered("crash") = 0 /\ Suffered("shutdown") = 0 /\ Suffered("db") = 0
  BY <1>3 DEF Mishaps
<1>5. StopsPaid
  BY <1>1, <1>2, <1>4 DEF StopsPaid
<1>6. Ends = 0
  BY <1>1, <1>2, <1>4 DEF Ends
<1>7. Lost = 0
  <2>1. Cardinality(Ticks) \in Nat
    BY CronAssumption, FS_CardinalityType
  <2> QED BY <1>4, <1>6, <2>1 DEF Lost
<1>8. ASSUME NEW s \in Schedules
      PROVE  /\ IsFiniteSet(CreatingAt(s))
             /\ created[s] = 0 /\ Creating(s) = 0 /\ schedules[s].count = 0
  BY <1>1, <1>2 DEF Creating, CreatingAt, ClusterInit, CronInit
<1> QED BY <1>5, <1>7, <1>8 DEF TriggerInv

(* The losses that a step adds cover the triggers it loses.                *)
LEMMA TriggerStep ==
    LeaderInv /\ LeaderInv' /\ TriggerInv /\ [ClusterNext]_clusterVars => TriggerInv'
<1> SUFFICES ASSUME LeaderInv, LeaderInv', TriggerInv, [ClusterNext]_clusterVars
             PROVE  TriggerInv'
  OBVIOUS
<1> DEFINE T == Cardinality(Ticks)  e == Ends  e1 == Ends'
           d == Suffered("db")  d1 == Suffered("db")'
<1>1. /\ StopsPaid' /\ e \in Nat /\ e1 \in Nat /\ e <= e1 /\ d \in Nat /\ d1 \in Nat /\ d <= d1
      /\ (\E p \in Processes : Exit(p) \/ Crash(p)) => e + 1 <= e1
  BY EndsGrow DEF TriggerInv
<1>2. Suffer("db") => d1 = d + 1
  BY OneMore DEF Mishaps
<1>3. T \in Nat
  BY CronAssumption, FS_CardinalityType
<1>4. Lost = d + T * e /\ Lost' = d1 + T * e1
  BY DEF Lost
<1> HIDE DEF T, e, e1, d, d1
<1>5. /\ T * e \in Nat /\ T * e1 \in Nat /\ T * e <= T * e1
      /\ (\E p \in Processes : Exit(p) \/ Crash(p)) => T * e + T <= T * e1
  BY <1>1, <1>3, Multiples
<1>6. /\ Lost \in Nat /\ Lost' \in Nat /\ Lost <= Lost'
      /\ (\E p \in Processes : Exit(p) \/ Crash(p)) => Lost + T <= Lost'
      /\ Suffer("db") => Lost + 1 <= Lost'
  <2> DEFINE x == T * e  y == T * e1
  <2> HIDE DEF x, y
  <2>1. x \in Nat /\ y \in Nat /\ x <= y /\ Lost = d + x /\ Lost' = d1 + y
    BY <1>4, <1>5 DEF x, y
  <2>2. (\E p \in Processes : Exit(p) \/ Crash(p)) => x + T <= y
    BY <1>5 DEF x, y
  <2>3. Lost \in Nat /\ Lost' \in Nat /\ Lost <= Lost'
    BY <1>1, <2>1
  <2>4. Suffer("db") => Lost + 1 <= Lost'
    BY <1>1, <1>2, <2>1
  <2>5. (\E p \in Processes : Exit(p) \/ Crash(p)) => Lost + T <= Lost'
    BY <1>1, <1>3, <2>1, <2>2
  <2> QED BY <2>3, <2>4, <2>5
<1>7. ASSUME NEW s \in Schedules
      PROVE  /\ IsFiniteSet(CreatingAt(s)')
             /\ schedules'[s].state # "deleted" =>
                  /\ created'[s] + Creating(s)' <= schedules'[s].count
                  /\ schedules'[s].count <= created'[s] + Creating(s)' + Lost'
  <2>1. IsFiniteSet(CreatingAt(s)) /\ IsFiniteSet(CreatingAt(s)')
    BY TriggerSteps DEF TriggerInv
  <2> SUFFICES ASSUME schedules'[s].state # "deleted"
               PROVE  /\ created'[s] + Creating(s)' <= schedules'[s].count
                      /\ schedules'[s].count <= created'[s] + Creating(s)' + Lost'
    BY <2>1
  <2> DEFINE a == created[s]  a1 == created'[s]  k == Creating(s)  k1 == Creating(s)'
             n == schedules[s].count  n1 == schedules'[s].count  l == Lost  l1 == Lost'
  <2>2. /\ a \in Nat /\ a1 \in Nat /\ n \in Nat /\ n1 \in Nat
        /\ k \in Nat /\ k1 \in Nat
    BY <2>1, FS_CardinalityType
       DEF LeaderInv, ClusterTypeOK, CronTypeOK, Schedule, Creating, CreatingAt
  <2>3. /\ \/ a1 + k1 + n = a + k + n1
           \/ /\ \E p \in Processes : Exit(p) \/ Crash(p)
              /\ a1 = a /\ n1 = n /\ k1 <= k /\ k <= k1 + T
           \/ Suffer("db") /\ a1 = a /\ n1 = n /\ k1 <= k /\ k <= k1 + 1
        /\ schedules[s].state # "deleted"
    BY <2>1, TriggerSteps DEF T
  <2>4. a + k <= n /\ n <= a + k + l
    BY <2>3 DEF TriggerInv
  <2>5. l \in Nat /\ l1 \in Nat /\ l <= l1
    BY <1>6
  <2>6. (\E p \in Processes : Exit(p) \/ Crash(p)) => l + T <= l1
    BY <1>6
  <2>7. Suffer("db") => l + 1 <= l1
    BY <1>6
  <2>8. a1 + k1 <= n1 /\ n1 <= a1 + k1 + l1
    <3> HIDE DEF a, a1, k, k1, n, n1, l, l1
    <3>1. CASE a1 + k1 + n = a + k + n1
      BY <2>2, <2>4, <2>5, <3>1
    <3>2. CASE /\ \E p \in Processes : Exit(p) \/ Crash(p)
               /\ a1 = a /\ n1 = n /\ k1 <= k /\ k <= k1 + T
      BY <1>3, <2>2, <2>4, <2>5, <2>6, <3>2
    <3>3. CASE Suffer("db") /\ a1 = a /\ n1 = n /\ k1 <= k /\ k <= k1 + 1
      BY <2>2, <2>4, <2>5, <2>7, <3>3
    <3> QED BY <2>3, <3>1, <3>2, <3>3
  <2> QED BY <2>8
<1> QED BY <1>1, <1>7 DEF TriggerInv

(* total_triggered_count of a schedule that is not deleted is what was     *)
(* created and what is about to be, but for one trigger for each failing   *)
(* statement and one per tick for each process that ended: for any number  *)
(* of leaders whose ticks overlap and race for the same schedules.         *)
THEOREM TriggersCounted == ClusterSpec => []TriggersAreCounted
<1>1. LeaderInv /\ TriggerInv => TriggersAreCounted
  <2> SUFFICES ASSUME LeaderInv, TriggerInv, NEW s \in Schedules, schedules[s].state # "deleted"
               PROVE  /\ created[s] + Creating(s) <= schedules[s].count
                      /\ schedules[s].count <= created[s] + Creating(s) + (Suffered("db")
                             + Cardinality(Ticks) * (Suffered("crash") + Suffered("shutdown")))
    BY DEF TriggersAreCounted
  <2> DEFINE T == Cardinality(Ticks)  c == Suffered("crash") + Suffered("shutdown")
             m == Cardinality(Stopping)
  <2>1. T \in Nat /\ m \in Nat
    BY CronAssumption, FS_CardinalityType DEF TriggerInv, StopsPaid
  <2>2. \A k \in Mishaps : Suffered(k) \in Nat
    BY SufferedNat
  <2>3. Suffered("crash") \in Nat /\ Suffered("shutdown") \in Nat /\ Suffered("db") \in Nat
    BY <2>2 DEF Mishaps
  <2>4. c \in Nat /\ Ends = c - m /\ Ends \in Nat /\ Ends <= c
    BY <2>1, <2>3 DEF TriggerInv, StopsPaid, Ends
  <2>5. T * Ends \in Nat /\ T * c \in Nat /\ T * Ends <= T * c
    <3> HIDE DEF c, T
    <3> QED BY <2>1, <2>4, Multiples
  <2>6. Lost <= Suffered("db") + T * c /\ Lost \in Nat /\ Suffered("db") + T * c \in Nat
    <3> DEFINE x == T * Ends  y == T * c
    <3>1. Lost = Suffered("db") + x
      BY DEF Lost
    <3>2. x \in Nat /\ y \in Nat /\ x <= y
      BY <2>5
    <3> HIDE DEF x, y
    <3>3. Lost <= Suffered("db") + y /\ Lost \in Nat /\ Suffered("db") + y \in Nat
      BY <2>3, <3>1, <3>2
    <3> QED BY <3>3 DEF y
  <2>7. created[s] \in Nat /\ Creating(s) \in Nat /\ schedules[s].count \in Nat
    BY FS_CardinalityType
       DEF LeaderInv, ClusterTypeOK, CronTypeOK, Schedule, Creating, CreatingAt, TriggerInv
  <2>8. /\ created[s] + Creating(s) <= schedules[s].count
        /\ schedules[s].count <= created[s] + Creating(s) + Lost
    BY DEF TriggerInv
  <2> DEFINE z == Suffered("db") + T * c
  <2>9. z \in Nat /\ Lost <= z
    BY <2>6
  <2>10. schedules[s].count <= created[s] + Creating(s) + z
    <3> HIDE DEF z
    <3> QED BY <2>6, <2>7, <2>8, <2>9
  <2> QED BY <2>8, <2>10
<1> QED BY <1>1, TriggerInit, TriggerStep, LeaderInvariant, PTL DEF ClusterSpec
================================================================================
