-------------------------- MODULE SeparatePartsProofs --------------------------
(***************************************************************************)
(* The parts that run on their own, for every configuration: who may keep  *)
(* the lock of the leader election without leading, the bounds of the      *)
(* worker pool, and all parts side by side.                                *)
(***************************************************************************)
EXTENDS SeparateParts, SelectionProofs, ResolverProofs

SpareBounded == \A k \in Mishaps : spare[k] <= Bounds[k]

(* Nothing is left of an instance that was not stopped but never started,  *)
(* or that crashed.                                                        *)
Cleared(p) == Len(calls[p]) = 0 /\ naps[p] = 0 /\ leaked[p] = 0 /\ p \notin renewal

(* While no renewal overtakes the next, a running process has one thread   *)
(* of control: it sleeps, waits for its timer or for the answer to one     *)
(* campaign; or it leads, with one interval and at most one renewal.       *)
Campaigning(p) ==
    /\ role[p] # "LEADER" /\ p \notin renewal
    /\ \/ Len(calls[p]) = 0 /\ naps[p] + waits[p] = 1
       \/ Len(calls[p]) = 1 /\ calls[p][1].op = "campaign" /\ naps[p] = 0 /\ waits[p] = 0

Leading(p) ==
    /\ role[p] = "LEADER" /\ p \in renewal
    /\ naps[p] = 0 /\ waits[p] = 0
    /\ \/ Len(calls[p]) = 0
       \/ Len(calls[p]) = 1 /\ calls[p][1].op = "renew"

SingleThread(p) == leaked[p] = 0 /\ (Campaigning(p) \/ Leading(p))

Known(p) ==
    /\ p \notin running => waits[p] = 0 /\ (Cleared(p) \/ Suffered("shutdown") > 0)
    /\ p \in running => SingleThread(p) \/ Suffered("slow") > 0

ThreadInv == \A p \in Processes : Known(p)

ElectionInv == ElectionTypeOK /\ SpareBounded

--------------------------------------------------------------------------------
(* Types.                                                                  *)

(* A step that suffers nothing, or one mishap.                             *)
LEMMA MishapOK ==
    ASSUME SpareTypeOK, SpareBounded, UNCHANGED spare \/ \E k \in Mishaps : Suffer(k)
    PROVE  /\ SpareTypeOK' /\ SpareBounded'
           /\ \A k \in Mishaps : Suffered(k) > 0 => Suffered(k)' > 0
           /\ \A k \in Mishaps : Suffer(k) => Suffered(k)' > 0
<1>1. \A k \in Mishaps : spare[k] \in Nat /\ Bounds[k] \in Nat /\ spare[k] <= Bounds[k]
  BY BoundsAssumption DEF SpareTypeOK, SpareBounded
<1>2. ASSUME NEW k \in Mishaps, Suffer(k)
      PROVE  /\ spare[k] > 0 /\ spare'[k] = spare[k] - 1 /\ spare' \in [Mishaps -> Nat]
             /\ \A i \in Mishaps : i # k => spare'[i] = spare[i]
  BY <1>2 DEF Suffer, SpareTypeOK
<1>3. spare' \in [Mishaps -> Nat] /\ \A k \in Mishaps : spare'[k] <= spare[k]
  BY <1>1, <1>2 DEF SpareTypeOK
<1>4. SpareTypeOK' /\ SpareBounded'
  BY <1>1, <1>3 DEF SpareTypeOK, SpareBounded
<1>5. ASSUME NEW k \in Mishaps, Suffered(k) > 0 PROVE Suffered(k)' > 0
  BY <1>1, <1>3, <1>5 DEF Suffered
<1>6. ASSUME NEW k \in Mishaps, Suffer(k) PROVE Suffered(k)' > 0
  BY <1>1, <1>2, <1>6 DEF Suffered
<1> QED BY <1>4, <1>5, <1>6

(* Which mishaps the steps suffer.                                         *)
LEMMA ElectionMishaps ==
    ASSUME [ElectionNext]_electionVars
    PROVE  UNCHANGED spare \/ \E k \in Mishaps : Suffer(k)
<1>1. {"shutdown", "crash", "redis", "slow", "pause"} \subseteq Mishaps
  BY DEF Mishaps
<1>2. ASSUME NEW p \in Processes, Answer(p) PROVE UNCHANGED spare
  BY <1>2 DEF Answer, CampaignWins, CampaignLoses, Renewed, RenewalFails, OldRenewalFails, Released
<1>3. ASSUME NEW p \in Processes, Start(p) \/ Wakes(p) PROVE UNCHANGED spare
  BY <1>3 DEF Start, Wakes, CampaignTimerFires, NapEnds
<1>4. ASSUME NEW p \in Processes,
             Stop(p) \/ CrashInstance(p) \/ CampaignThrows(p) \/ CallThrows(p) \/ RenewalTicks(p)
      PROVE  UNCHANGED spare \/ \E k \in {"shutdown", "crash", "redis", "slow"} : Suffer(k)
  BY <1>4 DEF Stop, CrashInstance, CampaignThrows, CallThrows, RenewalTicks
<1>5. ASSUME LockExpires PROVE UNCHANGED spare \/ Suffer("pause")
  BY <1>5 DEF LockExpires
<1> QED BY <1>1, <1>2, <1>3, <1>4, <1>5 DEF ElectionNext, electionVars

(* What the operations on the commands of a process do.                    *)
LEMMA CallsOK ==
    ASSUME NEW cs \in [Processes -> Seq(Call)], NEW p \in Processes
    PROVE  /\ \A op \in {"campaign", "renew", "release"} :
                /\ Append(cs[p], [op |-> op, current |-> TRUE]) \in Seq(Call)
                /\ Len(Append(cs[p], [op |-> op, current |-> TRUE])) = Len(cs[p]) + 1
                /\ Len(cs[p]) = 0 => Append(cs[p], [op |-> op, current |-> TRUE])[1].op = op
           /\ cs[p] # <<>> => /\ Tail(cs[p]) \in Seq(Call)
                              /\ Len(Tail(cs[p])) = Len(cs[p]) - 1
                              /\ Head(cs[p]) = cs[p][1]
                              /\ Len(cs[p]) \in Nat /\ Len(cs[p]) >= 1
           /\ Len(cs[p]) \in Nat
<1>1. ASSUME NEW op \in {"campaign", "renew", "release"}
      PROVE  [op |-> op, current |-> TRUE] \in Call /\ [op |-> op, current |-> TRUE].op = op
  BY DEF Call
<1>2. cs[p] \in Seq(Call)
  OBVIOUS
<1>3. ASSUME NEW s \in Seq(Call), NEW c \in Call
      PROVE  /\ Append(s, c) \in Seq(Call) /\ Len(Append(s, c)) = Len(s) + 1
             /\ Append(s, c)[Len(s) + 1] = c /\ Len(s) \in Nat
  OBVIOUS
<1>4. ASSUME NEW s \in Seq(Call), s # <<>>
      PROVE  /\ Tail(s) \in Seq(Call) /\ Len(Tail(s)) = Len(s) - 1 /\ Head(s) = s[1]
             /\ Len(s) \in Nat /\ Len(s) >= 1
  BY <1>4
<1>5. ASSUME NEW op \in {"campaign", "renew", "release"}, Len(cs[p]) = 0
      PROVE  Append(cs[p], [op |-> op, current |-> TRUE])[1].op = op
  BY <1>1, <1>2, <1>3, <1>5
<1> QED BY <1>1, <1>2, <1>3, <1>4, <1>5

(* The commands behind a campaign that won are of an older token.          *)
LEMMA OutdatedOK ==
    ASSUME NEW s \in Seq(Call)
    PROVE  /\ [i \in 1..Len(s) |-> [s[i] EXCEPT !.current = FALSE]] \in Seq(Call)
           /\ Len([i \in 1..Len(s) |-> [s[i] EXCEPT !.current = FALSE]]) = Len(s)
<1> DEFINE t == [i \in 1..Len(s) |-> [s[i] EXCEPT !.current = FALSE]]
<1>1. Len(s) \in Nat /\ \A i \in 1..Len(s) : s[i] \in Call
  OBVIOUS
<1>2. \A c \in Call : [c EXCEPT !.current = FALSE] \in Call
  BY DEF Call
<1>3. t \in [1..Len(s) -> Call]
  BY <1>1, <1>2
<1> HIDE DEF t
<1>4. t \in Seq(Call) /\ Len(t) = Len(s)
  BY <1>1, <1>3
<1> QED BY <1>4 DEF t

(* Commands are sent and answered for one process.                         *)
LEMMA CallSteps ==
    ASSUME ElectionTypeOK, NEW p \in Processes
    PROVE  /\ \A op \in {"campaign", "renew", "release"} :
                send(p, op) => /\ calls' \in [Processes -> Seq(Call)]
                               /\ \A q \in Processes : q # p => calls'[q] = calls[q]
                               /\ Len(calls'[p]) = Len(calls[p]) + 1
                               /\ Len(calls[p]) = 0 => calls'[p][1].op = op
           /\ calls[p] # <<>> /\ answered(p) =>
                /\ calls' \in [Processes -> Seq(Call)]
                /\ \A q \in Processes : q # p => calls'[q] = calls[q]
                /\ Len(calls'[p]) = Len(calls[p]) - 1
<1>0. calls \in [Processes -> Seq(Call)]
  BY DEF ElectionTypeOK
<1>1. ASSUME NEW x \in Seq(Call), calls' = [calls EXCEPT ![p] = x]
      PROVE  /\ calls' \in [Processes -> Seq(Call)] /\ calls'[p] = x
             /\ \A q \in Processes : q # p => calls'[q] = calls[q]
  BY <1>0, <1>1
<1>2. ASSUME NEW op \in {"campaign", "renew", "release"}, send(p, op)
      PROVE  /\ calls' \in [Processes -> Seq(Call)]
             /\ \A q \in Processes : q # p => calls'[q] = calls[q]
             /\ Len(calls'[p]) = Len(calls[p]) + 1
             /\ Len(calls[p]) = 0 => calls'[p][1].op = op
  <2> DEFINE x == Append(calls[p], [op |-> op, current |-> TRUE])
  <2>1. /\ x \in Seq(Call) /\ Len(x) = Len(calls[p]) + 1
        /\ Len(calls[p]) = 0 => x[1].op = op
    BY <1>0, CallsOK
  <2>2. calls' = [calls EXCEPT ![p] = x]
    BY <1>2 DEF send
  <2> HIDE DEF x
  <2> QED BY <1>1, <2>1, <2>2
<1>3. ASSUME calls[p] # <<>>, answered(p)
      PROVE  /\ calls' \in [Processes -> Seq(Call)]
             /\ \A q \in Processes : q # p => calls'[q] = calls[q]
             /\ Len(calls'[p]) = Len(calls[p]) - 1
  <2> DEFINE x == Tail(calls[p])
  <2>1. x \in Seq(Call) /\ Len(x) = Len(calls[p]) - 1
    BY <1>0, <1>3, CallsOK
  <2>2. calls' = [calls EXCEPT ![p] = x]
    BY <1>3 DEF answered
  <2> HIDE DEF x
  <2> QED BY <1>1, <2>1, <2>2
<1> QED BY <1>2, <1>3

(* The actions of one process, those of Redis for it included.             *)
ProcessSteps(p) ==
    \/ Start(p) \/ Stop(p) \/ CrashInstance(p)
    \/ Answer(p) \/ (calls[p] # <<>> /\ (CampaignThrows(p) \/ CallThrows(p)))
    \/ Wakes(p) \/ RenewalTicks(p)

(* What a process has of its own, but for the commands under way.          *)
OwnTypes ==
    /\ running \in SUBSET Processes
    /\ role \in [Processes -> Roles]
    /\ naps \in [Processes -> Nat]
    /\ waits \in [Processes -> Nat]
    /\ renewal \in SUBSET Processes
    /\ leaked \in [Processes -> Nat]

Kept(q) ==
    /\ role'[q] = role[q] /\ naps'[q] = naps[q] /\ waits'[q] = waits[q]
    /\ leaked'[q] = leaked[q]
    /\ q \in running' <=> q \in running
    /\ q \in renewal' <=> q \in renewal

(* The lock and the map of entries.                                        *)
LEMMA LockSteps ==
    ASSUME LockTypeOK, NEW p \in Processes, ProcessSteps(p)
    PROVE  LockTypeOK'
<1> USE DEF LockTypeOK
<1>1. ASSUME UNCHANGED <<key, held>> PROVE LockTypeOK'
  BY <1>1
<1>2. ASSUME forget(p) \/ release(p) \/ renewFails(p) \/ tryAcquire(p) \/ acquireRefused(p)
             \/ acquireThrows(p)
      PROVE  LockTypeOK'
  BY <1>2 DEF forget, release, renewFails, tryAcquire, acquireRefused, acquireThrows
<1>3. ASSUME CallThrows(p) PROVE LockTypeOK'
  BY <1>3 DEF CallThrows
<1> HIDE DEF LockTypeOK
<1>4. ASSUME Start(p) \/ Stop(p) \/ Wakes(p) \/ RenewalTicks(p) PROVE UNCHANGED <<key, held>>
  BY <1>4 DEF Start, Stop, Wakes, CampaignTimerFires, NapEnds, RenewalTicks
<1>5. ASSUME Answer(p) \/ CampaignThrows(p) \/ CrashInstance(p) PROVE LockTypeOK'
  BY <1>1, <1>2, <1>5
     DEF Answer, CampaignWins, CampaignLoses, Renewed, RenewalFails, OldRenewalFails, Released,
         CampaignThrows, CrashInstance
<1> QED BY <1>1, <1>3, <1>4, <1>5 DEF ProcessSteps

(* Roles, timers and intervals.                                            *)
LEMMA OwnSteps ==
    ASSUME OwnTypes, NEW p \in Processes, ProcessSteps(p)
    PROVE  OwnTypes' /\ \A q \in Processes : q # p => Kept(q)
<1> DEFINE Goal == OwnTypes' /\ \A q \in Processes : q # p => Kept(q)
<1> USE DEF OwnTypes, Kept, Roles
<1>1. ASSUME Start(p) PROVE Goal
  BY <1>1 DEF Start, become
<1>2. ASSUME Stop(p) PROVE Goal
  BY <1>2 DEF Stop, become
<1>3. ASSUME CrashInstance(p) PROVE Goal
  BY <1>3 DEF CrashInstance, become
<1>4. ASSUME CampaignWins(p) PROVE Goal
  BY <1>4 DEF CampaignWins, becomeLeader, become
<1>5. ASSUME CampaignLoses(p) \/ CampaignThrows(p) PROVE Goal
  BY <1>5 DEF CampaignLoses, CampaignThrows, setCampaignTimer, become
<1>6. ASSUME CampaignTimerFires(p) PROVE Goal
  BY <1>6 DEF CampaignTimerFires, campaign, become
<1>7. ASSUME NapEnds(p) PROVE Goal
  BY <1>7 DEF NapEnds, campaign, become
<1>8. ASSUME RenewalTicks(p) PROVE Goal
  BY <1>8 DEF RenewalTicks, stepDown, become
<1>9. ASSUME Renewed(p) \/ CallThrows(p) PROVE Goal
  BY <1>9 DEF Renewed, CallThrows
<1>10. ASSUME RenewalFails(p) \/ OldRenewalFails(p) PROVE Goal
  BY <1>10 DEF RenewalFails, OldRenewalFails, stepDown, become
<1>11. ASSUME Released(p) PROVE Goal
  BY <1>11 DEF Released, become
<1> HIDE DEF Goal, OwnTypes, Kept, Roles
<1>12. Goal
  BY <1>1, <1>2, <1>3, <1>4, <1>5, <1>6, <1>7, <1>8, <1>9, <1>10, <1>11
     DEF ProcessSteps, Answer, Wakes
<1> QED BY <1>12 DEF Goal

(* Commands under way.                                                     *)
LEMMA QueueSteps ==
    ASSUME ElectionTypeOK, NEW p \in Processes, ProcessSteps(p)
    PROVE  /\ calls' \in [Processes -> Seq(Call)]
           /\ \A q \in Processes : q # p => calls'[q] = calls[q]
<1> DEFINE Goal == /\ calls' \in [Processes -> Seq(Call)]
                   /\ \A q \in Processes : q # p => calls'[q] = calls[q]
<1>0. calls \in [Processes -> Seq(Call)]
  BY DEF ElectionTypeOK
<1>1. ASSUME UNCHANGED calls PROVE Goal
  BY <1>0, <1>1
<1>2. ASSUME NEW op \in {"campaign", "renew", "release"}, send(p, op) PROVE Goal
  BY <1>2, CallSteps
<1>3. ASSUME calls[p] # <<>>, answered(p) PROVE Goal
  BY <1>3, CallSteps
<1>4. ASSUME calls[p] # <<>>, CampaignWins(p) PROVE Goal
  <2> DEFINE x == [i \in 1..Len(Tail(calls[p])) |-> [Tail(calls[p])[i] EXCEPT !.current = FALSE]]
  <2>1. x \in Seq(Call)
    BY <1>0, <1>4, CallsOK, OutdatedOK
  <2>2. calls' = [calls EXCEPT ![p] = x]
    BY <1>4 DEF CampaignWins
  <2> HIDE DEF x
  <2> QED BY <1>0, <2>1, <2>2
<1>5. ASSUME CrashInstance(p) PROVE Goal
  <2>1. <<>> \in Seq(Call)
    OBVIOUS
  <2> QED BY <1>0, <1>5, <2>1 DEF CrashInstance
<1> HIDE DEF Goal
<1>6. Goal
  BY <1>1, <1>2, <1>3, <1>4, <1>5
     DEF ProcessSteps, Start, Stop, Answer, CampaignLoses, CampaignThrows, CallThrows, Renewed,
         RenewalFails, OldRenewalFails, Released, Wakes, CampaignTimerFires, NapEnds, campaign,
         RenewalTicks
<1> QED BY <1>6 DEF Goal

(* The types hold at the start.                                            *)
LEMMA ElectionStart ==
    ASSUME ElectionInit PROVE ElectionInv
<1>1. <<>> \in Seq(Call)
  OBVIOUS
<1> QED BY <1>1, BoundsAssumption
        DEF ElectionInit, SpareInit, LockInit, ElectionInv, ElectionTypeOK, SpareTypeOK,
            LockTypeOK, SpareBounded, Roles

(* Every step of the election keeps them.                                  *)
LEMMA ElectionStep ==
    ASSUME ElectionInv, [ElectionNext]_electionVars PROVE ElectionInv'
<1>0. ElectionTypeOK
  BY DEF ElectionInv
<1>1. SpareTypeOK' /\ SpareBounded'
  BY ElectionMishaps, MishapOK DEF ElectionInv, ElectionTypeOK
<1>2. ASSUME NEW p \in Processes, ProcessSteps(p) PROVE ElectionInv'
  BY <1>0, <1>1, <1>2, LockSteps, OwnSteps, QueueSteps DEF ElectionInv, ElectionTypeOK, OwnTypes
<1>3. CASE LockExpires
  BY <1>0, <1>1, <1>3 DEF LockExpires, expire, ElectionInv, ElectionTypeOK, LockTypeOK
<1>4. CASE UNCHANGED electionVars
  BY <1>0, <1>1, <1>4 DEF electionVars, ElectionInv, ElectionTypeOK, LockTypeOK
<1> QED BY <1>2, <1>3, <1>4 DEF ElectionNext, ProcessSteps

(* The types hold in every behaviour.                                      *)
THEOREM ElectionTypeCorrect == ElectionSpec => []ElectionInv
<1>1. ElectionInit => ElectionInv
  BY ElectionStart
<1>2. ElectionInv /\ [ElectionNext]_electionVars => ElectionInv'
  BY ElectionStep
<1> QED BY <1>1, <1>2, PTL DEF ElectionSpec

--------------------------------------------------------------------------------
(* The thread of a process.                                                *)

(* One command under way is counted once.                                  *)
LEMMA OneUnanswered ==
    ASSUME NEW p \in Processes, calls[p] \in Seq(Call), Len(calls[p]) = 1,
           NEW op, calls[p][1].op = op
    PROVE  Unanswered(p, op) = 1
<1>1. {i \in DOMAIN calls[p] : calls[p][i].op = op} = {1}
  <2>1. DOMAIN calls[p] = {1}
    OBVIOUS
  <2> QED BY <2>1
<1>2. Cardinality({1}) = 1
  BY FS_Singleton
<1> QED BY <1>1, <1>2 DEF Unanswered

(* A process that starts, stops or crashes, whatever it was doing.         *)
LEMMA LifeKnown ==
    ASSUME ElectionInv, NEW p \in Processes, Known(p), Start(p) \/ Stop(p) \/ CrashInstance(p)
    PROVE  Known(p)'
<1>0. OwnTypes /\ calls \in [Processes -> Seq(Call)]
  BY DEF ElectionInv, ElectionTypeOK, OwnTypes
<1>1. \A k \in Mishaps : Suffer(k) => Suffered(k)' > 0
  <2>1. ASSUME NEW k \in Mishaps, Suffer(k) PROVE Suffered(k)' > 0
    BY <2>1, MishapOK DEF ElectionInv, ElectionTypeOK
  <2> QED BY <2>1
<1>2. CASE Start(p)
  <2>1. calls[p] = <<>> /\ Len(calls[p]) = 0
    BY <1>2 DEF Start
  <2>2. Len(calls'[p]) = 1 /\ calls'[p][1].op = "campaign"
    <3>1. send(p, "campaign") /\ ElectionTypeOK
      BY <1>2 DEF Start, ElectionInv
    <3>2. Len(calls'[p]) = Len(calls[p]) + 1 /\ calls'[p][1].op = "campaign"
      BY <2>1, <3>1, CallSteps
    <3> QED BY <2>1, <3>2
  <2>3. /\ role'[p] = "CANDIDATE" /\ naps'[p] = 0 /\ waits'[p] = 0 /\ leaked'[p] = 0
        /\ p \notin renewal' /\ p \in running'
    BY <1>0, <1>2 DEF Start, become, Known, OwnTypes
  <2> QED BY <2>2, <2>3 DEF Known, SingleThread, Campaigning
<1>3. CASE Stop(p)
  <2>1. waits'[p] = 0 /\ p \notin running'
    BY <1>0, <1>3 DEF Stop, OwnTypes
  <2>2. Suffered("shutdown")' > 0
    BY <1>1, <1>3 DEF Stop, Mishaps
  <2> QED BY <2>1, <2>2 DEF Known
<1>4. CASE CrashInstance(p)
  <2>1. /\ waits'[p] = 0 /\ naps'[p] = 0 /\ leaked'[p] = 0 /\ p \notin running' /\ p \notin renewal'
        /\ calls'[p] = <<>>
    BY <1>0, <1>4 DEF CrashInstance, OwnTypes
  <2>2. Len(calls'[p]) = 0
    BY <2>1
  <2> QED BY <2>1, <2>2 DEF Known, Cleared
<1> QED BY <1>2, <1>3, <1>4

(* A process that is not running sets no timer; one that never ran does    *)
(* nothing at all.                                                         *)
LEMMA StoppedKnown ==
    ASSUME ElectionInv, NEW p \in Processes, p \notin running, Known(p),
           \/ calls[p] # <<>> /\ (Answer(p) \/ CampaignThrows(p) \/ CallThrows(p))
           \/ Wakes(p) \/ RenewalTicks(p),
           \A k \in Mishaps : Suffered(k) > 0 => Suffered(k)' > 0
    PROVE  Known(p)'
<1>0. OwnTypes /\ calls \in [Processes -> Seq(Call)]
  BY DEF ElectionInv, ElectionTypeOK, OwnTypes
<1>1. waits[p] = 0
  BY DEF Known
<1>2. ASSUME UNCHANGED waits \/ setCampaignTimer(p) PROVE waits'[p] = 0
  BY <1>0, <1>1, <1>2 DEF setCampaignTimer, OwnTypes
<1>3. waits'[p] = 0 /\ p \notin running'
  BY <1>1, <1>2 DEF Answer, CampaignWins, CampaignLoses, Renewed, RenewalFails, OldRenewalFails,
                    Released, CampaignThrows, CallThrows, Wakes, CampaignTimerFires, NapEnds,
                    RenewalTicks
<1>4. ~ Cleared(p)
  <2>1. calls[p] # <<>> => Len(calls[p]) # 0
    BY <1>0, CallsOK
  <2>2. Wakes(p) => naps[p] > 0
    BY <1>1 DEF Wakes, CampaignTimerFires, NapEnds
  <2>3. RenewalTicks(p) => p \in renewal \/ leaked[p] > 0
    BY DEF RenewalTicks
  <2> QED BY <2>1, <2>2, <2>3 DEF Cleared
<1>5. Suffered("shutdown")' > 0
  BY <1>4 DEF Known, Mishaps
<1> QED BY <1>3, <1>5 DEF Known

(* A candidate of one thread.                                              *)
LEMMA CandidateSteps ==
    ASSUME ElectionInv, NEW p \in Processes, p \in running, leaked[p] = 0, Campaigning(p),
           \/ calls[p] # <<>> /\ (Answer(p) \/ CampaignThrows(p) \/ CallThrows(p))
           \/ Wakes(p) \/ RenewalTicks(p)
    PROVE  SingleThread(p)'
<1>0. OwnTypes /\ calls \in [Processes -> Seq(Call)]
  BY DEF ElectionInv, ElectionTypeOK, OwnTypes
<1>1. ~ RenewalTicks(p)
  BY DEF RenewalTicks, Campaigning
<1>2. ASSUME calls[p] # <<>>
      PROVE  /\ Len(calls[p]) = 1 /\ Head(calls[p]).op = "campaign"
             /\ naps[p] = 0 /\ waits[p] = 0
  BY <1>0, <1>2, CallsOK DEF Campaigning
<1>3. ASSUME calls[p] # <<>>, CampaignWins(p) PROVE SingleThread(p)'
  <2> DEFINE s == Tail(calls[p])
             x == [i \in 1..Len(s) |-> [s[i] EXCEPT !.current = FALSE]]
  <2>1. s \in Seq(Call) /\ Len(s) = 0
    BY <1>0, <1>2, <1>3, CallsOK
  <2>2. x \in Seq(Call) /\ Len(x) = 0
    BY <2>1, OutdatedOK
  <2>3. calls' = [calls EXCEPT ![p] = x]
    BY <1>3 DEF CampaignWins
  <2> HIDE DEF x
  <2>4. Len(calls'[p]) = 0
    BY <1>0, <2>2, <2>3
  <2>5. /\ role'[p] = "LEADER" /\ p \in renewal' /\ leaked'[p] = 0
        /\ naps'[p] = naps[p] /\ waits'[p] = waits[p]
    BY <1>0, <1>3 DEF CampaignWins, becomeLeader, become, OwnTypes, Campaigning
  <2> QED BY <1>2, <1>3, <2>4, <2>5 DEF SingleThread, Leading
<1>4. ASSUME calls[p] # <<>>, CampaignLoses(p) \/ CampaignThrows(p) PROVE SingleThread(p)'
  <2>1. Len(calls'[p]) = 0
    <3>1. answered(p) /\ ElectionTypeOK
      BY <1>4 DEF CampaignLoses, CampaignThrows, ElectionInv
    <3>2. Len(calls'[p]) = Len(calls[p]) - 1
      BY <1>4, <3>1, CallSteps
    <3> QED BY <1>2, <1>4, <3>2
  <2>2. /\ role'[p] = "FOLLOWER" /\ p \notin renewal' /\ leaked'[p] = 0
        /\ naps'[p] = 0 /\ waits'[p] = 1
    BY <1>0, <1>2, <1>4
       DEF CampaignLoses, CampaignThrows, setCampaignTimer, become, OwnTypes, Campaigning
  <2> QED BY <2>1, <2>2 DEF SingleThread, Campaigning
<1>5. ASSUME Wakes(p) PROVE SingleThread(p)'
  <2>1. naps[p] \in Nat /\ waits[p] \in Nat
    BY <1>0 DEF OwnTypes
  <2>2. naps[p] > 0 \/ waits[p] > 0
    BY <1>5 DEF Wakes, CampaignTimerFires, NapEnds
  <2>3. Len(calls[p]) = 0 /\ naps[p] + waits[p] = 1
    BY <2>1, <2>2 DEF Campaigning
  <2>4. naps'[p] = 0 /\ waits'[p] = 0
    <3>1. CASE CampaignTimerFires(p)
      BY <1>0, <2>1, <2>3, <3>1 DEF CampaignTimerFires, OwnTypes
    <3>2. CASE NapEnds(p)
      BY <1>0, <2>1, <2>3, <3>2 DEF NapEnds, OwnTypes
    <3> QED BY <1>5, <3>1, <3>2 DEF Wakes
  <2>5. /\ become(p, "CANDIDATE") /\ send(p, "campaign") /\ UNCHANGED <<renewal, leaked>>
    BY <1>5 DEF Wakes, CampaignTimerFires, NapEnds, campaign
  <2>6. Len(calls'[p]) = 1 /\ calls'[p][1].op = "campaign"
    <3>1. ElectionTypeOK
      BY DEF ElectionInv
    <3>2. Len(calls'[p]) = Len(calls[p]) + 1 /\ calls'[p][1].op = "campaign"
      BY <2>3, <2>5, <3>1, CallSteps
    <3> QED BY <2>3, <3>2
  <2>7. role'[p] = "CANDIDATE" /\ p \notin renewal' /\ leaked'[p] = 0
    BY <1>0, <2>5 DEF become, OwnTypes, Campaigning
  <2> QED BY <2>4, <2>6, <2>7 DEF SingleThread, Campaigning
<1>6. ASSUME calls[p] # <<>>, Answer(p) \/ CallThrows(p)
      PROVE  CampaignWins(p) \/ CampaignLoses(p)
  BY <1>2, <1>6 DEF Answer, CallThrows, Renewed, RenewalFails, OldRenewalFails, Released
<1> QED BY <1>1, <1>3, <1>4, <1>5, <1>6

(* A leader of one thread: it is only a tick before the answer to the last *)
(* renewal that makes two of it.                                           *)
LEMMA LeaderSteps ==
    ASSUME ElectionInv, NEW p \in Processes, p \in running, leaked[p] = 0, Leading(p),
           \/ calls[p] # <<>> /\ (Answer(p) \/ CampaignThrows(p) \/ CallThrows(p))
           \/ Wakes(p) \/ RenewalTicks(p)
    PROVE  SingleThread(p)' \/ Suffer("slow")
<1>0. OwnTypes /\ calls \in [Processes -> Seq(Call)]
  BY DEF ElectionInv, ElectionTypeOK, OwnTypes
<1>1. ~ Wakes(p)
  BY DEF Wakes, CampaignTimerFires, NapEnds, Leading
<1>2. ASSUME calls[p] # <<>> PROVE Len(calls[p]) = 1 /\ Head(calls[p]).op = "renew"
  BY <1>0, <1>2, CallsOK DEF Leading
<1>3. ASSUME Len(calls'[p]) = 0, stepDown(p), UNCHANGED <<waits, leaked>> PROVE SingleThread(p)'
  BY <1>0, <1>3 DEF stepDown, become, OwnTypes, Leading, SingleThread, Campaigning
<1>4. ASSUME Len(calls'[p]) = 0 \/ (Len(calls'[p]) = 1 /\ calls'[p][1].op = "renew"),
             UNCHANGED <<role, naps, waits, renewal, leaked>>
      PROVE  SingleThread(p)'
  BY <1>4 DEF SingleThread, Leading
<1>5. ASSUME calls[p] # <<>>, Answer(p) \/ CampaignThrows(p) \/ CallThrows(p)
      PROVE  SingleThread(p)'
  <2>1. Renewed(p) \/ RenewalFails(p) \/ OldRenewalFails(p) \/ CallThrows(p)
    BY <1>2, <1>5 DEF Answer, CampaignWins, CampaignLoses, CampaignThrows, Released
  <2>2. answered(p)
    BY <2>1 DEF Renewed, RenewalFails, OldRenewalFails, CallThrows
  <2>3. Len(calls'[p]) = 0
    <3>1. ElectionTypeOK
      BY DEF ElectionInv
    <3>2. Len(calls'[p]) = Len(calls[p]) - 1
      BY <1>5, <2>2, <3>1, CallSteps
    <3> QED BY <1>2, <1>5, <3>2
  <2> QED BY <1>3, <1>4, <2>1, <2>3 DEF Renewed, RenewalFails, OldRenewalFails, CallThrows
<1>6. ASSUME RenewalTicks(p) PROVE SingleThread(p)' \/ Suffer("slow")
  <2>1. CASE Len(calls[p]) = 1
    <3>1. Unanswered(p, "renew") = 1
      BY <1>0, <2>1, OneUnanswered DEF Leading
    <3> QED BY <1>6, <3>1 DEF RenewalTicks
  <2>2. CASE Len(calls[p]) = 0
    <3>1. send(p, "renew") => Len(calls'[p]) = 1 /\ calls'[p][1].op = "renew"
      <4>1. ElectionTypeOK
        BY DEF ElectionInv
      <4>2. send(p, "renew") => Len(calls'[p]) = Len(calls[p]) + 1 /\ calls'[p][1].op = "renew"
        BY <2>2, <4>1, CallSteps
      <4> QED BY <2>2, <4>2
    <3> QED BY <1>3, <1>4, <1>6, <2>2, <3>1 DEF RenewalTicks
  <2> QED BY <2>1, <2>2 DEF Leading
<1> QED BY <1>1, <1>5, <1>6

(* What is known of every process stays known.                             *)
LEMMA ThreadStep ==
    ASSUME ElectionInv, ThreadInv, [ElectionNext]_electionVars
    PROVE  ThreadInv'
<1>0. OwnTypes /\ ElectionTypeOK
  BY DEF ElectionInv, ElectionTypeOK, OwnTypes
<1>1. /\ \A k \in Mishaps : Suffered(k) > 0 => Suffered(k)' > 0
      /\ \A k \in Mishaps : Suffer(k) => Suffered(k)' > 0
  BY ElectionMishaps, MishapOK DEF ElectionInv, ElectionTypeOK
<1>2. ASSUME NEW q \in Processes, Kept(q), calls'[q] = calls[q] PROVE Known(q)'
  <2>1. /\ Cleared(q) => Cleared(q)'
        /\ SingleThread(q) => SingleThread(q)'
    BY <1>2 DEF Kept, Cleared, SingleThread, Campaigning, Leading
  <2> QED BY <1>1, <1>2, <2>1 DEF ThreadInv, Known, Kept, Mishaps
<1>3. ASSUME NEW p \in Processes, ProcessSteps(p) PROVE Known(p)'
  <2>0. Known(p)
    BY DEF ThreadInv
  <2>1. CASE Start(p) \/ Stop(p) \/ CrashInstance(p)
    BY <2>0, <2>1, LifeKnown
  <2>2. CASE \/ calls[p] # <<>> /\ (Answer(p) \/ CampaignThrows(p) \/ CallThrows(p))
             \/ Wakes(p) \/ RenewalTicks(p)
    <3>1. CASE p \notin running
      BY <1>1, <2>0, <2>2, <3>1, StoppedKnown
    <3>2. CASE p \in running
      <4>1. running' = running
        BY <2>2 DEF Answer, CampaignWins, CampaignLoses, Renewed, RenewalFails, OldRenewalFails,
                    Released, CampaignThrows, CallThrows, Wakes, CampaignTimerFires, NapEnds,
                    RenewalTicks
      <4>2. SingleThread(p) => SingleThread(p)' \/ Suffer("slow")
        BY <2>2, <3>2, CandidateSteps, LeaderSteps DEF SingleThread
      <4>3. SingleThread(p)' \/ Suffered("slow")' > 0
        BY <1>1, <2>0, <3>2, <4>2 DEF Known, Mishaps
      <4> QED BY <3>2, <4>1, <4>3 DEF Known
    <3> QED BY <3>1, <3>2
  <2> QED BY <1>3, <2>1, <2>2 DEF ProcessSteps, Answer
<1>4. ASSUME NEW p \in Processes, ProcessSteps(p) PROVE ThreadInv'
  <2>1. ASSUME NEW q \in Processes, q # p PROVE Known(q)'
    BY <1>0, <1>2, <1>4, <2>1, OwnSteps, QueueSteps
  <2> QED BY <1>3, <1>4, <2>1 DEF ThreadInv
<1>5. ASSUME UNCHANGED <<running, role, calls, naps, waits, renewal, leaked>> PROVE ThreadInv'
  BY <1>2, <1>5 DEF ThreadInv, Kept
<1> QED BY <1>4, <1>5 DEF ElectionNext, ProcessSteps, LockExpires, electionVars

(* Nothing runs at the start.                                              *)
LEMMA ThreadStart ==
    ASSUME ElectionInit PROVE ThreadInv
<1> SUFFICES ASSUME NEW p \in Processes PROVE Known(p)
  BY DEF ThreadInv
<1>1. calls[p] = <<>> /\ Len(calls[p]) = 0
  BY DEF ElectionInit
<1> QED BY <1>1 DEF ElectionInit, Known, Cleared

(* A process with one thread of control does not squat.                    *)
LEMMA ThreadsAreKnown ==
    ASSUME ThreadInv PROVE SquattersAreKnown
<1> SUFFICES ASSUME NEW p \in Squatters
             PROVE  Suffered(IF p \in running THEN "slow" ELSE "shutdown") > 0
  BY DEF SquattersAreKnown
<1>1. /\ p \in Processes /\ Known(p)
      /\ p \in renewal \/ leaked[p] > 0
      /\ role[p] # "LEADER" \/ p \notin running
  BY DEF Squatters, ThreadInv
<1>2. CASE p \in running
  BY <1>1, <1>2 DEF Known, SingleThread, Campaigning, Leading
<1>3. CASE p \notin running
  BY <1>1, <1>3 DEF Known, Cleared
<1> QED BY <1>2, <1>3

(* A process squats on the lock, in any cluster, only after Redis was      *)
(* slower than a renewal interval (a running one) or after stop() came     *)
(* before the answer to a campaign (a stopped one).                        *)
THEOREM SquattersKnown == ElectionSpec => []SquattersAreKnown
<1>1. ElectionInit => ThreadInv
  BY ThreadStart
<1>2. ElectionInv /\ ThreadInv /\ [ElectionNext]_electionVars => ThreadInv'
  BY ThreadStep
<1>3. ThreadInv => SquattersAreKnown
  BY ThreadsAreKnown
<1> QED BY <1>1, <1>2, <1>3, ElectionTypeCorrect, PTL DEF ElectionSpec

--------------------------------------------------------------------------------
(* The worker pool.                                                        *)

(* A check has something to add exactly while it is adding.                *)
AddingIsOwing == \A c \in Checks : checks[c] = "adding" <=> toAdd[c] > 0

NewIsEmpty == pool = "new" => size = 0 /\ \A c \in Checks : checks[c] = "idle"

KeepsMinimum == pool = "started" => minWorkers <= size

(* Without a race one check at a time adds, and what it still has to add   *)
(* fits under the maximum.                                                 *)
OneAdds == raced \/ \A c, d \in Checks : checks[c] = "adding" /\ checks[d] = "adding" => c = d

FitsMaximum == raced \/ /\ size <= maxWorkers
                        /\ \A c \in Checks : size + toAdd[c] <= maxWorkers

StopsForGood ==
    pool = "stopped" => orphans \/ (size = 0 /\ \A c \in Checks : checks[c] = "idle")

PoolInv ==
    /\ PoolTypeOK
    /\ AddingIsOwing
    /\ NewIsEmpty
    /\ KeepsMinimum
    /\ OneAdds
    /\ FitsMaximum
    /\ StopsForGood

--------------------------------------------------------------------------------
(* What shortage returns fits under the maximum, whatever the depth is.    *)
LEMMA ShortageFits ==
    ASSUME size \in Nat, NEW depth \in Depths
    PROVE  shortage(depth) \in Int /\ shortage(depth) <= maxWorkers - size
<1>1. depth \in Nat
  BY PoolAssumption
<1>2. divisor \in Nat /\ divisor > 0
  BY DEF divisor
<1> DEFINE b == divisor * scaleUpThreshold
<1>3. b \in Nat /\ b > 0
  BY <1>2, PoolAssumption
<1> HIDE DEF b
<1>4. (depth + b - 1) \div b \in Int
  BY <1>1, <1>3
<1> DEFINE q == (depth + b - 1) \div b
<1>5. shortage(depth) = smaller(q - size, maxWorkers - size)
  BY DEF shortage, ceilDiv, b
<1> HIDE DEF q
<1>6. q \in Int
  BY <1>4 DEF q
<1> QED
  BY <1>5, <1>6, PoolAssumption DEF smaller

(* A new pool has no workers.                                              *)
LEMMA PoolInitInv == PoolInit => PoolInv
<1> SUFFICES ASSUME PoolInit PROVE PoolInv
  OBVIOUS
<1> USE DEF PoolInit
<1>1. PoolTypeOK
  BY DEF PoolTypeOK
<1>2. AddingIsOwing /\ NewIsEmpty /\ KeepsMinimum /\ StopsForGood
  BY DEF AddingIsOwing, NewIsEmpty, KeepsMinimum, StopsForGood
<1>3. OneAdds
  BY DEF OneAdds
<1>4. FitsMaximum
  BY PoolAssumption DEF FitsMaximum
<1> QED
  BY <1>1, <1>2, <1>3, <1>4 DEF PoolInv

(* Every step of the pool keeps the invariant.                             *)
LEMMA PoolStepInv == PoolInv /\ [PoolNext]_poolVars => PoolInv'
<1> SUFFICES ASSUME PoolInv, [PoolNext]_poolVars PROVE PoolInv'
  OBVIOUS
<1> USE DEF PoolInv, PoolTypeOK, AddingIsOwing, NewIsEmpty, KeepsMinimum, OneAdds,
            FitsMaximum, StopsForGood
<1>1. CASE StartPool
  BY <1>1, PoolAssumption DEF StartPool
<1>2. CASE StopPool
  BY <1>2, PoolAssumption DEF StopPool, Adding
<1>3. ASSUME NEW c \in Checks, BeginCheck(c) PROVE PoolInv'
  BY <1>3 DEF BeginCheck
<1>4. ASSUME NEW c \in Checks, CheckFails(c) PROVE PoolInv'
  BY <1>4 DEF CheckFails
<1>5. ASSUME NEW c \in Checks, ScaleUp(c) PROVE PoolInv'
  <2>1. PICK depth \in Depths :
          /\ checks[c] = "waiting"
          /\ shortage(depth) > 0
          /\ size' = size + 1
          /\ toAdd' = [toAdd EXCEPT ![c] = shortage(depth) - 1]
          /\ checks' = [checks EXCEPT ![c] = IF shortage(depth) > 1 THEN "adding" ELSE "idle"]
          /\ raced' = (raced \/ Adding # {})
          /\ UNCHANGED <<pool, orphans>>
    BY <1>5 DEF ScaleUp
  <2> DEFINE n == shortage(depth)
  <2>2. n \in Int /\ n <= maxWorkers - size /\ n > 0
    BY <2>1, ShortageFits
  <2> HIDE DEF n
  <2>3. /\ toAdd' = [toAdd EXCEPT ![c] = n - 1]
        /\ checks' = [checks EXCEPT ![c] = IF n > 1 THEN "adding" ELSE "idle"]
    BY <2>1 DEF n
  <2>4. PoolTypeOK' /\ AddingIsOwing'
    BY <2>1, <2>2, <2>3
  <2>5. NewIsEmpty' /\ KeepsMinimum' /\ StopsForGood'
    BY <2>1, PoolAssumption
  <2>6. ASSUME ~ raced' PROVE OneAdds' /\ FitsMaximum'
    <3>1. ~ raced /\ Adding = {}
      BY <2>1, <2>6
    <3>2. \A d \in Checks : checks[d] # "adding" /\ toAdd[d] = 0
      BY <3>1 DEF Adding
    <3> QED
      BY <2>1, <2>2, <2>3, <3>2, PoolAssumption
  <2> QED
    BY <2>4, <2>5, <2>6
<1>6. ASSUME NEW c \in Checks, ScaleDown(c) PROVE PoolInv'
  <2>1. /\ checks[c] = "waiting"
        /\ size > minWorkers
        /\ size' = minWorkers
        /\ checks' = [checks EXCEPT ![c] = "idle"]
        /\ UNCHANGED <<pool, toAdd, raced, orphans>>
    BY <1>6, PoolAssumption DEF ScaleDown, wantsLess, surplus
  <2> QED
    BY <2>1, PoolAssumption
<1>7. ASSUME NEW c \in Checks, LeaveAlone(c) PROVE PoolInv'
  BY <1>7 DEF LeaveAlone
<1>8. ASSUME NEW c \in Checks, AddWorker(c) PROVE PoolInv'
  <2>1. PoolTypeOK' /\ AddingIsOwing'
    BY <1>8 DEF AddWorker
  <2>2. NewIsEmpty' /\ KeepsMinimum' /\ StopsForGood'
    BY <1>8, PoolAssumption DEF AddWorker
  <2>3. OneAdds'
    BY <1>8 DEF AddWorker
  <2>4. FitsMaximum'
    BY <1>8, PoolAssumption DEF AddWorker
  <2> QED
    BY <2>1, <2>2, <2>3, <2>4
<1>9. CASE UNCHANGED poolVars
  BY <1>9 DEF poolVars
<1> QED
  BY <1>1, <1>2, <1>3, <1>4, <1>5, <1>6, <1>7, <1>8, <1>9 DEF PoolNext

(* PoolBounds holds in every run of WorkerPool.ts: never fewer workers     *)
(* than minWorkers between start and stop, never more than maxWorkers      *)
(* unless checks raced, none after stop unless a check was waiting then.   *)
THEOREM PoolStaysInBounds == PoolSpec => [](PoolTypeOK /\ PoolBounds)
<1>1. PoolInv => PoolTypeOK /\ PoolBounds
  BY DEF PoolInv, PoolBounds, KeepsMinimum, FitsMaximum, StopsForGood
<1> QED
  BY PoolInitInv, PoolStepInv, <1>1, PTL DEF PoolSpec

--------------------------------------------------------------------------------
(* The parts side by side.                                                 *)

(* The nodes of the registry, which has mishaps in common with the         *)
(* election.                                                               *)
LEMMA NodeStep ==
    ASSUME NodeTypeOK, NodeNext
    PROVE  NodeTypeOK' /\ (UNCHANGED spare \/ \E k \in Mishaps : Suffer(k))
<1>1. PICK p \in Processes :
        \/ Boot(p) \/ BootStandalone(p) \/ Heartbeat(p) \/ NodeExpires(p)
        \/ BeginShutdown(p) \/ Deregister(p) \/ ExitUndone(p) \/ NodeCrashes(p)
  BY DEF NodeNext
<1>2. NodeTypeOK'
  BY <1>1 DEF NodeTypeOK, Boot, BootStandalone, Heartbeat, NodeExpires, BeginShutdown, Deregister,
              ExitUndone, NodeCrashes, die, turnTo
<1>3. UNCHANGED spare \/ \E k \in {"redis", "pause", "shutdown", "crash"} : Suffer(k)
  BY <1>1 DEF Boot, BootStandalone, Heartbeat, NodeExpires, BeginShutdown, Deregister,
              ExitUndone, NodeCrashes
<1>4. {"redis", "pause", "shutdown", "crash"} \subseteq Mishaps
  BY DEF Mishaps
<1> QED BY <1>2, <1>3, <1>4

(* A mishap elsewhere leaves the election what it was.                     *)
LEMMA ElectionResting ==
    ASSUME ElectionInv, ThreadInv, ElectionRests, UNCHANGED spare \/ \E k \in Mishaps : Suffer(k)
    PROVE  ElectionInv' /\ ThreadInv'
<1>1. /\ UNCHANGED <<key, held, running, role, calls, naps, waits, renewal, leaked>>
  BY DEF ElectionRests, electionOnly
<1>2. /\ SpareTypeOK' /\ SpareBounded' /\ \A k \in Mishaps : Suffered(k) > 0 => Suffered(k)' > 0
  BY MishapOK DEF ElectionInv, ElectionTypeOK
<1>3. ElectionInv'
  BY <1>1, <1>2 DEF ElectionInv, ElectionTypeOK, LockTypeOK
<1>4. "shutdown" \in Mishaps /\ "slow" \in Mishaps
  BY DEF Mishaps
<1>5. ASSUME NEW p \in Processes PROVE Known(p)'
  <2>1. Known(p)
    BY DEF ThreadInv
  <2> QED BY <1>1, <1>2, <1>4, <2>1 DEF Known, Cleared, SingleThread, Campaigning, Leading
<1> QED BY <1>3, <1>5 DEF ThreadInv

(* The election and the nodes, whose mishaps are the same.                 *)
SharedInv == ElectionInv /\ ThreadInv /\ NodeTypeOK /\ part \in Parts

(* Every step of any part keeps it.                                        *)
LEMMA SharedStep ==
    ASSUME SharedInv, [PartsNext]_apartVars PROVE SharedInv'
<1>1. ElectionInv /\ ThreadInv /\ NodeTypeOK /\ part \in Parts
  BY DEF SharedInv
<1>2. CASE Electing(ElectionNext)
  <2>1. ElectionNext /\ UNCHANGED <<node, beating, listed>> /\ UNCHANGED part
    BY <1>2 DEF Electing, NodesRest
  <2>2. ElectionInv' /\ ThreadInv'
    BY <1>1, <2>1, ElectionStep, ThreadStep
  <2> QED BY <1>1, <2>1, <2>2 DEF SharedInv, NodeTypeOK
<1>3. CASE Registering(NodeNext)
  <2>1. NodeNext /\ ElectionRests /\ UNCHANGED part
    BY <1>3 DEF Registering
  <2> QED BY <1>1, <2>1, NodeStep, ElectionResting DEF SharedInv
<1>4. CASE ElectionRests /\ NodesRest /\ UNCHANGED <<spare, part>>
  <2>1. UNCHANGED <<node, beating, listed>> /\ UNCHANGED spare /\ UNCHANGED part
    BY <1>4 DEF NodesRest
  <2>2. ElectionInv' /\ ThreadInv'
    BY <1>1, <1>4, <2>1, ElectionResting
  <2> QED BY <1>1, <2>1, <2>2 DEF SharedInv, NodeTypeOK
<1>5. CASE UNCHANGED apartVars
  BY <1>4, <1>5 DEF apartVars, electionVars, ElectionRests, electionOnly, NodesRest
<1> QED BY <1>2, <1>3, <1>4, <1>5 DEF PartsNext

(* Every part alone, in the composition.                                   *)
LEMMA PartsAlone ==
    PartsFairSpec => PoolSpec /\ BalancerSpec /\ HeapSpec /\ ResolverSpec /\ []SharedInv
<1>1. PartsInit => PoolInit /\ BalancerInit /\ HeapInit /\ ResolverInit /\ SharedInv
  BY ElectionStart, ThreadStart DEF PartsInit, SharedInv, NodeInit, NodeTypeOK
<1>2. [PartsNext]_apartVars => [PoolNext]_poolVars
  BY DEF PartsNext, apartVars, Electing, Registering, PoolRests
<1>3. [PartsNext]_apartVars => [BalancerNext]_balancerVars
  BY DEF PartsNext, apartVars, Electing, Registering, BalancerRests
<1>4. [PartsNext]_apartVars => [HeapNext]_queueVars
  BY DEF PartsNext, apartVars, Electing, Registering, HeapRests
<1>5. [PartsNext]_apartVars => [ResolverNext]_resolverVars
  BY DEF PartsNext, apartVars, Electing, Registering, ResolverRests
<1>6. SharedInv /\ [PartsNext]_apartVars => SharedInv'
  BY SharedStep
<1> QED BY <1>1, <1>2, <1>3, <1>4, <1>5, <1>6, PTL
        DEF PartsFairSpec, PoolSpec, BalancerSpec, HeapSpec, ResolverSpec

(* The types of all parts, in every behaviour of the composition.          *)
THEOREM PartsTypeCorrect == PartsFairSpec => []PartsTypeOK
<1>1. SharedInv => ElectionTypeOK /\ NodeTypeOK /\ part \in Parts
  BY DEF SharedInv, ElectionInv
<1>2. (ElectionTypeOK /\ NodeTypeOK /\ part \in Parts /\ PoolTypeOK /\ BalancerTypeOK
       /\ HeapTypeOK /\ ResolverTypeOK) => PartsTypeOK
  BY DEF PartsTypeOK
<1> QED BY <1>1, <1>2, PartsAlone, PoolStaysInBounds, BalancerTypeCorrect, HeapIsAPriorityQueue,
           OnlyEndsUnblock, PTL

(* What is proved of every part alone holds where the parts stand side by  *)
(* side, and the election shares its mishaps with the node registry.       *)
THEOREM PartsAreCorrect ==
    PartsFairSpec =>
        /\ []SquattersAreKnown
        /\ []PoolBounds
        /\ []TurnsAreFair /\ []SelectionIsBest
        /\ ImplementsPriorityBag
        /\ []UnblockedInOrder /\ []GraphCyclesAreFound /\ []SortRespectsDependencies
<1>1. SharedInv => SquattersAreKnown
  BY ThreadsAreKnown DEF SharedInv
<1> QED BY <1>1, PartsAlone, PoolStaysInBounds, TurnsFair, SelectionBest, HeapIsAPriorityQueue,
           OnlyEndsUnblock, CyclesDetected, SortIsTopological, PTL
================================================================================
