----------------------------- MODULE LeaderElection -----------------------------
(***************************************************************************)
(* LeaderElection.ts: a leader that renews its lock, followers that keep   *)
(* campaigning for it.  Nothing in the program starts it (JobScheduler has *)
(* a leadership of its own, in SchedulerCluster); it is modelled as the    *)
(* class behaves once started.                                             *)
(*                                                                         *)
(* An interval does not wait for its callback, a campaign that is on its   *)
(* way does not know of stop(), and nothing keeps two campaigns of one     *)
(* process apart.  What a process sent to Redis and has no answer for is a *)
(* sequence: one connection answers in the order of the commands.  Redis   *)
(* runs a command when it answers it.                                      *)
(***************************************************************************)
EXTENDS DistributedLock, Sequences, FiniteSets

CONSTANT MaxCampaigns  \* bound: campaigns a process has under way or ahead

VARIABLES
    running,   \* isRunning
    role,
    calls,     \* commands without an answer yet
    naps,      \* callbacks asleep before they campaign again
    waits,     \* campaign timers set
    renewal,   \* whether the interval in this.renewalTimer is alive
    leaked     \* intervals alive that this.renewalTimer has lost

electionVars == <<spare, key, held, running, role, calls, naps, waits, renewal, leaked>>

Roles == {"LEADER", "FOLLOWER", "CANDIDATE"}

(* current: the token of the command is the one the process remembers.     *)
Call == [op : {"campaign", "renew", "release"}, current : BOOLEAN]

ElectionTypeOK ==
    /\ SpareTypeOK
    /\ LockTypeOK
    /\ running \in SUBSET Processes
    /\ role \in [Processes -> Roles]
    /\ calls \in [Processes -> Seq(Call)]
    /\ naps \in [Processes -> Nat]
    /\ waits \in [Processes -> Nat]
    /\ renewal \in SUBSET Processes
    /\ leaked \in [Processes -> Nat]

ElectionInit ==
    /\ SpareInit
    /\ LockInit
    /\ running = {}
    /\ role = [p \in Processes |-> "FOLLOWER"]
    /\ calls = [p \in Processes |-> <<>>]
    /\ naps = [p \in Processes |-> 0]
    /\ waits = [p \in Processes |-> 0]
    /\ renewal = {}
    /\ leaked = [p \in Processes |-> 0]

--------------------------------------------------------------------------------
send(p, op) == calls' = [calls EXCEPT ![p] = Append(@, [op |-> op, current |-> TRUE])]

answered(p) == calls' = [calls EXCEPT ![p] = Tail(@)]

become(p, r) == role' = [role EXCEPT ![p] = r]

(* How many commands of one kind Redis has not answered yet.               *)
Unanswered(p, op) == Cardinality({i \in DOMAIN calls[p] : calls[p][i].op = op})

(* What a process has under way or ahead of it that ends in a campaign.    *)
Chains(p) == naps[p] + waits[p] + Unanswered(p, "campaign")

(* campaign() from its first line to the SET.                              *)
campaign(p) ==
    IF p \in running THEN become(p, "CANDIDATE") /\ send(p, "campaign")
                     ELSE UNCHANGED <<role, calls>>

(* On a new instance: nothing of an earlier one is left.                   *)
Start(p) ==
    /\ p \notin running
    /\ role[p] = "FOLLOWER"
    /\ calls[p] = <<>> /\ naps[p] = 0 /\ leaked[p] = 0 /\ p \notin renewal
    /\ running' = running \cup {p}
    /\ become(p, "CANDIDATE")
    /\ send(p, "campaign")
    /\ UNCHANGED <<spare, key, held, naps, waits, renewal, leaked>>

(* A timer that is set fires into nothing once isRunning is false.         *)
Stop(p) ==
    /\ p \in running
    /\ Suffer("shutdown")
    /\ running' = running \ {p}
    /\ waits' = [waits EXCEPT ![p] = 0]
    /\ renewal' = renewal \ {p}
    /\ IF role[p] = "LEADER" /\ p \in held THEN send(p, "release") ELSE UNCHANGED calls
    /\ IF role[p] = "LEADER" /\ p \notin held THEN become(p, "FOLLOWER") ELSE UNCHANGED role
    /\ UNCHANGED <<key, held, naps, leaked>>

--------------------------------------------------------------------------------
(* A mutant of becomeLeader: it never renews.                              *)
becomeLeaderForGood(p) == become(p, "LEADER") /\ UNCHANGED <<renewal, leaked>>

(* The answer to a campaign: this process leads ...                        *)
becomeLeader(p) ==
    /\ become(p, "LEADER")
    /\ renewal' = renewal \cup {p}
    /\ leaked' = [leaked EXCEPT ![p] = @ + IF p \in renewal THEN 1 ELSE 0]

(* ... with a new token, which the commands behind it do not carry.        *)
CampaignWins(p) ==
    /\ Head(calls[p]).op = "campaign"
    /\ tryAcquire(p)
    /\ becomeLeader(p)
    /\ calls' = [calls EXCEPT ![p] =
                   [i \in 1..Len(Tail(@)) |-> [Tail(@)[i] EXCEPT !.current = FALSE]]]
    /\ UNCHANGED <<spare, running, naps, waits>>

(* A mutant of setCampaignTimer: a refused candidate gives up.             *)
setNoTimer(p) == UNCHANGED waits

setCampaignTimer(p) ==
    waits' = [waits EXCEPT ![p] = @ + IF p \in running THEN 1 ELSE 0]

CampaignLoses(p) ==
    /\ Head(calls[p]).op = "campaign"
    /\ acquireRefused(p)
    /\ become(p, "FOLLOWER")
    /\ setCampaignTimer(p)
    /\ answered(p)
    /\ UNCHANGED <<spare, running, naps, renewal, leaked>>

CampaignThrows(p) ==
    /\ Head(calls[p]).op = "campaign"
    /\ Suffer("redis")
    /\ acquireThrows(p)
    /\ become(p, "FOLLOWER")
    /\ setCampaignTimer(p)
    /\ answered(p)
    /\ UNCHANGED <<running, naps, renewal, leaked>>

CampaignTimerFires(p) ==
    /\ waits[p] > 0
    /\ waits' = [waits EXCEPT ![p] = @ - 1]
    /\ campaign(p)
    /\ UNCHANGED <<spare, key, held, running, naps, renewal, leaked>>

--------------------------------------------------------------------------------
(* A mutant of stepDown: the interval goes on.                             *)
stepDownTicking(p) ==
    /\ become(p, "FOLLOWER")
    /\ naps' = [naps EXCEPT ![p] = @ + 1]
    /\ UNCHANGED renewal

(* A renewal failed: clearInterval(this.renewalTimer), whichever interval  *)
(* this callback belongs to, and a sleep before the next campaign.         *)
stepDown(p) ==
    /\ become(p, "FOLLOWER")
    /\ naps' = [naps EXCEPT ![p] = @ + 1]
    /\ renewal' = renewal \ {p}

(* An interval ticks: renew() asks Redis, or returns false at once when    *)
(* the process remembers no token.  Redis is slow if it has not answered   *)
(* the renewal of the interval's previous tick.                            *)
RenewalTicks(p) ==
    /\ p \in renewal \/ leaked[p] > 0
    /\ Chains(p) < MaxCampaigns
    /\ IF Unanswered(p, "renew") > leaked[p] THEN Suffer("slow") ELSE UNCHANGED spare
    /\ IF p \in held THEN send(p, "renew") /\ UNCHANGED <<role, naps, renewal>>
                     ELSE stepDown(p) /\ UNCHANGED calls
    /\ UNCHANGED <<key, held, running, waits, leaked>>

Renewed(p) ==
    /\ Head(calls[p]) = [op |-> "renew", current |-> TRUE]
    /\ renewable(p)
    /\ answered(p)
    /\ UNCHANGED <<spare, key, held, running, role, naps, waits, renewal, leaked>>

RenewalFails(p) ==
    /\ Head(calls[p]) = [op |-> "renew", current |-> TRUE]
    /\ renewFails(p)
    /\ stepDown(p)
    /\ answered(p)
    /\ UNCHANGED <<spare, running, waits, leaked>>

(* An older token is refused, and the entry of the newer one is dropped.   *)
OldRenewalFails(p) ==
    /\ Head(calls[p]) = [op |-> "renew", current |-> FALSE]
    /\ forget(p)
    /\ stepDown(p)
    /\ answered(p)
    /\ UNCHANGED <<spare, running, waits, leaked>>

NapEnds(p) ==
    /\ naps[p] > 0
    /\ naps' = [naps EXCEPT ![p] = @ - 1]
    /\ campaign(p)
    /\ UNCHANGED <<spare, key, held, running, waits, renewal, leaked>>

(* stop() ends: `locks.delete` and the role, whatever became of the key.   *)
Released(p) ==
    /\ Head(calls[p]).op = "release"
    /\ IF Head(calls[p]).current THEN release(p) ELSE forget(p)
    /\ become(p, "FOLLOWER")
    /\ answered(p)
    /\ UNCHANGED <<spare, running, naps, waits, renewal, leaked>>

(* The rejection is nobody's: the interval and the role stay.              *)
CallThrows(p) ==
    /\ Head(calls[p]).op \in {"renew", "release"}
    /\ Suffer("redis")
    /\ key' \in {key} \cup (IF Head(calls[p]) = [op |-> "release", current |-> TRUE] /\ key = p
                          THEN {Null} ELSE {})
    /\ answered(p)
    /\ UNCHANGED <<held, running, role, naps, waits, renewal, leaked>>

Answer(p) ==
    /\ calls[p] # <<>>
    /\ \/ CampaignWins(p) \/ CampaignLoses(p)
       \/ Renewed(p) \/ RenewalFails(p) \/ OldRenewalFails(p)
       \/ Released(p)

--------------------------------------------------------------------------------
CrashInstance(p) ==
    /\ Suffer("crash")
    /\ forget(p)
    /\ running' = running \ {p}
    /\ become(p, "FOLLOWER")
    /\ calls' = [calls EXCEPT ![p] = <<>>]
    /\ naps' = [naps EXCEPT ![p] = 0]
    /\ waits' = [waits EXCEPT ![p] = 0]
    /\ renewal' = renewal \ {p}
    /\ leaked' = [leaked EXCEPT ![p] = 0]

(* Somebody renews the key in time.                                        *)
KeptAlive ==
    \E p \in renewal \cup {q \in Processes : leaked[q] > 0} : key = p /\ p \in held

LockExpires ==
    /\ key # Null
    /\ IF KeptAlive THEN Suffer("pause") ELSE UNCHANGED spare
    /\ expire
    /\ UNCHANGED <<running, role, calls, naps, waits, renewal, leaked>>

Wakes(p) == CampaignTimerFires(p) \/ NapEnds(p)

ElectionNext ==
    \/ \E p \in Processes :
         \/ Start(p) \/ Stop(p) \/ CrashInstance(p)
         \/ Answer(p) \/ (calls[p] # <<>> /\ (CampaignThrows(p) \/ CallThrows(p)))
         \/ Wakes(p) \/ RenewalTicks(p)
    \/ LockExpires

ElectionSpec == ElectionInit /\ [][ElectionNext]_electionVars

--------------------------------------------------------------------------------
(* The processes that keep the lock to themselves without leading: the key *)
(* never expires, and nobody else can win it.                              *)
Squatters ==
    {p \in Processes :
        /\ key = p
        /\ p \in held
        /\ p \in renewal \/ leaked[p] > 0
        /\ role[p] # "LEADER" \/ p \notin running}

(* A running process squats only after one of its renewals overtook the    *)
(* next (two failures, two campaigns, and the second is refused by the key *)
(* of the first), a stopped one only because stop() came before the answer *)
(* to its campaign.  Crashes, expiries and failing calls do not lead here. *)
SquattersAreKnown ==
    \A p \in Squatters :
        Suffered(IF p \in running THEN "slow" ELSE "shutdown") > 0

(* "Followers poll the lock status and attempt to acquire on leader        *)
(* failure": while somebody is running, one that is running comes to lead, *)
(* unless the lock is squatted.                                            *)
SomeoneLeads ==
    running # {} ~> \/ \E p \in running : role[p] = "LEADER"
                    \/ running = {}
                    \/ Squatters # {}

(* Of two leaders the one without the key steps down, or gets it back.     *)
StaleLeadersStepDown ==
    \A p \in Processes :
        p \in running /\ role[p] = "LEADER" /\ key # p
            ~> p \notin running \/ role[p] # "LEADER" \/ key = p
================================================================================
