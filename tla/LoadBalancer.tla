------------------------------ MODULE LoadBalancer ------------------------------
(***************************************************************************)
(* LoadBalancer.ts: which worker a job goes to.  (JobScheduler makes one   *)
(* and never asks it; BullMQ's workers take jobs themselves.)  The rows    *)
(* come from the workers table and change between two selections.          *)
(***************************************************************************)
EXTENDS Integers, Sequences, SequencesExt, Arrays

CONSTANTS
    Fleet,           \* the workers, in the order of the table
    maxConcurrency,  \* of each worker
    JobTypes,
    Capable,         \* the workers with a job type, or CUSTOM, in their jobTypes
    Matching,        \* the workers in the region and with the labels of a type's jobs
    Statuses         \* of worker rows

(* The table has a row once.                                               *)
ASSUME FleetAssumption ==
    /\ Fleet \in Seq(ToSet(Fleet))
    /\ IsInjective(Fleet)
    /\ maxConcurrency \in [ToSet(Fleet) -> Nat]
    /\ "ONLINE" \in Statuses

VARIABLES
    rows,      \* status and currentJobCount of each worker
    rrIndex,
    turns      \* the latest round robin selections from the same list

balancerVars == <<rows, rrIndex, turns>>

FleetMembers == ToSet(Fleet)

BalancerTypeOK ==
    /\ \A w \in FleetMembers : /\ rows[w].status \in Statuses
                               /\ rows[w].jobs \in 0..maxConcurrency[w]
    /\ rrIndex \in Nat
    /\ rrIndex < Len(Fleet) \/ rrIndex = 0

BalancerInit ==
    /\ rows = [w \in FleetMembers |-> [status |-> "ONLINE", jobs |-> 0]]
    /\ rrIndex = 0
    /\ turns = [list |-> <<>>, picks |-> <<>>]

--------------------------------------------------------------------------------
Eligible(t, w) ==
    /\ rows[w].status \in {"ONLINE", "BUSY"}
    /\ rows[w].jobs < maxConcurrency[w]
    /\ w \in Capable[t]

filterEligible(t) == filter(Fleet, {w \in FleetMembers : Eligible(t, w)})

(* A mutant of lessLoaded: the counts are compared, not the ratios.        *)
lessLoadedByCount(v, w) == rows[v].jobs < rows[w].jobs

(* currentJobCount / maxConcurrency of v is below that of w.               *)
lessLoaded(v, w) ==
    rows[v].jobs * maxConcurrency[w] < rows[w].jobs * maxConcurrency[v]

(* Array.reduce without an initial value: it starts from the first.        *)
leastLoaded(list) ==
    LET best[i \in 1..Len(list)] ==
          IF i = 1 THEN list[1]
          ELSE IF lessLoaded(list[i], best[i - 1]) THEN list[i]
          ELSE best[i - 1]
    IN  best[Len(list)]

affinity(t, list) ==
    LET match == filter(list, Matching[t])
    IN  leastLoaded(IF match # <<>> THEN match ELSE list)

(* A mutant of nextIndex: one position too many before it wraps.           *)
nextIndexLate(list) == (rrIndex + 1) % (Len(list) + 1)

nextIndex(list) == (rrIndex + 1) % Len(list)

(* The index is taken modulo the length of the list of the day.            *)
roundRobin(list) == list[(rrIndex % Len(list)) + 1]

(* The selections from list so far, no more than its length.               *)
turnsAfter(list, w) ==
    LET picks == IF turns.list = list THEN turns.picks ELSE <<>>
    IN  [list  |-> list,
         picks |-> Append(IF Len(picks) = Len(list) THEN Tail(picks) ELSE picks, w)]

--------------------------------------------------------------------------------
(* selectWorker of a ROUND_ROBIN balancer.  The other strategies keep no   *)
(* state: they return leastLoaded, affinity or any member of the list.     *)
SelectInTurn(t) ==
    LET list == filterEligible(t)
    IN  /\ list # <<>>
        /\ rrIndex' = nextIndex(list)
        /\ turns' = turnsAfter(list, roundRobin(list))
        /\ UNCHANGED rows

(* A worker's row changes: heartbeats, jobs taken and finished.            *)
RowChanges(w) ==
    /\ \E s \in Statuses, n \in 0..maxConcurrency[w] :
         rows' = [rows EXCEPT ![w] = [status |-> s, jobs |-> n]]
    /\ UNCHANGED <<rrIndex, turns>>

BalancerNext ==
    \/ \E t \in JobTypes : SelectInTurn(t)
    \/ \E w \in FleetMembers : RowChanges(w)

BalancerSpec == BalancerInit /\ [][BalancerNext]_balancerVars

--------------------------------------------------------------------------------
(* "ROUND_ROBIN - distribute evenly across eligible workers": while the    *)
(* list of eligible workers stays the same nobody is selected twice before *)
(* everybody was selected, wherever the index stood when the list became   *)
(* what it is.  (Selections that alternate between lists of different      *)
(* lengths do pass a worker over for ever: they share one index.)          *)
TurnsAreFair ==
    \A i, k \in DOMAIN turns.picks : turns.picks[i] = turns.picks[k] => i = k

(* What the two strategies by load return, against its definition: an      *)
(* eligible worker such that none is less loaded, among those that match   *)
(* the job if any does.                                                    *)
SelectionIsBest ==
    \A t \in JobTypes :
        LET list == filterEligible(t)
            all  == ToSet(list)
            near == IF all \cap Matching[t] # {} THEN all \cap Matching[t] ELSE all
            best(S) == {w \in S : \A v \in S : rows[v].jobs * maxConcurrency[w]
                                                 >= rows[w].jobs * maxConcurrency[v]}
        IN  list # <<>> => /\ leastLoaded(list) \in best(all)
                           /\ affinity(t, list) \in best(near)
================================================================================
