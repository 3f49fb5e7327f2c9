--------------------------- MODULE DependencyResolver ---------------------------
(***************************************************************************)
(* Job dependencies: the graph of DependencyResolver.ts, of which every    *)
(* process has its own, and the count in PostgreSQL that the claim of the  *)
(* scheduler compares.  Jobs are submitted in API processes;               *)
(* onJobCompleted is called in worker processes.                           *)
(***************************************************************************)
EXTENDS DependencyGraph

CONSTANTS
    DependsOn,      \* the jobs a job depends on, in order
    Apis, Workers   \* processes

VARIABLES
    rows,      \* status and resolved_dependency_count
    graphs,    \* the graph of each process
    resolving  \* of each worker: a finished job, resolveDependency calls left

depVars == <<rows, graphs, resolving>>

DepTypeOK ==
    /\ rows \in [Jobs -> [status   : {"ABSENT", "PENDING", "QUEUED", "COMPLETED", "FAILED"},
                          resolved : Nat]]
    /\ graphs \in [Apis \cup Workers -> [Jobs -> Node]]
    /\ resolving \in [Workers -> [job : Jobs, left : Nat]]

DepInit ==
    /\ rows = [j \in Jobs |-> [status |-> "ABSENT", resolved |-> 0]]
    /\ graphs = [p \in Apis \cup Workers |-> EmptyGraph]
    /\ resolving \in [Workers -> [job : Jobs, left : {0}]]

--------------------------------------------------------------------------------
(* createJob refuses a dependency that does not exist.                     *)
SubmitJob(p, j) ==
    /\ rows[j].status = "ABSENT"
    /\ \A d \in ToSet(DependsOn[j]) : rows[d].status # "ABSENT"
    /\ rows' = [rows EXCEPT ![j].status = "PENDING"]
    /\ graphs' = [graphs EXCEPT ![p] = register(@, j, DependsOn[j])]
    /\ UNCHANGED resolving

(* dependency_count = resolved_dependency_count.                           *)
ClaimReady(j) ==
    /\ rows[j].status = "PENDING"
    /\ rows[j].resolved = Len(DependsOn[j])
    /\ rows' = [rows EXCEPT ![j].status = "QUEUED"]
    /\ UNCHANGED <<graphs, resolving>>

(* The worker writes the final status and calls onJobCompleted ...         *)
FinishJob(w, j) ==
    /\ resolving[w].left = 0
    /\ rows[j].status = "QUEUED"
    /\ \E status \in {"COMPLETED", "FAILED"} :
         LET change == onJobStateChange(graphs[w], j, status)
         IN  /\ rows' = [rows EXCEPT ![j].status = status]
             /\ graphs' = [graphs EXCEPT ![w] = change.graph]
             /\ resolving' = [resolving EXCEPT ![w] = [job |-> j, left |-> change.unblocked]]

(* ... which calls resolveDependency once for every unblocked job, each    *)
(* time for all the pending dependents.                                    *)
ResolveDependency(w) ==
    /\ resolving[w].left > 0
    /\ rows' = [j \in Jobs |->
                  IF rows[j].status = "PENDING" /\ resolving[w].job \in ToSet(DependsOn[j])
                  THEN [rows[j] EXCEPT !.resolved = @ + 1] ELSE rows[j]]
    /\ resolving' = [resolving EXCEPT ![w].left = @ - 1]
    /\ UNCHANGED graphs

(* A process restarts.  Its graph is not rebuilt.                          *)
Restart(p) ==
    /\ p \in Workers => resolving[p].left = 0
    /\ graphs' = [graphs EXCEPT ![p] = EmptyGraph]
    /\ UNCHANGED <<rows, resolving>>

DepNext ==
    \/ \E p \in Apis, j \in Jobs : SubmitJob(p, j)
    \/ \E j \in Jobs : ClaimReady(j)
    \/ \E w \in Workers : ResolveDependency(w) \/ \E j \in Jobs : FinishJob(w, j)
    \/ \E p \in Apis \cup Workers : Restart(p)

DepSpec ==
    /\ DepInit
    /\ [][DepNext]_depVars
    /\ \A j \in Jobs : WF_depVars(ClaimReady(j))
    /\ \A w \in Workers : WF_depVars(ResolveDependency(w))
                          /\ \A j \in Jobs : WF_depVars(FinishJob(w, j))

--------------------------------------------------------------------------------
(* "Calls jobScheduler.onJobCompleted() -> DependencyResolver":  a job     *)
(* whose dependencies have all completed is scheduled.  The graph of the   *)
(* worker that calls it has never heard of the dependents.                 *)
DependentsRun ==
    \A j \in Jobs :
        /\ rows[j].status = "PENDING"
        /\ \A d \in ToSet(DependsOn[j]) : rows[d].status = "COMPLETED"
        ~> rows[j].status # "PENDING"
================================================================================
