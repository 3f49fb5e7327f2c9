------------------------------ MODULE ResolverLife ------------------------------
(***************************************************************************)
(* One DependencyResolver and its callers in any order: jobs registered    *)
(* before or after the jobs that name them, ended with any status, and     *)
(* deregistered.                                                           *)
(***************************************************************************)
EXTENDS DependencyGraph

CONSTANTS
    MaxDependencies,  \* bound: dependencies of one job
    MaxDrops,         \* bound: jobs deregistered
    MaxAsked          \* bound: jobs that a caller asks about at once

ASSUME ResolverAssumption ==
    MaxDependencies \in Nat /\ MaxDrops \in Nat /\ MaxAsked \in Nat

VARIABLES
    graph,
    declared,  \* the jobs a caller has registered
    drops,     \* jobs deregistered so far
    ended      \* the jobs that have reached a status that satisfies

resolverVars == <<graph, declared, drops, ended>>

ResolverTypeOK ==
    /\ graph \in [Jobs -> Node]
    /\ declared \in SUBSET Jobs
    /\ drops \in 0..MaxDrops
    /\ ended \in SUBSET Jobs

ResolverInit == graph = EmptyGraph /\ declared = {} /\ drops = 0 /\ ended = {}

(* Arrays without repetition, of other jobs.                               *)
DependencyLists(j) ==
    {s \in BoundedSeq(Jobs \ {j}, MaxDependencies) :
        \A i, k \in DOMAIN s : s[i] = s[k] => i = k}

RegisterWith(j, deps) ==
    /\ j \notin declared
    /\ graph' = register(graph, j, deps)
    /\ declared' = declared \cup {j}
    /\ UNCHANGED <<drops, ended>>

RegisterJob(j) == \E deps \in DependencyLists(j) : RegisterWith(j, deps)

(* A placeholder may be deregistered too.                                  *)
DeregisterJob(j) ==
    /\ graph[j].known
    /\ drops < MaxDrops
    /\ drops' = drops + 1
    /\ graph' = deregister(graph, j)
    /\ declared' = declared \ {j}
    /\ UNCHANGED ended

(* Any job may end; a graph that has not met it has no dependents of it.   *)
JobEnds(j) ==
    /\ \E status \in {"COMPLETED", "FAILED"} :
         /\ graph' = onJobStateChange(graph, j, status).graph
         /\ ended' = IF status \in RequireStatus THEN ended \cup {j} ELSE ended
    /\ UNCHANGED <<declared, drops>>

ResolverNext == \E j \in Jobs : RegisterJob(j) \/ DeregisterJob(j) \/ JobEnds(j)

ResolverSpec == ResolverInit /\ [][ResolverNext]_resolverVars

--------------------------------------------------------------------------------
(* Sets of jobs that have, with each job, its dependencies.                *)
Closed(S) == \A x \in S : Needs(graph, x) \subseteq S

(* Reference: the jobs that j depends on, directly or through others; the  *)
(* least closed set with the dependencies of j.                            *)
Below == [j \in Jobs |->
            {x \in Jobs : \A S \in SUBSET Jobs : Needs(graph, j) \subseteq S /\ Closed(S)
                                                 => x \in S}]

ReachedFrom(below, ids) == ToSet(ids) \cup UNION {below[x] : x \in ToSet(ids)}

(* The lists a caller may ask about.                                       *)
Questions == BoundedSeq(Jobs, MaxAsked)

(* The search of validateNoCycles is right about the graph it is given: it *)
(* throws exactly when a job that it reaches is among its own dependencies *)
(* there, direct or not, in whatever order it is asked, and not for a job  *)
(* that is reached twice.  (Whether the graph has the cycles that callers  *)
(* register is another matter: see RegisteredCyclesThrow.)                 *)
GraphCyclesAreFound ==
    LET below == Below
    IN  \A ids \in Questions :
            validateNoCycles(graph, ids) <=> \E x \in ReachedFrom(below, ids) : x \in below[x]

(* topologicalSort returns every job it reaches once, and, when there is   *)
(* no cycle, after all its dependencies.                                   *)
SortRespectsDependencies ==
    LET below == Below
    IN  \A ids \in Questions :
            LET sorted  == topologicalSort(graph, ids)
                reached == ReachedFrom(below, ids)
            IN  /\ IsInjective(sorted)
                /\ ToSet(sorted) = reached
                /\ \/ \E x \in reached : x \in below[x]
                   \/ \A i, k \in DOMAIN sorted :
                        sorted[k] \in Needs(graph, sorted[i]) => k < i

(* A job with dependencies is unblocked only by one of them that reached a *)
(* status it requires, and, unless something was deregistered, not before  *)
(* each of them was unblocked, in whatever order jobs were registered and  *)
(* ended.  (That all of them have ended, as the comment says, does not     *)
(* hold: see AllDependenciesMet.)                                          *)
UnblockedInOrder ==
    \A j \in Jobs :
        graph[j].isResolved /\ graph[j].dependencies # <<>>
            => /\ Needs(graph, j) \cap ended # {}
               /\ drops = 0 => \A d \in Needs(graph, j) : graph[d].isResolved
================================================================================
