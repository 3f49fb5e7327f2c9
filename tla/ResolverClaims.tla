----------------------------- MODULE ResolverClaims -----------------------------
(***************************************************************************)
(* What a comment and a unit test say of DependencyResolver.ts and the     *)
(* class does not keep.  given is what each job was registered with, also  *)
(* where the graph has dropped it.                                         *)
(***************************************************************************)
EXTENDS ResolverLife

VARIABLE given

claimVars == <<resolverVars, given>>

ClaimsInit == ResolverInit /\ given = [j \in Jobs |-> <<>>]

RegisterGiven(j) ==
    \E deps \in DependencyLists(j) :
        RegisterWith(j, deps) /\ given' = [given EXCEPT ![j] = deps]

DeregisterGiven(j) == DeregisterJob(j) /\ given' = [given EXCEPT ![j] = <<>>]

ClaimsNext ==
    \E j \in Jobs :
        \/ RegisterGiven(j)
        \/ DeregisterGiven(j)
        \/ JobEnds(j) /\ UNCHANGED given

ClaimsSpec == ClaimsInit /\ [][ClaimsNext]_claimVars

--------------------------------------------------------------------------------
(* "This is conservative: requires ALL deps to be met": a job with         *)
(* dependencies is unblocked only when all of them have reached a status   *)
(* it requires.  checkAllDependenciesMet asks whether they were unblocked, *)
(* and a job without dependencies is from the start.                       *)
AllDependenciesMet ==
    \A j \in Jobs :
        graph[j].isResolved /\ graph[j].dependencies # <<>> => Needs(graph, j) \subseteq ended

(* Some of S, each of which was registered with another of them.           *)
RegisteredCycle(S) == \E C \in SUBSET S \ {{}} : \A x \in C : ToSet(given[x]) \cap C # {}

(* "should throw on circular dependency": validateNoCycles throws for jobs *)
(* that were registered as dependencies of each other.  register drops the *)
(* dependencies of a job that it has already met as one.                   *)
RegisteredCyclesThrow ==
    \A ids \in Questions : RegisteredCycle(ToSet(ids)) => validateNoCycles(graph, ids)
================================================================================
