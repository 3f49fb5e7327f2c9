---------------------------- MODULE DependencyGraph ----------------------------
(***************************************************************************)
(* The in-memory graph of DependencyResolver.ts and the operations of the  *)
(* class.  A job that the graph does not have looks like the placeholder   *)
(* register makes for a dependency it has not met: no dependencies, and    *)
(* resolved.                                                               *)
(***************************************************************************)
EXTENDS Integers, Sequences, FiniteSets, SequencesExt, Arrays

CONSTANTS
    Jobs,
    RequireStatus   \* the statuses a dependency must reach

ASSUME FiniteJobs == IsFiniteSet(Jobs)

Node == [known        : BOOLEAN,  \* the graph has the node
         dependencies : Seq(Jobs),
         dependents   : Seq(Jobs),
         isResolved   : BOOLEAN]

Unknown == [known |-> FALSE, dependencies |-> <<>>, dependents |-> <<>>, isResolved |-> TRUE]

EmptyGraph == [j \in Jobs |-> Unknown]

(* What j depends on, as the graph has it.                                 *)
Needs(graph, j) == ToSet(graph[j].dependencies)

--------------------------------------------------------------------------------
(* A job that has a node, be it a placeholder, keeps what the node says.   *)
register(graph, j, deps) ==
    LET own == IF graph[j].known THEN graph
               ELSE [graph EXCEPT ![j] = [known        |-> TRUE,
                                          dependencies |-> deps,
                                          dependents   |-> <<>>,
                                          isResolved   |-> deps = <<>>]]
        dependent(n) == [n EXCEPT !.known = TRUE,
                                  !.dependents = IF Contains(@, j) THEN @ ELSE Append(@, j)]
    IN  [k \in Jobs |-> IF k \in ToSet(deps) THEN dependent(own[k]) ELSE own[k]]

deregister(graph, j) ==
    [k \in Jobs |-> IF k = j THEN Unknown
                    ELSE IF k \in Needs(graph, j)
                    THEN [graph[k] EXCEPT !.dependents = filter(@, Jobs \ {j})]
                    ELSE graph[k]]

(* A mutant of checkAllDependenciesMet: a node that is there will do.      *)
checkAllKnown(graph, j) == \A d \in Needs(graph, j) : graph[d].known

(* A dependency that was deregistered is not met.                          *)
checkAllDependenciesMet(graph, j) ==
    \A d \in Needs(graph, j) : graph[d].known /\ graph[d].isResolved

satisfies(status) == status \in RequireStatus

(* The graph after j reached status, and how many dependents it unblocked. *)
onJobStateChange(graph, j, status) ==
    LET dependents == graph[j].dependents
        unblock(acc, d) ==
          IF \/ acc.graph[d].isResolved
             \/ j \notin Needs(acc.graph, d)
             \/ ~ satisfies(status)
             \/ ~ checkAllDependenciesMet(acc.graph, d)
          THEN acc
          ELSE [graph     |-> [acc.graph EXCEPT ![d].isResolved = TRUE],
                unblocked |-> acc.unblocked + 1]
        upTo[i \in 0..Len(dependents)] ==
          IF i = 0 THEN [graph |-> graph, unblocked |-> 0]
          ELSE unblock(upTo[i - 1], dependents[i])
    IN  upTo[Len(dependents)]

--------------------------------------------------------------------------------
(* A mutant of leave: a job stays on the stack.                            *)
leaveOnStack(acc, id) == acc

leave(acc, id) == [acc EXCEPT !.inStack = @ \ {id}]

DfsState == [visited : SUBSET Jobs, inStack : SUBSET Jobs, throws : BOOLEAN]

(* The depth first search of validateNoCycles, from each of ids; throws    *)
(* ends it.                                                                *)
dfs(graph, start, ids) ==
    LET from[p \in DfsState \X Seq(Jobs)] ==
          LET acc     == p[1]
              rest    == p[2]
              id      == Head(rest)
              entered == [acc EXCEPT !.visited = @ \cup {id}, !.inStack = @ \cup {id}]
              after   == IF id \in acc.inStack THEN [acc EXCEPT !.throws = TRUE]
                         ELSE IF id \in acc.visited THEN acc
                         ELSE leave(from[<<entered, graph[id].dependencies>>], id)
          IN  IF rest = <<>> \/ acc.throws THEN acc ELSE from[<<after, Tail(rest)>>]
    IN  from[<<start, ids>>]

(* Whether it throws.                                                      *)
validateNoCycles(graph, ids) ==
    dfs(graph, [visited |-> {}, inStack |-> {}, throws |-> FALSE], ids).throws

(* A mutant of place: a job is put down before its dependencies.           *)
placeFirst(before, after, id) ==
    [after EXCEPT !.sorted = before.sorted \o <<id>>
                                \o SubSeq(@, Len(before.sorted) + 1, Len(@))]

place(before, after, id) == [after EXCEPT !.sorted = Append(@, id)]

VisitState == [visited : SUBSET Jobs, sorted : Seq(Jobs)]

visit(graph, start, ids) ==
    LET from[p \in VisitState \X Seq(Jobs)] ==
          LET acc     == p[1]
              rest    == p[2]
              id      == Head(rest)
              entered == [acc EXCEPT !.visited = @ \cup {id}]
              after   == IF id \in acc.visited THEN acc
                         ELSE place(acc, from[<<entered, graph[id].dependencies>>], id)
          IN  IF rest = <<>> THEN acc ELSE from[<<after, Tail(rest)>>]
    IN  from[<<start, ids>>]

topologicalSort(graph, ids) ==
    visit(graph, [visited |-> {}, sorted |-> <<>>], ids).sorted
================================================================================
