----------------------------- MODULE ResolverProofs -----------------------------
(***************************************************************************)
(* The dependency graph, for any jobs and any lists of dependencies.       *)
(***************************************************************************)
EXTENDS ResolverLife, Counting

(* The graph keeps, of any list, at most as many dependencies as a caller  *)
(* can name.                                                               *)
ListsBounded == \A j \in Jobs : Len(graph[j].dependencies) <= MaxDependencies

(* As long as nothing was deregistered, a resolved job's dependencies have *)
(* nodes and are resolved.  (A job without a node would be registered      *)
(* unresolved.)                                                            *)
ResolvedInOrder ==
    drops = 0 => \A k \in Jobs :
                    graph[k].isResolved =>
                        \A d \in Needs(graph, k) : graph[d].known /\ graph[d].isResolved

ResolverInv == ResolverTypeOK /\ ListsBounded /\ UnblockedInOrder /\ ResolvedInOrder

(* What a change of j's state may make of graph G.                         *)
AfterEnd(G, j, status) ==
    {acc \in [graph : [Jobs -> Node], unblocked : Nat] :
        \A k \in Jobs :
            /\ acc.graph[k].dependencies = G[k].dependencies
            /\ acc.graph[k].known = G[k].known
            /\ G[k].isResolved => acc.graph[k].isResolved
            /\ acc.graph[k].isResolved
                   => G[k].isResolved \/ /\ satisfies(status) /\ j \in Needs(G, k)
                                         /\ \A d \in Needs(G, k) :
                                                G[d].known /\ acc.graph[d].isResolved}

(* The nodes of a graph.                                                   *)
LEMMA NodeOK ==
    ASSUME NEW G \in [Jobs -> Node], NEW k \in Jobs
    PROVE  /\ G[k].known \in BOOLEAN /\ G[k].isResolved \in BOOLEAN
           /\ G[k].dependencies \in Seq(Jobs) /\ G[k].dependents \in Seq(Jobs)
           /\ Needs(G, k) \subseteq Jobs
           /\ Needs(G, k) = {G[k].dependencies[i] : i \in 1..Len(G[k].dependencies)}
<1>1. G[k] \in Node
  OBVIOUS
<1>2. /\ G[k].known \in BOOLEAN /\ G[k].isResolved \in BOOLEAN
      /\ G[k].dependencies \in Seq(Jobs) /\ G[k].dependents \in Seq(Jobs)
  BY <1>1 DEF Node
<1>3. Needs(G, k) = {G[k].dependencies[i] : i \in 1..Len(G[k].dependencies)}
  BY <1>2 DEF Needs, ToSet
<1> QED BY <1>2, <1>3

(* onJobStateChange resolves jobs, and only those that wait for j and are  *)
(* served by its status.                                                   *)
LEMMA StateChangeOK ==
    ASSUME NEW G \in [Jobs -> Node], NEW j \in Jobs, NEW status
    PROVE  onJobStateChange(G, j, status) \in AfterEnd(G, j, status)
<1> DEFINE list == G[j].dependents
           n == Len(list)
           V == AfterEnd(G, j, status)
           c == [graph |-> G, unblocked |-> 0]
           step(acc, d) == IF \/ acc.graph[d].isResolved
                              \/ j \notin Needs(acc.graph, d)
                              \/ ~ satisfies(status)
                              \/ ~ checkAllDependenciesMet(acc.graph, d)
                           THEN acc
                           ELSE [graph     |-> [acc.graph EXCEPT ![d].isResolved = TRUE],
                                 unblocked |-> acc.unblocked + 1]
           g == [x \in V \X (1..n) |-> step(x[1], list[x[2]])]
           Def(u) == u = [i \in 0..n |-> IF i = 0 THEN c ELSE step(u[i - 1], list[i])]
           upTo == CHOOSE u : Def(u)
<1>1. n \in Nat /\ \A i \in 1..n : list[i] \in Jobs
  BY NodeOK
<1>2. c \in V
  BY DEF AfterEnd
<1>3. ASSUME NEW acc \in V, NEW d \in Jobs PROVE step(acc, d) \in V
  <2> DEFINE b == [acc.graph EXCEPT ![d].isResolved = TRUE]
  <2>1. /\ acc.graph \in [Jobs -> Node] /\ acc.unblocked \in Nat
        /\ \A k \in Jobs :
            /\ acc.graph[k].dependencies = G[k].dependencies
            /\ acc.graph[k].known = G[k].known
            /\ G[k].isResolved => acc.graph[k].isResolved
            /\ acc.graph[k].isResolved
                   => G[k].isResolved \/ /\ satisfies(status) /\ j \in Needs(G, k)
                                         /\ \A x \in Needs(G, k) :
                                                G[x].known /\ acc.graph[x].isResolved
    BY DEF AfterEnd
  <2>2. \A k \in Jobs : acc.graph[k] \in Node
    BY <2>1
  <2>3. [acc.graph[d] EXCEPT !.isResolved = TRUE] \in Node
    BY <2>2 DEF Node
  <2>4. b = [acc.graph EXCEPT ![d] = [acc.graph[d] EXCEPT !.isResolved = TRUE]]
    BY <2>1
  <2>5. /\ b \in [Jobs -> Node]
        /\ \A k \in Jobs : k # d => b[k] = acc.graph[k]
        /\ b[d] = [acc.graph[d] EXCEPT !.isResolved = TRUE]
    <3> HIDE DEF b
    <3> QED BY <2>1, <2>3, <2>4
  <2>6. /\ b[d].dependencies = acc.graph[d].dependencies /\ b[d].known = acc.graph[d].known
        /\ b[d].isResolved
    BY <2>2, <2>5 DEF Node
  <2>7. Needs(acc.graph, d) = Needs(G, d)
    BY <2>1 DEF Needs
  <2>8. CASE step(acc, d) = acc
    BY <2>8
  <2>9. CASE /\ step(acc, d) = [graph |-> b, unblocked |-> acc.unblocked + 1]
             /\ j \in Needs(acc.graph, d) /\ satisfies(status)
             /\ checkAllDependenciesMet(acc.graph, d)
    <3> HIDE DEF b, step
    <3>1. ASSUME NEW k \in Jobs
          PROVE  /\ b[k].dependencies = G[k].dependencies /\ b[k].known = G[k].known
                 /\ G[k].isResolved => b[k].isResolved
                 /\ acc.graph[k].isResolved => b[k].isResolved
      BY <2>1, <2>5, <2>6
    <3>2. ASSUME NEW k \in Jobs, NEW x \in Needs(G, k) PROVE x \in Jobs
      BY <3>2, NodeOK
    <3>3. \A x \in Needs(G, d) : G[x].known /\ acc.graph[x].isResolved
      BY <2>1, <2>7, <2>9, <3>2 DEF checkAllDependenciesMet
    <3>4. ASSUME NEW k \in Jobs, b[k].isResolved
          PROVE  G[k].isResolved \/ /\ satisfies(status) /\ j \in Needs(G, k)
                                    /\ \A x \in Needs(G, k) : G[x].known /\ b[x].isResolved
      <4>1. CASE k = d
        BY <2>7, <2>9, <3>1, <3>2, <3>3, <4>1
      <4>2. CASE k # d
        <5>1. acc.graph[k].isResolved
          BY <2>5, <3>4, <4>2
        <5> QED BY <2>1, <3>1, <3>2, <5>1
      <4> QED BY <4>1, <4>2
    <3> QED BY <2>1, <2>5, <2>9, <3>1, <3>4 DEF AfterEnd
  <2> QED BY <2>8, <2>9
<1>4. g \in Steps(V, n)
  <2> HIDE DEF step, V, n, list
  <2> QED BY <1>1, <1>3 DEF Steps
<1>5. ASSUME NEW acc \in V, NEW i \in 1..n PROVE g[<<acc, i>>] = step(acc, list[i])
  <2> HIDE DEF step, V, n, list
  <2> QED OBVIOUS
<1>6. PICK f : Iterates(f, V, c, n, g)
  <2> HIDE DEF g, V, n, c
  <2> QED BY <1>1, <1>2, <1>4, Iteration
<1>7. Def(f)
  <2> HIDE DEF c, step, V, g, n, list
  <2>1. f \in [0..n -> V] /\ f[0] = c
    BY <1>6 DEF Iterates
  <2>2. ASSUME NEW i \in 1..n PROVE f[i] = step(f[i - 1], list[i])
    <3>1. f[i - 1] \in V
      BY <1>1, <2>1
    <3> QED BY <1>5, <1>6, <3>1 DEF Iterates
  <2>3. \A i \in 0..n : f[i] = IF i = 0 THEN c ELSE step(f[i - 1], list[i])
    BY <1>1, <2>1, <2>2
  <2> QED BY <2>1, <2>3
<1>8. Def(upTo)
  <2> HIDE DEF Def
  <2> QED BY <1>7
<1>9. onJobStateChange(G, j, status) = upTo[n]
  BY DEF onJobStateChange
<1> HIDE DEF upTo, c, step, V, g, n, list
<1>10. upTo[0] = c /\ \A i \in 1..n : upTo[i] = step(upTo[i - 1], list[i])
  <2>1. \A i \in 0..n : upTo[i] = IF i = 0 THEN c ELSE step(upTo[i - 1], list[i])
    BY <1>8
  <2>2. 0 \in 0..n /\ \A i \in 1..n : i \in 0..n /\ i # 0
    BY <1>1
  <2> QED BY <2>1, <2>2
<1> DEFINE T == {i \in 0..n : upTo[i] \in V}
<1>11. 0 \in T
  BY <1>1, <1>2, <1>10
<1>12. ASSUME NEW i \in 1..n, i - 1 \in T PROVE i \in T
  BY <1>1, <1>3, <1>10, <1>12
<1>13. n \in T
  <2> HIDE DEF T
  <2>1. 0..n \subseteq T
    BY <1>1, <1>11, <1>12, UpTo
  <2> QED BY <1>1, <2>1
<1> QED BY <1>9, <1>13 DEF V

--------------------------------------------------------------------------------
(* Bounded sequences are sequences.                                        *)
LEMMA BoundedSeqOK ==
    ASSUME NEW S, NEW n \in Nat, NEW s \in BoundedSeq(S, n)
    PROVE  s \in Seq(S) /\ Len(s) <= n
<1>1. PICK m \in 0..n : s \in [1..m -> S]
  BY DEF BoundedSeq, SeqOf
<1>2. m \in Nat /\ s \in Seq(S) /\ Len(s) = m
  BY <1>1
<1> QED BY <1>1, <1>2

(* The nodes after register: an unknown job gets one with its dependencies,*)
(* and those get a dependent.                                              *)
LEMMA RegisterOK ==
    ASSUME NEW G \in [Jobs -> Node], NEW j \in Jobs, NEW deps \in Seq(Jobs)
    PROVE  /\ register(G, j, deps) \in [Jobs -> Node]
           /\ \A k \in Jobs :
                \/ /\ register(G, j, deps)[k].dependencies = G[k].dependencies
                   /\ register(G, j, deps)[k].isResolved = G[k].isResolved
                \/ /\ register(G, j, deps)[k].dependencies = deps
                   /\ register(G, j, deps)[k].isResolved = (deps = <<>>)
                   /\ ~ G[k].known
           /\ \A k \in Jobs : G[k].known => register(G, j, deps)[k].known
<1> DEFINE new == [known        |-> TRUE,
                   dependencies |-> deps,
                   dependents   |-> <<>>,
                   isResolved   |-> deps = <<>>]
           own == IF G[j].known THEN G ELSE [G EXCEPT ![j] = new]
           dependent(n) == [n EXCEPT !.known = TRUE,
                                     !.dependents = IF Contains(@, j) THEN @ ELSE Append(@, j)]
           after == [k \in Jobs |-> IF k \in ToSet(deps) THEN dependent(own[k]) ELSE own[k]]
<1>1. register(G, j, deps) = after
  BY DEF register
<1>2. <<>> \in Seq(Jobs) /\ (deps = <<>>) \in BOOLEAN
  OBVIOUS
<1>3. new \in Node /\ new.dependencies = deps /\ new.isResolved = (deps = <<>>) /\ new.known
  BY <1>2 DEF Node
<1> HIDE DEF new
<1>4. own \in [Jobs -> Node]
  BY <1>3
<1>5. ASSUME NEW k \in Jobs PROVE own[k] = G[k] \/ (own[k] = new /\ ~ G[k].known)
  BY <1>3
<1> HIDE DEF own
<1>6. ASSUME NEW n \in Node
      PROVE  /\ dependent(n) \in Node
             /\ dependent(n).dependencies = n.dependencies /\ dependent(n).isResolved = n.isResolved
             /\ dependent(n).known
  <2>1. n.dependents \in Seq(Jobs) /\ Append(n.dependents, j) \in Seq(Jobs)
    BY DEF Node
  <2>2. dependent(n) = [n EXCEPT !.known = TRUE,
                                 !.dependents = IF Contains(n.dependents, j) THEN n.dependents
                                                ELSE Append(n.dependents, j)]
    BY DEF Node
  <2> HIDE DEF dependent
  <2> QED BY <2>1, <2>2 DEF Node
<1> HIDE DEF dependent
<1>7. after \in [Jobs -> Node]
  BY <1>4, <1>6
<1>8. ASSUME NEW k \in Jobs
      PROVE  /\ after[k].dependencies = own[k].dependencies /\ after[k].isResolved = own[k].isResolved
             /\ own[k].known => after[k].known
  <2>1. own[k] \in Node
    BY <1>4
  <2> QED BY <1>6, <2>1
<1> HIDE DEF after
<1> QED BY <1>1, <1>3, <1>5, <1>7, <1>8

(* The nodes after deregister: j has none, and is nobody's dependent.      *)
LEMMA DeregisterOK ==
    ASSUME NEW G \in [Jobs -> Node], NEW j \in Jobs
    PROVE  /\ deregister(G, j) \in [Jobs -> Node]
           /\ deregister(G, j)[j].dependencies = <<>>
           /\ \A k \in Jobs \ {j} :
                /\ deregister(G, j)[k].dependencies = G[k].dependencies
                /\ deregister(G, j)[k].isResolved = G[k].isResolved
<1> DEFINE less(k) == [G[k] EXCEPT !.dependents = filter(G[k].dependents, Jobs \ {j})]
           after == [k \in Jobs |-> IF k = j THEN Unknown
                                    ELSE IF k \in Needs(G, j) THEN less(k) ELSE G[k]]
<1>1. \A k \in Jobs : G[k] \in Node
  OBVIOUS
<1>2. deregister(G, j) = after
  BY <1>1 DEF deregister, Node
<1>3. Unknown \in Node /\ Unknown.dependencies = <<>>
  BY DEF Unknown, Node
<1>4. ASSUME NEW k \in Jobs
      PROVE  /\ less(k) \in Node
             /\ less(k).dependencies = G[k].dependencies /\ less(k).isResolved = G[k].isResolved
  <2>1. filter(G[k].dependents, Jobs \ {j}) \in Seq(Jobs)
    BY NodeOK, FilterOK
  <2> QED BY <1>1, <2>1 DEF Node
<1> HIDE DEF less
<1>5. after \in [Jobs -> Node] /\ after[j] = Unknown
  BY <1>1, <1>3, <1>4
<1>6. ASSUME NEW k \in Jobs \ {j}
      PROVE  after[k].dependencies = G[k].dependencies /\ after[k].isResolved = G[k].isResolved
  BY <1>4
<1> HIDE DEF after
<1> QED BY <1>2, <1>3, <1>5, <1>6

--------------------------------------------------------------------------------
(* A resolver starts with an empty graph.                                  *)
LEMMA ResolverStart ==
    ASSUME ResolverInit PROVE ResolverInv
<1>1. graph = EmptyGraph /\ declared = {} /\ drops = 0 /\ ended = {}
  BY DEF ResolverInit
<1>2. Unknown \in Node /\ Unknown.dependencies = <<>> /\ Len(<<>>) = 0
  BY DEF Unknown, Node
<1>3. graph \in [Jobs -> Node] /\ \A j \in Jobs : graph[j] = Unknown
  BY <1>1, <1>2 DEF EmptyGraph
<1>4. drops \in 0..MaxDrops
  BY <1>1, ResolverAssumption
<1> QED BY <1>1, <1>2, <1>3, <1>4, ResolverAssumption
        DEF ResolverInv, ResolverTypeOK, ListsBounded, UnblockedInOrder, ResolvedInOrder, Needs, ToSet

(* register, deregister and onJobStateChange keep the invariant.           *)
LEMMA ResolverStep ==
    ASSUME ResolverInv, [ResolverNext]_resolverVars PROVE ResolverInv'
<1>1. /\ graph \in [Jobs -> Node] /\ declared \subseteq Jobs /\ drops \in 0..MaxDrops
      /\ ended \subseteq Jobs
      /\ \A k \in Jobs : Len(graph[k].dependencies) <= MaxDependencies
      /\ \A k \in Jobs : graph[k].isResolved /\ graph[k].dependencies # <<>>
                             => Needs(graph, k) \cap ended # {}
      /\ drops = 0 => \A k \in Jobs :
                         graph[k].isResolved =>
                             \A d \in Needs(graph, k) : graph[d].known /\ graph[d].isResolved
  BY DEF ResolverInv, ResolverTypeOK, ListsBounded, UnblockedInOrder, ResolvedInOrder
<1>a. ASSUME graph' \in [Jobs -> Node], ResolvedInOrder',
             \A k \in Jobs : graph'[k].isResolved /\ graph'[k].dependencies # <<>>
                                => Needs(graph', k) \cap ended' # {}
      PROVE  UnblockedInOrder'
  BY <1>a DEF UnblockedInOrder, ResolvedInOrder
<1>2. ASSUME NEW j \in Jobs, RegisterJob(j) PROVE ResolverInv'
  <2>1. PICK deps \in DependencyLists(j) : graph' = register(graph, j, deps)
    BY <1>2 DEF RegisterJob, RegisterWith
  <2>2. declared' = declared \cup {j} /\ drops' = drops /\ ended' = ended
    BY <1>2 DEF RegisterJob, RegisterWith
  <2>3. deps \in BoundedSeq(Jobs \ {j}, MaxDependencies)
    BY <2>1 DEF DependencyLists
  <2>4. deps \in Seq(Jobs \ {j}) /\ Len(deps) <= MaxDependencies
    BY <2>3, BoundedSeqOK, ResolverAssumption
  <2>5. deps \in Seq(Jobs)
    BY <2>4
  <2>6. /\ graph' \in [Jobs -> Node]
        /\ \A k \in Jobs : \/ /\ graph'[k].dependencies = graph[k].dependencies
                              /\ graph'[k].isResolved = graph[k].isResolved
                           \/ /\ graph'[k].dependencies = deps
                              /\ graph'[k].isResolved = (deps = <<>>)
                              /\ ~ graph[k].known
        /\ \A k \in Jobs : graph[k].known => graph'[k].known
    BY <1>1, <2>1, <2>5, RegisterOK
  <2>7. ListsBounded'
    BY <1>1, <2>4, <2>6 DEF ListsBounded
  <2>8. ResolvedInOrder'
    <3> SUFFICES ASSUME drops = 0, NEW k \in Jobs, graph'[k].isResolved,
                        NEW d \in Needs(graph', k)
                 PROVE  graph'[d].known /\ graph'[d].isResolved
      BY <2>2 DEF ResolvedInOrder
    <3>1. d \in Jobs /\ graph'[k].dependencies # <<>>
      BY <2>6, NodeOK
    <3>2. /\ graph'[k].dependencies = graph[k].dependencies
          /\ graph'[k].isResolved = graph[k].isResolved
      BY <2>6, <3>1
    <3>3. graph[d].known /\ graph[d].isResolved
      BY <1>1, <3>2 DEF Needs
    <3> QED BY <2>6, <3>1, <3>3
  <2>9. UnblockedInOrder'
    BY <1>1, <1>a, <2>2, <2>6, <2>8 DEF Needs
  <2> QED BY <1>1, <2>2, <2>6, <2>7, <2>8, <2>9 DEF ResolverInv, ResolverTypeOK
<1>3. ASSUME NEW j \in Jobs, DeregisterJob(j) PROVE ResolverInv'
  <2>1. /\ drops' \in 0..MaxDrops /\ drops' # 0 /\ graph' = deregister(graph, j)
        /\ declared' = declared \ {j} /\ ended' = ended
    BY <1>1, <1>3, ResolverAssumption DEF DeregisterJob
  <2>2. /\ graph' \in [Jobs -> Node] /\ graph'[j].dependencies = <<>>
        /\ \A k \in Jobs \ {j} : /\ graph'[k].dependencies = graph[k].dependencies
                                 /\ graph'[k].isResolved = graph[k].isResolved
    BY <1>1, <2>1, DeregisterOK
  <2>3. Len(<<>>) = 0
    OBVIOUS
  <2>4. ListsBounded'
    BY <1>1, <2>2, <2>3, ResolverAssumption DEF ListsBounded
  <2>5. ResolvedInOrder'
    BY <2>1 DEF ResolvedInOrder
  <2>6. UnblockedInOrder'
    BY <1>1, <1>a, <2>1, <2>2, <2>5 DEF Needs
  <2> QED BY <1>1, <2>1, <2>2, <2>4, <2>5, <2>6 DEF ResolverInv, ResolverTypeOK
<1>4. ASSUME NEW j \in Jobs, JobEnds(j) PROVE ResolverInv'
  <2>1. PICK status : /\ graph' = onJobStateChange(graph, j, status).graph
                      /\ ended' = IF status \in RequireStatus THEN ended \cup {j} ELSE ended
    BY <1>4 DEF JobEnds
  <2>2. declared' = declared /\ drops' = drops
    BY <1>4 DEF JobEnds
  <2>3. /\ graph' \in [Jobs -> Node]
        /\ \A k \in Jobs :
             /\ graph'[k].dependencies = graph[k].dependencies
             /\ graph'[k].known = graph[k].known
             /\ graph[k].isResolved => graph'[k].isResolved
             /\ graph'[k].isResolved
                    => graph[k].isResolved \/ /\ satisfies(status) /\ j \in Needs(graph, k)
                                              /\ \A d \in Needs(graph, k) :
                                                     graph[d].known /\ graph'[d].isResolved
    BY <1>1, <2>1, StateChangeOK DEF AfterEnd
  <2>4. ended' \subseteq Jobs /\ ended \subseteq ended' /\ (satisfies(status) => j \in ended')
    BY <1>1, <2>1 DEF satisfies
  <2>5. ListsBounded'
    BY <1>1, <2>3 DEF ListsBounded
  <2>6. \A k \in Jobs : Needs(graph', k) = Needs(graph, k) /\ Needs(graph, k) \subseteq Jobs
    BY <1>1, <2>3, NodeOK DEF Needs
  <2>7. ResolvedInOrder'
    <3> SUFFICES ASSUME drops = 0, NEW k \in Jobs, graph'[k].isResolved,
                        NEW d \in Needs(graph, k)
                 PROVE  graph'[d].known /\ graph'[d].isResolved
      BY <2>2, <2>6 DEF ResolvedInOrder
    <3>1. d \in Jobs
      BY <2>6
    <3> QED BY <1>1, <2>3, <3>1
  <2>8. UnblockedInOrder'
    BY <1>1, <1>a, <2>3, <2>4, <2>6, <2>7
  <2> QED BY <1>1, <2>2, <2>3, <2>4, <2>5, <2>7, <2>8 DEF ResolverInv, ResolverTypeOK
<1>5. CASE UNCHANGED resolverVars
  <2>1. graph' = graph /\ declared' = declared /\ drops' = drops /\ ended' = ended
    BY <1>5 DEF resolverVars
  <2> QED BY <2>1 DEF ResolverInv, ResolverTypeOK, ListsBounded, UnblockedInOrder, ResolvedInOrder,
                     Needs
<1> QED BY <1>2, <1>3, <1>4, <1>5 DEF ResolverNext

--------------------------------------------------------------------------------
(* What the searches rely on.                                              *)
GraphOK == graph \in [Jobs -> Node] /\ ListsBounded

(* Below is the least closed set with the dependencies of a job.           *)
LEMMA BelowOK ==
    ASSUME GraphOK, NEW j \in Jobs
    PROVE  /\ Below[j] \subseteq Jobs /\ Needs(graph, j) \subseteq Below[j] /\ Closed(Below[j])
           /\ \A S \in SUBSET Jobs : Needs(graph, j) \subseteq S /\ Closed(S) => Below[j] \subseteq S
           /\ \A x \in Below[j] : Below[x] \subseteq Below[j]
<1> DEFINE In(k, x) == \A S \in SUBSET Jobs : Needs(graph, k) \subseteq S /\ Closed(S) => x \in S
<1>0. \A k \in Jobs : Needs(graph, k) \subseteq Jobs
  BY NodeOK DEF GraphOK
<1>1. \A k \in Jobs : Below[k] = {x \in Jobs : In(k, x)}
  BY DEF Below
<1>2. ASSUME NEW k \in Jobs PROVE Below[k] \subseteq Jobs /\ Needs(graph, k) \subseteq Below[k]
  BY <1>0, <1>1
<1>3. ASSUME NEW k \in Jobs PROVE Closed(Below[k])
  <2>1. ASSUME NEW x \in Below[k], NEW y \in Needs(graph, x) PROVE y \in Below[k]
    <3>1. x \in Jobs /\ y \in Jobs /\ In(k, x)
      BY <1>0, <1>1, <2>1
    <3>2. In(k, y)
      BY <2>1, <3>1 DEF Closed
    <3> QED BY <1>1, <3>1, <3>2
  <2> QED BY <2>1 DEF Closed
<1>4. ASSUME NEW k \in Jobs, NEW S \in SUBSET Jobs, Needs(graph, k) \subseteq S, Closed(S)
      PROVE  Below[k] \subseteq S
  BY <1>1, <1>4
<1>5. ASSUME NEW x \in Below[j] PROVE Below[x] \subseteq Below[j]
  <2>1. x \in Jobs /\ Needs(graph, x) \subseteq Below[j] /\ Closed(Below[j])
    BY <1>2, <1>3 DEF Closed
  <2> QED BY <1>2, <1>4, <2>1
<1> HIDE DEF In
<1> QED BY <1>2, <1>3, <1>4, <1>5

(* The elements of a list: the first, and the others.                      *)
LEMMA HeadTail ==
    ASSUME NEW S, NEW s \in Seq(S), s # <<>>
    PROVE  /\ Head(s) \in S /\ Tail(s) \in Seq(S) /\ Len(s) \in Nat /\ Len(Tail(s)) = Len(s) - 1
           /\ ToSet(s) = {Head(s)} \cup ToSet(Tail(s))
<1> DEFINE t == Tail(s)
           n == Len(s)
<1>1. /\ n \in Nat /\ n > 0 /\ Head(s) = s[1] /\ Head(s) \in S /\ t \in Seq(S) /\ Len(t) = n - 1
      /\ DOMAIN s = 1..n /\ DOMAIN t = 1..(n - 1) /\ \A i \in 1..(n - 1) : t[i] = s[i + 1]
  OBVIOUS
<1> HIDE DEF t, n
<1>2. ToSet(s) = {s[i] : i \in 1..n} /\ ToSet(t) = {t[i] : i \in 1..(n - 1)}
  BY <1>1 DEF ToSet
<1>3. ASSUME NEW x \in ToSet(s) PROVE x = Head(s) \/ x \in ToSet(t)
  <2>1. PICK i \in 1..n : x = s[i]
    BY <1>2
  <2>2. CASE i = 1
    BY <1>1, <2>1, <2>2
  <2>3. CASE i # 1
    <3>1. i - 1 \in 1..(n - 1) /\ (i - 1) + 1 = i
      BY <1>1, <2>3
    <3>2. t[i - 1] = x
      BY <1>1, <2>1, <3>1
    <3> QED BY <1>2, <3>1, <3>2
  <2> QED BY <2>2, <2>3
<1>4. ASSUME NEW x \in ToSet(t) PROVE x \in ToSet(s)
  <2>1. PICK i \in 1..(n - 1) : x = t[i]
    BY <1>2
  <2>2. i + 1 \in 1..n /\ s[i + 1] = x
    BY <1>1, <2>1
  <2> QED BY <1>2, <2>2
<1>5. 1 \in 1..n
  BY <1>1
<1>6. Head(s) \in ToSet(s)
  BY <1>1, <1>2, <1>5
<1> QED BY <1>1, <1>3, <1>4, <1>6 DEF t, n

(* How much a search has before it at most: what it may still enter, each  *)
(* with a list of dependencies, and the rest of its list.                  *)
Ahead(visited, rest) ==
    (MaxDependencies + 1) * Cardinality(Jobs \ visited) + Len(rest)

(* It gets less with every job that is entered, and with every job of a    *)
(* list.                                                                   *)
LEMMA AheadOK ==
    ASSUME GraphOK, NEW visited \in SUBSET Jobs, NEW rest \in Seq(Jobs)
    PROVE  /\ Ahead(visited, rest) \in Nat
           /\ \A id \in Jobs \ visited :
                rest # <<>> => Ahead(visited \cup {id}, graph[id].dependencies) < Ahead(visited, rest)
           /\ \A more \in SUBSET Jobs :
                rest # <<>> /\ visited \subseteq more => Ahead(more, Tail(rest)) < Ahead(visited, rest)
<1> DEFINE c(V) == Cardinality(Jobs \ V)
           w == MaxDependencies + 1
<1>1. w \in Nat /\ MaxDependencies \in Nat /\ w = MaxDependencies + 1
  BY ResolverAssumption
<1>2. ASSUME NEW V \in SUBSET Jobs PROVE IsFiniteSet(Jobs \ V) /\ c(V) \in Nat /\ w * c(V) \in Nat
  <2>1. IsFiniteSet(Jobs \ V) /\ c(V) \in Nat
    BY FiniteJobs, FS_Subset, FS_CardinalityType
  <2> HIDE DEF c, w
  <2> QED BY <1>1, <2>1
<1>3. ASSUME NEW l \in Seq(Jobs) PROVE Len(l) \in Nat
  OBVIOUS
<1>4. \A V, l : Ahead(V, l) = w * c(V) + Len(l)
  BY DEF Ahead
<1>5. ASSUME NEW id \in Jobs \ visited, rest # <<>>
      PROVE  Ahead(visited \cup {id}, graph[id].dependencies) < Ahead(visited, rest)
  <2> DEFINE more == visited \cup {id}
             deps == graph[id].dependencies
  <2>1. deps \in Seq(Jobs) /\ Len(deps) <= MaxDependencies /\ Len(deps) \in Nat
    BY <1>3, NodeOK DEF GraphOK, ListsBounded
  <2>2. c(more) + 1 = c(visited)
    <3>1. \A y : y # id => (y \in Jobs \ more <=> y \in Jobs \ visited)
      OBVIOUS
    <3>2. id \notin Jobs \ more /\ id \in Jobs \ visited /\ IsFiniteSet(Jobs \ visited)
      BY <1>2
    <3> DEFINE S == Jobs \ visited
               T == Jobs \ more
    <3> HIDE DEF S, T
    <3>0. IsFiniteSet(S) /\ \A y : y # id => (y \in T <=> y \in S)
      BY <3>1, <3>2 DEF S, T
    <3>3. Cardinality(T) = Cardinality(S) + (IF id \in T THEN 1 ELSE 0) - (IF id \in S THEN 1 ELSE 0)
      BY <3>0, OneMember
    <3>4. Cardinality(T) \in Nat /\ Cardinality(S) \in Nat /\ id \in S /\ id \notin T
      BY <1>2, <3>2 DEF S, T
    <3>5. Cardinality(T) + 1 = Cardinality(S)
      BY <3>3, <3>4
    <3> QED BY <3>5 DEF S, T
  <2>3. more \in SUBSET Jobs
    OBVIOUS
  <2> HIDE DEF more, deps, c, w
  <2>4. c(more) \in Nat /\ c(visited) \in Nat /\ w * c(more) \in Nat /\ w * c(visited) \in Nat
    BY <1>2, <2>3
  <2>5. w * c(more) + w <= w * c(visited)
    BY <1>1, <2>2, <2>4, Multiples
  <2>6. Len(rest) \in Nat
    BY <1>3
  <2> QED BY <1>1, <1>4, <2>1, <2>4, <2>5, <2>6 DEF more, deps
<1>6. ASSUME NEW more \in SUBSET Jobs, rest # <<>>, visited \subseteq more
      PROVE  Ahead(more, Tail(rest)) < Ahead(visited, rest)
  <2>1. c(more) <= c(visited)
    <3>1. Jobs \ more \subseteq Jobs \ visited /\ IsFiniteSet(Jobs \ visited)
      BY <1>2, <1>6
    <3> QED BY <3>1, FS_Subset
  <2>2. Len(Tail(rest)) = Len(rest) - 1 /\ Len(rest) \in Nat
    BY <1>6, HeadTail
  <2> HIDE DEF c, w
  <2>3. c(more) \in Nat /\ c(visited) \in Nat /\ w * c(more) \in Nat /\ w * c(visited) \in Nat
    BY <1>2
  <2>4. w * c(more) <= w * c(visited)
    BY <1>1, <2>1, <2>3, Multiples
  <2>5. /\ Ahead(more, Tail(rest)) = w * c(more) + Len(Tail(rest))
        /\ Ahead(visited, rest) = w * c(visited) + Len(rest)
    BY <1>4
  <2>6. \A a, b, k, l \in Nat : a <= b /\ l = k - 1 => a + l < b + k
    OBVIOUS
  <2>7. Len(Tail(rest)) \in Nat
    BY <1>3, <1>6, HeadTail
  <2> QED BY <2>2, <2>3, <2>4, <2>5, <2>6, <2>7
<1>7. Ahead(visited, rest) \in Nat
  <2>1. Ahead(visited, rest) = w * c(visited) + Len(rest) /\ Len(rest) \in Nat /\ w * c(visited) \in Nat
    BY <1>2, <1>3, <1>4
  <2> HIDE DEF c, w
  <2> QED BY <2>1
<1> QED BY <1>5, <1>6, <1>7

--------------------------------------------------------------------------------
(* The jobs a search is done with.                                         *)
Done(acc) == acc.visited \ acc.inStack

(* It is done with a job only with all that the job depends on, and with   *)
(* none that depends on itself.                                            *)
DoneIsSound(acc) ==
    /\ acc.inStack \subseteq acc.visited
    /\ Closed(Done(acc))
    /\ \A x \in Done(acc) : x \notin Below[x]

(* What is still to be searched is below all that is on the stack.         *)
StackIsPath(acc, rest) == \A s \in acc.inStack : ToSet(rest) \subseteq Below[s]

(* What the search from each of rest may make of acc: it throws for a      *)
(* cycle that it reaches, or is done with rest as well.                    *)
Searched(acc, rest) ==
    {b \in DfsState :
        /\ acc.visited \subseteq b.visited
        /\ acc.throws => b = acc
        /\ ~ acc.throws /\ DoneIsSound(acc) /\ StackIsPath(acc, rest)
               => IF b.throws THEN \E x \in ReachedFrom(Below, rest) : x \in Below[x]
                  ELSE /\ b.inStack = acc.inStack
                       /\ ToSet(rest) \subseteq Done(b)
                       /\ DoneIsSound(b)}

Entered(acc, id) == [acc EXCEPT !.visited = @ \cup {id}, !.inStack = @ \cup {id}]

(* What is made of the first job of a list, if res is made of its          *)
(* dependencies.                                                           *)
AfterFirst(acc, id, res) ==
    IF id \in acc.inStack THEN [acc EXCEPT !.throws = TRUE]
    ELSE IF id \in acc.visited THEN acc
    ELSE leave(res, id)

(* The records that the search goes through.                               *)
LEMMA DfsRecords ==
    ASSUME NEW acc \in DfsState
    PROVE  /\ acc.visited \subseteq Jobs /\ acc.inStack \subseteq Jobs /\ acc.throws \in BOOLEAN
           /\ [acc EXCEPT !.throws = TRUE] \in DfsState
           /\ [acc EXCEPT !.throws = TRUE].throws
           /\ [acc EXCEPT !.throws = TRUE].visited = acc.visited
BY DEF DfsState

(* A job is put on the stack.                                              *)
LEMMA EnteredOK ==
    ASSUME NEW acc \in DfsState, NEW id \in Jobs
    PROVE  /\ Entered(acc, id) \in DfsState
           /\ Entered(acc, id).visited = acc.visited \cup {id}
           /\ Entered(acc, id).inStack = acc.inStack \cup {id}
           /\ Entered(acc, id).throws = acc.throws
BY DEF DfsState, Entered

(* A job is taken off the stack.                                           *)
LEMMA LeaveOK ==
    ASSUME NEW res \in DfsState, NEW id
    PROVE  /\ leave(res, id) \in DfsState
           /\ leave(res, id).visited = res.visited
           /\ leave(res, id).inStack = res.inStack \ {id}
           /\ leave(res, id).throws = res.throws
BY DEF DfsState, leave

(* An empty list, or a search that has thrown.                             *)
LEMMA DfsEnd ==
    ASSUME NEW acc \in DfsState, NEW rest \in Seq(Jobs), rest = <<>> \/ acc.throws
    PROVE  acc \in Searched(acc, rest)
<1>1. rest = <<>> => ToSet(rest) = {}
  BY DEF ToSet
<1> QED BY <1>1 DEF Searched

(* The first job of a list leaves at least as much visited.                *)
LEMMA DfsFirst ==
    ASSUME NEW acc \in DfsState, NEW id \in Jobs, NEW list, NEW res,
           id \notin acc.inStack /\ id \notin acc.visited => res \in Searched(Entered(acc, id), list)
    PROVE  /\ AfterFirst(acc, id, res) \in DfsState
           /\ acc.visited \subseteq AfterFirst(acc, id, res).visited
<1>1. CASE id \in acc.inStack \/ id \in acc.visited
  BY <1>1, DfsRecords DEF AfterFirst
<1>2. CASE id \notin acc.inStack /\ id \notin acc.visited
  <2>1. res \in DfsState /\ acc.visited \subseteq res.visited
    BY <1>2, EnteredOK DEF Searched
  <2> QED BY <1>2, <2>1, LeaveOK DEF AfterFirst
<1> QED BY <1>1, <1>2

(* The first job of a list, and then the others.                           *)
LEMMA DfsTurn ==
    ASSUME GraphOK, NEW acc \in DfsState, NEW rest \in Seq(Jobs), rest # <<>>, ~ acc.throws,
           NEW id, id = Head(rest), NEW res,
           id \notin acc.inStack /\ id \notin acc.visited
               => res \in Searched(Entered(acc, id), graph[id].dependencies),
           NEW b \in Searched(AfterFirst(acc, id, res), Tail(rest))
    PROVE  b \in Searched(acc, rest)
<1> DEFINE after == AfterFirst(acc, id, res)
           deps == graph[id].dependencies
<1>1. /\ id \in Jobs /\ Tail(rest) \in Seq(Jobs) /\ ToSet(rest) = {id} \cup ToSet(Tail(rest))
      /\ deps \in Seq(Jobs) /\ ToSet(deps) = Needs(graph, id) /\ Needs(graph, id) \subseteq Jobs
  BY HeadTail, NodeOK DEF GraphOK, Needs
<1>2. after \in DfsState /\ acc.visited \subseteq after.visited
  BY <1>1, DfsFirst
<1>3. /\ b \in DfsState /\ after.visited \subseteq b.visited /\ (after.throws => b = after)
  BY DEF Searched
<1> HIDE DEF after, deps
<1>4. SUFFICES ASSUME DoneIsSound(acc), StackIsPath(acc, rest)
      PROVE  IF b.throws THEN \E x \in ReachedFrom(Below, rest) : x \in Below[x]
             ELSE b.inStack = acc.inStack /\ ToSet(rest) \subseteq Done(b) /\ DoneIsSound(b)
  BY <1>2, <1>3 DEF Searched
<1>5. /\ \A x \in ToSet(rest) :
           x \in ReachedFrom(Below, rest) /\ Below[x] \subseteq ReachedFrom(Below, rest)
      /\ ReachedFrom(Below, Tail(rest)) \subseteq ReachedFrom(Below, rest)
  <2> HIDE DEF Below
  <2> QED BY <1>1 DEF ReachedFrom
<1>6. ASSUME after.throws, NEW x \in ReachedFrom(Below, rest), x \in Below[x]
      PROVE  b.throws /\ \E y \in ReachedFrom(Below, rest) : y \in Below[y]
  BY <1>3, <1>6
(* Those before the first were dealt with: after is sound for the rest.    *)
<1>7. ASSUME ~ after.throws, DoneIsSound(after), after.inStack = acc.inStack, id \in Done(after)
      PROVE  IF b.throws THEN \E x \in ReachedFrom(Below, rest) : x \in Below[x]
             ELSE b.inStack = acc.inStack /\ ToSet(rest) \subseteq Done(b) /\ DoneIsSound(b)
  <2>1. StackIsPath(after, Tail(rest))
    BY <1>1, <1>4, <1>7 DEF StackIsPath
  <2>2. IF b.throws THEN \E x \in ReachedFrom(Below, Tail(rest)) : x \in Below[x]
        ELSE /\ b.inStack = after.inStack
             /\ ToSet(Tail(rest)) \subseteq Done(b)
             /\ DoneIsSound(b)
    BY <1>7, <2>1 DEF Searched, after
  <2>3. CASE b.throws
    BY <1>5, <2>2, <2>3
  <2>4. CASE ~ b.throws
    <3>1. id \in Done(b)
      BY <1>3, <1>7, <2>2, <2>4 DEF Done
    <3> QED BY <1>1, <1>7, <2>2, <2>4, <3>1
  <2> QED BY <2>3, <2>4
<1>8. CASE id \in acc.inStack
  <2>1. after.throws
    BY <1>1, <1>8, DfsRecords DEF after, AfterFirst
  <2>2. id \in Below[id]
    BY <1>1, <1>4, <1>8 DEF StackIsPath
  <2> QED BY <1>1, <1>5, <1>6, <2>1, <2>2
<1>9. CASE id \notin acc.inStack /\ id \in acc.visited
  <2>1. after = acc
    BY <1>9 DEF after, AfterFirst
  <2> QED BY <1>4, <1>7, <1>9, <2>1 DEF Done
<1>10. CASE id \notin acc.inStack /\ id \notin acc.visited
  <2> DEFINE in == Entered(acc, id)
  <2>1. /\ in \in DfsState /\ in.visited = acc.visited \cup {id} /\ in.inStack = acc.inStack \cup {id}
        /\ ~ in.throws
    BY <1>1, EnteredOK
  <2>2. res \in Searched(in, deps) /\ res \in DfsState /\ in.visited \subseteq res.visited
    BY <1>10 DEF Searched, deps
  <2> HIDE DEF in
  <2>3. /\ after = leave(res, id) /\ after.visited = res.visited
        /\ after.inStack = res.inStack \ {id} /\ after.throws = res.throws
    BY <1>10, <2>2, LeaveOK DEF after, AfterFirst
  <2>4. DoneIsSound(in)
    <3>1. Done(in) = Done(acc)
      BY <1>4, <1>10, <2>1 DEF Done, DoneIsSound
    <3> QED BY <1>4, <2>1, <3>1 DEF DoneIsSound
  <2>5. StackIsPath(in, deps)
    <3>1. ASSUME NEW s \in acc.inStack PROVE Needs(graph, id) \subseteq Below[s]
      <4>1. s \in Jobs /\ id \in Below[s]
        BY <1>1, <1>4, DfsRecords DEF StackIsPath
      <4> QED BY <4>1, BelowOK DEF Closed
    <3>2. Needs(graph, id) \subseteq Below[id]
      BY <1>1, BelowOK
    <3> QED BY <1>1, <2>1, <3>1, <3>2 DEF StackIsPath
  <2>6. IF res.throws THEN \E x \in ReachedFrom(Below, deps) : x \in Below[x]
        ELSE res.inStack = in.inStack /\ ToSet(deps) \subseteq Done(res) /\ DoneIsSound(res)
    BY <2>1, <2>2, <2>4, <2>5 DEF Searched
  <2>7. CASE res.throws
    <3>1. PICK x \in ReachedFrom(Below, deps) : x \in Below[x]
      BY <2>6, <2>7
    <3>2. x \in Below[id]
      <4>1. /\ Needs(graph, id) \subseteq Below[id]
            /\ \A y \in Below[id] : Below[y] \subseteq Below[id]
        BY <1>1, BelowOK
      <4> HIDE DEF Below
      <4> QED BY <1>1, <3>1, <4>1 DEF ReachedFrom
    <3> QED BY <1>1, <1>5, <1>6, <2>3, <2>7, <3>1, <3>2
  <2>8. CASE ~ res.throws
    <3>1. /\ res.inStack = acc.inStack \cup {id} /\ Needs(graph, id) \subseteq Done(res)
          /\ DoneIsSound(res)
      BY <1>1, <2>1, <2>6, <2>8
    <3>2. /\ after.inStack = acc.inStack
          /\ Done(after) = Done(res) \cup {id} /\ id \notin Done(res)
      BY <1>10, <2>1, <2>2, <2>3, <3>1 DEF Done
    <3>3. Closed(Done(after))
      BY <3>1, <3>2 DEF DoneIsSound, Closed
    <3>4. id \notin Below[id]
      <4>1. Done(res) \in SUBSET Jobs
        BY <2>2, DfsRecords, <1>1 DEF Done
      <4>2. Below[id] \subseteq Done(res)
        BY <1>1, <3>1, <4>1, BelowOK DEF DoneIsSound
      <4> QED BY <3>2, <4>2
    <3>5. DoneIsSound(after)
      BY <1>4, <2>1, <2>2, <2>3, <3>1, <3>2, <3>3, <3>4 DEF DoneIsSound
    <3> QED BY <1>7, <2>3, <2>8, <3>2, <3>5
  <2> QED BY <2>7, <2>8
<1> QED BY <1>8, <1>9, <1>10

(* The search comes to an end, and with such a result, wherever it starts. *)
LEMMA DfsOK ==
    ASSUME GraphOK, NEW start \in DfsState, NEW ids \in Seq(Jobs)
    PROVE  dfs(graph, start, ids) \in Searched(start, ids)
<1> DEFINE D == DfsState \X Seq(Jobs)
           V == DfsState
           id(p) == Head(p[2])
           inner(p) == <<Entered(p[1], id(p)), graph[id(p)].dependencies>>
           next(u, p) == <<AfterFirst(p[1], id(p), u[inner(p)]), Tail(p[2])>>
           Ends(p) == p[2] = <<>> \/ p[1].throws
           Body(u, p) == IF Ends(p) THEN p[1] ELSE u[next(u, p)]
           from == CHOOSE u : u = [p \in D |-> Body(u, p)]
           m == [p \in D |-> Ahead(p[1].visited, p[2])]
           R == [p \in D |-> Searched(p[1], p[2])]
           g == [x \in [D -> V] \X D |-> Body(x[1], x[2])]
<1>1. dfs(graph, start, ids) = from[<<start, ids>>]
  BY DEF dfs, AfterFirst, Entered
<1>2. ASSUME NEW p \in D
      PROVE  /\ p[1] \in DfsState /\ p[2] \in Seq(Jobs) /\ p = <<p[1], p[2]>>
             /\ p[1].visited \in SUBSET Jobs /\ R[p] = Searched(p[1], p[2])
             /\ m[p] = Ahead(p[1].visited, p[2]) /\ m[p] \in Nat
  <2>1. p[1] \in DfsState /\ p[2] \in Seq(Jobs) /\ p = <<p[1], p[2]>>
    OBVIOUS
  <2>2. p[1].visited \in SUBSET Jobs
    BY <2>1, DfsRecords
  <2>3. R[p] = Searched(p[1], p[2]) /\ m[p] = Ahead(p[1].visited, p[2])
    <3> HIDE DEF D
    <3> QED OBVIOUS
  <2>4. Ahead(p[1].visited, p[2]) \in Nat
    BY <2>1, <2>2, AheadOK
  <2> HIDE DEF D, m, R
  <2> QED BY <2>1, <2>2, <2>3, <2>4
(* The dependencies of a job that was not visited are a smaller search.    *)
<1>3. ASSUME NEW p \in D, ~ Ends(p)
      PROVE  /\ id(p) \in Jobs
             /\ id(p) \notin p[1].visited => inner(p) \in D /\ m[inner(p)] < m[p]
  <2>1. id(p) \in Jobs /\ Tail(p[2]) \in Seq(Jobs)
    BY <1>2, <1>3, HeadTail
  <2>2. inner(p) \in D /\ inner(p)[1].visited = p[1].visited \cup {id(p)}
    BY <1>2, <2>1, EnteredOK, NodeOK DEF GraphOK
  <2>3. ASSUME id(p) \notin p[1].visited PROVE m[inner(p)] < m[p]
    <3>1. Ahead(p[1].visited \cup {id(p)}, graph[id(p)].dependencies) < Ahead(p[1].visited, p[2])
      BY <1>2, <1>3, <2>1, <2>3, AheadOK
    <3>2. m[inner(p)] = Ahead(p[1].visited \cup {id(p)}, graph[id(p)].dependencies)
      BY <1>2, <2>2
    <3> QED BY <1>2, <3>1, <3>2
  <2> QED BY <2>1, <2>2, <2>3
(* And so is the rest of the list, after that.                             *)
<1>4. ASSUME NEW p \in D, NEW f, AllowedBelow(f, R, D, m, m[p]), ~ Ends(p)
      PROVE  /\ next(f, p) \in D /\ m[next(f, p)] < m[p]
             /\ id(p) \notin p[1].inStack /\ id(p) \notin p[1].visited
                    => f[inner(p)] \in Searched(Entered(p[1], id(p)), graph[id(p)].dependencies)
  <2> DEFINE after == AfterFirst(p[1], id(p), f[inner(p)])
  <2>1. ASSUME id(p) \notin p[1].visited
        PROVE  f[inner(p)] \in Searched(Entered(p[1], id(p)), graph[id(p)].dependencies)
    <3>1. inner(p) \in D /\ f[inner(p)] \in R[inner(p)]
      <4> HIDE DEF D, m, R, inner, id, Ends
      <4> QED BY <1>3, <1>4, <2>1 DEF AllowedBelow
    <3> QED BY <1>2, <3>1
  <2>2. after \in DfsState /\ p[1].visited \subseteq after.visited
    <3> HIDE DEF id, inner, m, R
    <3> QED BY <1>2, <1>3, <1>4, <2>1, DfsFirst
  <2>3. Tail(p[2]) \in Seq(Jobs)
    BY <1>2, <1>4, HeadTail
  <2>4. next(f, p) = <<after, Tail(p[2])>>
    OBVIOUS
  <2>5. after.visited \in SUBSET Jobs
    BY <2>2, DfsRecords
  <2> HIDE DEF after, next
  <2>6. next(f, p) \in D
    <3>1. <<after, Tail(p[2])>> \in DfsState \X Seq(Jobs)
      BY <2>2, <2>3
    <3> QED BY <2>4, <3>1
  <2>7. m[next(f, p)] < m[p]
    BY <1>2, <1>4, <2>2, <2>4, <2>5, <2>6, AheadOK
  <2> QED BY <2>1, <2>6, <2>7
<1>5. ASSUME NEW p \in D, NEW f, AllowedBelow(f, R, D, m, m[p]) PROVE Body(f, p) \in Searched(p[1], p[2])
  <2>1. CASE Ends(p)
    BY <1>2, <2>1, DfsEnd
  <2>2. CASE ~ Ends(p)
    <3> DEFINE after == AfterFirst(p[1], id(p), f[inner(p)])
    <3>1. next(f, p) = <<after, Tail(p[2])>> /\ Body(f, p) = f[next(f, p)]
      BY <2>2
    <3>2. f[next(f, p)] \in R[next(f, p)] /\ next(f, p) \in D
      <4> HIDE DEF D, m, R, next, Ends
      <4> QED BY <1>4, <1>5, <2>2 DEF AllowedBelow
    <3>3. f[next(f, p)] \in Searched(after, Tail(p[2]))
      <4> HIDE DEF m, R, after, Ends, inner, id, Body
      <4> QED BY <1>2, <3>1, <3>2
    <3>4. /\ p[1] \in DfsState /\ p[2] \in Seq(Jobs) /\ p[2] # <<>> /\ ~ p[1].throws
          /\ id(p) = Head(p[2])
      BY <1>2, <2>2
    <3>5. id(p) \notin p[1].inStack /\ id(p) \notin p[1].visited
              => f[inner(p)] \in Searched(Entered(p[1], id(p)), graph[id(p)].dependencies)
      BY <1>4, <1>5, <2>2
    <3> HIDE DEF id, inner, next, m, R, D
    <3> QED BY <3>1, <3>3, <3>4, <3>5, DfsTurn
  <2> QED BY <2>1, <2>2
<1>6. ASSUME NEW p \in D, NEW f, NEW q, AllowedBelow(f, R, D, m, m[p]), AgreeBelow(f, q, D, m, m[p])
      PROVE  Body(f, p) = Body(q, p)
  <2>1. CASE Ends(p)
    BY <2>1
  <2>2. CASE ~ Ends(p)
    <3>1. next(f, p) = next(q, p)
      <4>1. CASE id(p) \in p[1].visited
        BY <4>1 DEF AfterFirst
      <4>2. CASE id(p) \notin p[1].visited
        <5>1. f[inner(p)] = q[inner(p)]
          <6> HIDE DEF D, m, R, inner, id, Ends
          <6> QED BY <1>3, <1>6, <2>2, <4>2 DEF AgreeBelow
        <5> QED BY <5>1
      <4> QED BY <4>1, <4>2
    <3>2. f[next(f, p)] = q[next(f, p)]
      <4> HIDE DEF D, m, R, next, Ends, id, inner
      <4> QED BY <1>4, <1>6, <2>2 DEF AgreeBelow
    <3> QED BY <2>2, <3>1, <3>2
  <2> QED BY <2>1, <2>2
<1>7. ASSUME NEW f \in [D -> V], NEW p \in D PROVE g[<<f, p>>] = Body(f, p)
  <2> HIDE DEF Body, D, V
  <2> QED OBVIOUS
<1>8. Recurses(g, D, V, m, R)
  <2>1. m \in [D -> Nat] /\ R \in [D -> SUBSET V]
    <3>1. \A p \in D : Searched(p[1], p[2]) \subseteq V
      BY DEF Searched
    <3>2. \A p \in D : m[p] \in Nat
      BY <1>2
    <3> HIDE DEF D, V
    <3> QED BY <3>1, <3>2
  <2>2. ASSUME NEW p \in D, NEW f \in [D -> V], AllowedBelow(f, R, D, m, m[p])
        PROVE  g[<<f, p>>] \in R[p]
    <3> HIDE DEF Body, D, V, g, m, R
    <3> QED BY <1>2, <1>5, <1>7, <2>2
  <2>3. ASSUME NEW p \in D, NEW f \in [D -> V], NEW q \in [D -> V],
               AllowedBelow(f, R, D, m, m[p]), AgreeBelow(f, q, D, m, m[p])
        PROVE  g[<<f, p>>] = g[<<q, p>>]
    <3> HIDE DEF g, Body, D, V, m, R
    <3> QED BY <1>6, <1>7, <2>3
  <2> HIDE DEF g, m, R, D, V
  <2> QED BY <2>1, <2>2, <2>3 DEF Recurses
<1>9. start \in V
  OBVIOUS
<1>10. from = [p \in D |-> Body(from, p)]
  <2>1. PICK h : Solution(h, g, D, V, R)
    <3> HIDE DEF g, m, R, D, V
    <3> QED BY <1>8, <1>9, Recursion
  <2>2. h = [p \in D |-> Body(h, p)]
    <3> HIDE DEF g, R, D, V, Body
    <3> QED BY <1>7, <2>1 DEF Solution
  <2> HIDE DEF Body, D
  <2> QED BY <2>2
<1>11. \A p \in D : from[p] \in R[p]
  <2>1. ASSUME NEW p \in D, NEW f \in [D -> V],
               AllowedBelow(f, R, D, m, m[p]), AgreeBelow(f, from, D, m, m[p])
        PROVE  g[<<f, p>>] = from[p]
    <3> HIDE DEF g, from, Body, D, V, m, R
    <3> QED BY <1>6, <1>7, <1>10, <2>1
  <2> HIDE DEF g, m, R, D, V, from
  <2>2. Follows(from, g, D, V, m, R)
    BY <2>1 DEF Follows
  <2> QED BY <1>8, <1>9, <2>2, RecursionOK
<1>12. <<start, ids>> \in D
  OBVIOUS
<1> HIDE DEF from
<1> QED BY <1>1, <1>11, <1>12

(* A closed set with a list has all that is reached from it.               *)
LEMMA ReachedInside ==
    ASSUME GraphOK, NEW ids \in Seq(Jobs), NEW S \in SUBSET Jobs, ToSet(ids) \subseteq S, Closed(S)
    PROVE  ReachedFrom(Below, ids) \subseteq S
<1>1. ASSUME NEW x \in ToSet(ids) PROVE Below[x] \subseteq S
  <2>1. x \in Jobs /\ Needs(graph, x) \subseteq S
    BY DEF Closed
  <2> QED BY <2>1, BelowOK
<1> HIDE DEF Below
<1> QED BY <1>1 DEF ReachedFrom

(* validateNoCycles is right about every graph.                            *)
LEMMA CyclesFound ==
    ASSUME GraphOK PROVE GraphCyclesAreFound
<1> DEFINE start == [visited |-> {}, inStack |-> {}, throws |-> FALSE]
<1>1. ASSUME NEW ids \in Questions
      PROVE  validateNoCycles(graph, ids) <=> \E x \in ReachedFrom(Below, ids) : x \in Below[x]
  <2> DEFINE b == dfs(graph, start, ids)
  <2>1. ids \in Seq(Jobs)
    BY BoundedSeqOK, ResolverAssumption DEF Questions
  <2>2. /\ start \in DfsState /\ start.visited = {} /\ start.inStack = {} /\ ~ start.throws
    BY DEF DfsState
  <2>3. validateNoCycles(graph, ids) = b.throws
    BY DEF validateNoCycles
  <2> HIDE DEF start
  <2>4. b \in Searched(start, ids)
    BY <2>1, <2>2, DfsOK
  <2> HIDE DEF b
  <2>5. DoneIsSound(start) /\ StackIsPath(start, ids)
    BY <2>2 DEF DoneIsSound, StackIsPath, Done, Closed
  <2>6. /\ b \in DfsState
        /\ IF b.throws THEN \E x \in ReachedFrom(Below, ids) : x \in Below[x]
           ELSE /\ b.inStack = start.inStack
                /\ ToSet(ids) \subseteq Done(b)
                /\ DoneIsSound(b)
    BY <2>2, <2>4, <2>5 DEF Searched
  <2>7. CASE b.throws
    BY <2>3, <2>6, <2>7
  <2>8. CASE ~ b.throws
    <3>1. Done(b) \in SUBSET Jobs /\ ToSet(ids) \subseteq Done(b) /\ DoneIsSound(b)
      BY <2>6, <2>8, DfsRecords DEF Done
    <3>2. ReachedFrom(Below, ids) \subseteq Done(b)
      BY <2>1, <3>1, ReachedInside DEF DoneIsSound
    <3> QED BY <2>3, <2>8, <3>1, <3>2 DEF DoneIsSound
  <2> QED BY <2>7, <2>8
<1> QED BY <1>1 DEF GraphCyclesAreFound

--------------------------------------------------------------------------------
(* The jobs whose visit has begun and not ended.                           *)
Grey(acc) == acc.visited \ ToSet(acc.sorted)

(* Each job is put down once, and what it depends on has been visited.     *)
SortIsSound(acc) ==
    /\ ToSet(acc.sorted) \subseteq acc.visited
    /\ IsInjective(acc.sorted)
    /\ \A x \in ToSet(acc.sorted) : Needs(graph, x) \subseteq acc.visited

(* What is still to be visited is below all that has been begun.           *)
GreyIsPath(acc, rest) == \A s \in Grey(acc) : ToSet(rest) \subseteq Below[s]

(* The jobs that each job depends on precede it.                           *)
InOrder(sorted) ==
    \A i \in 1..Len(sorted) : \A y \in Needs(graph, sorted[i]) : \E k \in 1..(i - 1) : sorted[k] = y

Acyclic(S) == \A x \in S : x \notin Below[x]

(* What the visits from each of rest may make of acc.                      *)
Visited(acc, rest) ==
    {b \in VisitState :
        /\ acc.visited \subseteq b.visited
        /\ SortIsSound(acc) /\ GreyIsPath(acc, rest) =>
             /\ SortIsSound(b)
             /\ Grey(b) = Grey(acc)
             /\ ToSet(rest) \subseteq b.visited
             /\ b.visited \subseteq acc.visited \cup ReachedFrom(Below, rest)
             /\ InOrder(acc.sorted) /\ Acyclic(b.visited) => InOrder(b.sorted)}

Begun(acc, id) == [acc EXCEPT !.visited = @ \cup {id}]

AfterVisit(acc, id, res) == IF id \in acc.visited THEN acc ELSE place(acc, res, id)

(* The records that the sort goes through.                                 *)
LEMMA VisitRecords ==
    ASSUME NEW acc \in VisitState
    PROVE  acc.visited \subseteq Jobs /\ acc.sorted \in Seq(Jobs)
BY DEF VisitState

(* The visit of a job begins.                                              *)
LEMMA BegunOK ==
    ASSUME NEW acc \in VisitState, NEW id \in Jobs
    PROVE  /\ Begun(acc, id) \in VisitState
           /\ Begun(acc, id).visited = acc.visited \cup {id}
           /\ Begun(acc, id).sorted = acc.sorted
BY DEF VisitState, Begun

(* A job is put down.                                                      *)
LEMMA PlaceOK ==
    ASSUME NEW acc, NEW res \in VisitState, NEW id \in Jobs
    PROVE  /\ place(acc, res, id) \in VisitState
           /\ place(acc, res, id).visited = res.visited
           /\ place(acc, res, id).sorted = Append(res.sorted, id)
<1>1. res.sorted \in Seq(Jobs) /\ Append(res.sorted, id) \in Seq(Jobs)
  BY DEF VisitState
<1>2. place(acc, res, id) = [res EXCEPT !.sorted = Append(res.sorted, id)]
  BY DEF place, VisitState
<1> QED BY <1>1, <1>2 DEF VisitState

(* One more job at the end of a list.                                      *)
LEMMA AppendSet ==
    ASSUME NEW s \in Seq(Jobs), NEW x \in Jobs
    PROVE  /\ ToSet(Append(s, x)) = ToSet(s) \cup {x}
           /\ IsInjective(s) /\ x \notin ToSet(s) => IsInjective(Append(s, x))
           /\ InOrder(s) /\ Needs(graph, x) \subseteq ToSet(s) => InOrder(Append(s, x))
<1> DEFINE t == Append(s, x)
           n == Len(s)
<1>1. /\ t \in Seq(Jobs) /\ n \in Nat /\ Len(t) = n + 1 /\ t[n + 1] = x
      /\ \A i \in 1..n : t[i] = s[i]
      /\ DOMAIN s = 1..n /\ DOMAIN t = 1..(n + 1)
  BY AppendOK
<1> HIDE DEF t
<1>2. \A i \in 1..(n + 1) : i \in 1..n \/ i = n + 1
  BY <1>1
<1>3. 1..n \subseteq 1..(n + 1) /\ n + 1 \in 1..(n + 1)
  BY <1>1
<1>4. ToSet(s) = {s[i] : i \in 1..n} /\ ToSet(t) = {t[i] : i \in 1..(n + 1)}
  BY <1>1 DEF ToSet
<1> HIDE DEF n
<1>5. ToSet(t) = ToSet(s) \cup {x}
  BY <1>1, <1>2, <1>3, <1>4
<1>6. ASSUME IsInjective(s), x \notin ToSet(s) PROVE IsInjective(t)
  BY <1>1, <1>2, <1>4, <1>6 DEF IsInjective
<1>7. ASSUME InOrder(s), Needs(graph, x) \subseteq ToSet(s) PROVE InOrder(t)
  <2>1. ASSUME NEW i \in 1..(n + 1), NEW y \in Needs(graph, t[i])
        PROVE  \E k \in 1..(i - 1) : t[k] = y
    <3>1. CASE i \in 1..n
      <4>1. PICK k \in 1..(i - 1) : s[k] = y
        BY <1>1, <1>7, <2>1, <3>1 DEF InOrder, n
      <4>2. k \in 1..n
        BY <1>1, <3>1, <4>1
      <4> QED BY <1>1, <4>1, <4>2
    <3>2. CASE i = n + 1
      <4>1. y \in ToSet(s)
        BY <1>1, <1>7, <2>1, <3>2
      <4>2. PICK k \in 1..n : s[k] = y
        BY <1>4, <4>1
      <4>3. i - 1 = n
        BY <1>1, <3>2
      <4> QED BY <1>1, <4>2, <4>3
    <3> QED BY <1>2, <3>1, <3>2
  <2> QED BY <1>1, <2>1 DEF InOrder
<1> QED BY <1>5, <1>6, <1>7 DEF t

(* An empty list.                                                          *)
LEMMA VisitEnd ==
    ASSUME NEW acc \in VisitState
    PROVE  acc \in Visited(acc, <<>>)
<1>1. ToSet(<<>>) = {}
  BY DEF ToSet
<1> QED BY <1>1 DEF Visited

(* The first job of a list leaves at least as much visited.                *)
LEMMA VisitFirst ==
    ASSUME NEW acc \in VisitState, NEW id \in Jobs, NEW list, NEW res,
           id \notin acc.visited => res \in Visited(Begun(acc, id), list)
    PROVE  /\ AfterVisit(acc, id, res) \in VisitState
           /\ acc.visited \subseteq AfterVisit(acc, id, res).visited
<1>1. CASE id \in acc.visited
  BY <1>1 DEF AfterVisit
<1>2. CASE id \notin acc.visited
  <2>1. res \in VisitState /\ acc.visited \subseteq res.visited
    BY <1>2, BegunOK DEF Visited
  <2> QED BY <1>2, <2>1, PlaceOK DEF AfterVisit
<1> QED BY <1>1, <1>2

(* The first job of a list, and then the others.                           *)
LEMMA VisitTurn ==
    ASSUME GraphOK, NEW acc \in VisitState, NEW rest \in Seq(Jobs), rest # <<>>,
           NEW id, id = Head(rest), NEW res,
           id \notin acc.visited => res \in Visited(Begun(acc, id), graph[id].dependencies),
           NEW b \in Visited(AfterVisit(acc, id, res), Tail(rest))
    PROVE  b \in Visited(acc, rest)
<1> DEFINE after == AfterVisit(acc, id, res)
           deps == graph[id].dependencies
           reached == ReachedFrom(Below, rest)
<1>1. /\ id \in Jobs /\ Tail(rest) \in Seq(Jobs) /\ ToSet(rest) = {id} \cup ToSet(Tail(rest))
      /\ deps \in Seq(Jobs) /\ ToSet(deps) = Needs(graph, id) /\ Needs(graph, id) \subseteq Jobs
  BY HeadTail, NodeOK DEF GraphOK, Needs
<1>2. after \in VisitState /\ acc.visited \subseteq after.visited
  BY <1>1, VisitFirst
<1>3. b \in VisitState /\ after.visited \subseteq b.visited
  BY DEF Visited
<1> HIDE DEF after, deps
<1>4. SUFFICES ASSUME SortIsSound(acc), GreyIsPath(acc, rest)
      PROVE  /\ SortIsSound(b)
             /\ Grey(b) = Grey(acc)
             /\ ToSet(rest) \subseteq b.visited
             /\ b.visited \subseteq acc.visited \cup reached
             /\ InOrder(acc.sorted) /\ Acyclic(b.visited) => InOrder(b.sorted)
  BY <1>2, <1>3 DEF Visited
<1>5. /\ id \in reached /\ Below[id] \subseteq reached
      /\ ReachedFrom(Below, Tail(rest)) \subseteq reached
  <2> HIDE DEF Below
  <2> QED BY <1>1 DEF ReachedFrom
<1> HIDE DEF reached
<1>6. /\ SortIsSound(after) /\ Grey(after) = Grey(acc) /\ id \in after.visited
      /\ after.visited \subseteq acc.visited \cup reached
      /\ InOrder(acc.sorted) /\ Acyclic(after.visited) => InOrder(after.sorted)
  <2>1. CASE id \in acc.visited
    BY <1>4, <2>1 DEF after, AfterVisit
  <2>2. CASE id \notin acc.visited
    <3> DEFINE in == Begun(acc, id)
    <3>1. /\ in \in VisitState /\ in.visited = acc.visited \cup {id} /\ in.sorted = acc.sorted
          /\ acc.visited \subseteq Jobs /\ acc.sorted \in Seq(Jobs)
      BY <1>1, BegunOK, VisitRecords
    <3>2. res \in Visited(in, deps) /\ res \in VisitState /\ in.visited \subseteq res.visited
      BY <2>2 DEF Visited, deps
    <3>3. /\ after.visited = res.visited /\ after.sorted = Append(res.sorted, id)
          /\ res.sorted \in Seq(Jobs)
      BY <1>1, <2>2, <3>2, PlaceOK, VisitRecords DEF after, AfterVisit
    <3> HIDE DEF in
    <3>4. id \notin ToSet(acc.sorted) /\ Grey(in) = Grey(acc) \cup {id} /\ id \notin Grey(acc)
      BY <1>4, <2>2, <3>1 DEF Grey, SortIsSound
    <3>5. SortIsSound(in)
      BY <1>4, <3>1 DEF SortIsSound
    <3>6. GreyIsPath(in, deps)
      <4>1. ASSUME NEW s \in Grey(acc) PROVE Needs(graph, id) \subseteq Below[s]
        <5>1. s \in Jobs /\ id \in Below[s]
          BY <1>1, <1>4, <3>1 DEF GreyIsPath, Grey
        <5> QED BY <5>1, BelowOK DEF Closed
      <4>2. Needs(graph, id) \subseteq Below[id]
        BY <1>1, BelowOK
      <4> QED BY <1>1, <3>4, <4>1, <4>2 DEF GreyIsPath
    <3>7. /\ SortIsSound(res) /\ Grey(res) = Grey(acc) \cup {id}
          /\ Needs(graph, id) \subseteq res.visited
          /\ res.visited \subseteq in.visited \cup ReachedFrom(Below, deps)
          /\ InOrder(acc.sorted) /\ Acyclic(res.visited) => InOrder(res.sorted)
      BY <1>1, <3>1, <3>2, <3>4, <3>5, <3>6 DEF Visited
    <3>8. id \in res.visited /\ id \notin ToSet(res.sorted)
      BY <3>1, <3>2, <3>7 DEF Grey
    <3>9. /\ ToSet(after.sorted) = ToSet(res.sorted) \cup {id} /\ IsInjective(after.sorted)
      BY <1>1, <3>3, <3>7, <3>8, AppendSet DEF SortIsSound
    <3>10. SortIsSound(after)
      BY <3>3, <3>7, <3>8, <3>9 DEF SortIsSound
    <3>11. Grey(after) = Grey(acc)
      BY <3>3, <3>4, <3>7, <3>8, <3>9 DEF Grey
    <3>12. after.visited \subseteq acc.visited \cup reached
      <4>1. /\ Needs(graph, id) \subseteq Below[id]
            /\ \A y \in Below[id] : Below[y] \subseteq Below[id]
        BY <1>1, BelowOK
      <4>2. ReachedFrom(Below, deps) \subseteq Below[id]
        <5> HIDE DEF Below
        <5> QED BY <1>1, <4>1 DEF ReachedFrom
      <4> QED BY <1>5, <3>1, <3>3, <3>7, <4>2
    <3>13. ASSUME InOrder(acc.sorted), Acyclic(after.visited) PROVE InOrder(after.sorted)
      <4>1. id \notin Below[id] /\ InOrder(res.sorted)
        BY <3>3, <3>7, <3>8, <3>13 DEF Acyclic
      <4>2. ASSUME NEW y \in Needs(graph, id) PROVE y \in ToSet(res.sorted)
        <5>1. y \in res.visited /\ y \in Below[id] /\ Below[y] \subseteq Below[id]
          BY <1>1, <3>7, BelowOK
        <5>2. y # id
          BY <4>1, <5>1
        <5>3. y \notin Grey(acc)
          BY <1>1, <1>4, <4>1, <5>1 DEF GreyIsPath
        <5> QED BY <3>7, <5>1, <5>2, <5>3 DEF Grey
      <4> QED BY <1>1, <3>3, <4>1, <4>2, AppendSet
    <3> QED BY <3>3, <3>8, <3>10, <3>11, <3>12, <3>13
  <2> QED BY <2>1, <2>2
<1>7. GreyIsPath(after, Tail(rest))
  BY <1>1, <1>4, <1>6 DEF GreyIsPath
<1>8. /\ SortIsSound(b) /\ Grey(b) = Grey(after) /\ ToSet(Tail(rest)) \subseteq b.visited
      /\ b.visited \subseteq after.visited \cup ReachedFrom(Below, Tail(rest))
      /\ InOrder(after.sorted) /\ Acyclic(b.visited) => InOrder(b.sorted)
  BY <1>6, <1>7 DEF Visited, after
<1>9. Acyclic(b.visited) => Acyclic(after.visited)
  BY <1>3 DEF Acyclic
<1> QED BY <1>1, <1>3, <1>5, <1>6, <1>8, <1>9

(* The sort comes to an end, and with such a result, wherever it starts.   *)
LEMMA VisitOK ==
    ASSUME GraphOK, NEW start \in VisitState, NEW ids \in Seq(Jobs)
    PROVE  visit(graph, start, ids) \in Visited(start, ids)
<1> DEFINE D == VisitState \X Seq(Jobs)
           V == VisitState
           id(p) == Head(p[2])
           inner(p) == <<Begun(p[1], id(p)), graph[id(p)].dependencies>>
           next(u, p) == <<AfterVisit(p[1], id(p), u[inner(p)]), Tail(p[2])>>
           Ends(p) == p[2] = <<>>
           Body(u, p) == IF Ends(p) THEN p[1] ELSE u[next(u, p)]
           from == CHOOSE u : u = [p \in D |-> Body(u, p)]
           m == [p \in D |-> Ahead(p[1].visited, p[2])]
           R == [p \in D |-> Visited(p[1], p[2])]
           g == [x \in [D -> V] \X D |-> Body(x[1], x[2])]
<1>1. visit(graph, start, ids) = from[<<start, ids>>]
  BY DEF visit, AfterVisit, Begun
<1>2. ASSUME NEW p \in D
      PROVE  /\ p[1] \in VisitState /\ p[2] \in Seq(Jobs) /\ p = <<p[1], p[2]>>
             /\ p[1].visited \in SUBSET Jobs /\ R[p] = Visited(p[1], p[2])
             /\ m[p] = Ahead(p[1].visited, p[2]) /\ m[p] \in Nat
  <2>1. p[1] \in VisitState /\ p[2] \in Seq(Jobs) /\ p = <<p[1], p[2]>>
    OBVIOUS
  <2>2. p[1].visited \in SUBSET Jobs
    BY <2>1, VisitRecords
  <2>3. R[p] = Visited(p[1], p[2]) /\ m[p] = Ahead(p[1].visited, p[2])
    <3> HIDE DEF D
    <3> QED OBVIOUS
  <2>4. Ahead(p[1].visited, p[2]) \in Nat
    BY <2>1, <2>2, AheadOK
  <2> HIDE DEF D, m, R
  <2> QED BY <2>1, <2>2, <2>3, <2>4
(* The dependencies of a job that was not visited are a smaller search.    *)
<1>3. ASSUME NEW p \in D, ~ Ends(p)
      PROVE  /\ id(p) \in Jobs
             /\ id(p) \notin p[1].visited => inner(p) \in D /\ m[inner(p)] < m[p]
  <2>1. id(p) \in Jobs /\ Tail(p[2]) \in Seq(Jobs)
    BY <1>2, <1>3, HeadTail
  <2>2. inner(p) \in D /\ inner(p)[1].visited = p[1].visited \cup {id(p)}
    BY <1>2, <2>1, BegunOK, NodeOK DEF GraphOK
  <2>3. ASSUME id(p) \notin p[1].visited PROVE m[inner(p)] < m[p]
    <3>1. Ahead(p[1].visited \cup {id(p)}, graph[id(p)].dependencies) < Ahead(p[1].visited, p[2])
      BY <1>2, <1>3, <2>1, <2>3, AheadOK
    <3>2. m[inner(p)] = Ahead(p[1].visited \cup {id(p)}, graph[id(p)].dependencies)
      BY <1>2, <2>2
    <3> QED BY <1>2, <3>1, <3>2
  <2> QED BY <2>1, <2>2, <2>3
(* And so is the rest of the list, after that.                             *)
<1>4. ASSUME NEW p \in D, NEW f, AllowedBelow(f, R, D, m, m[p]), ~ Ends(p)
      PROVE  /\ next(f, p) \in D /\ m[next(f, p)] < m[p]
             /\ id(p) \notin p[1].visited
                    => f[inner(p)] \in Visited(Begun(p[1], id(p)), graph[id(p)].dependencies)
  <2> DEFINE after == AfterVisit(p[1], id(p), f[inner(p)])
  <2>1. ASSUME id(p) \notin p[1].visited
        PROVE  f[inner(p)] \in Visited(Begun(p[1], id(p)), graph[id(p)].dependencies)
    <3>1. inner(p) \in D /\ f[inner(p)] \in R[inner(p)]
      <4> HIDE DEF D, m, R, inner, id, Ends
      <4> QED BY <1>3, <1>4, <2>1 DEF AllowedBelow
    <3> QED BY <1>2, <3>1
  <2>2. after \in VisitState /\ p[1].visited \subseteq after.visited
    <3> HIDE DEF id, inner, m, R
    <3> QED BY <1>2, <1>3, <1>4, <2>1, VisitFirst
  <2>3. Tail(p[2]) \in Seq(Jobs)
    BY <1>2, <1>4, HeadTail
  <2>4. next(f, p) = <<after, Tail(p[2])>>
    OBVIOUS
  <2>5. after.visited \in SUBSET Jobs
    BY <2>2, VisitRecords
  <2> HIDE DEF after, next
  <2>6. next(f, p) \in D
    <3>1. <<after, Tail(p[2])>> \in VisitState \X Seq(Jobs)
      BY <2>2, <2>3
    <3> QED BY <2>4, <3>1
  <2>7. m[next(f, p)] < m[p]
    BY <1>2, <1>4, <2>2, <2>4, <2>5, <2>6, AheadOK
  <2> QED BY <2>1, <2>6, <2>7
<1>5. ASSUME NEW p \in D, NEW f, AllowedBelow(f, R, D, m, m[p]) PROVE Body(f, p) \in Visited(p[1], p[2])
  <2>1. CASE Ends(p)
    BY <1>2, <2>1, VisitEnd
  <2>2. CASE ~ Ends(p)
    <3> DEFINE after == AfterVisit(p[1], id(p), f[inner(p)])
    <3>1. next(f, p) = <<after, Tail(p[2])>> /\ Body(f, p) = f[next(f, p)]
      BY <2>2
    <3>2. f[next(f, p)] \in R[next(f, p)] /\ next(f, p) \in D
      <4> HIDE DEF D, m, R, next, Ends
      <4> QED BY <1>4, <1>5, <2>2 DEF AllowedBelow
    <3>3. f[next(f, p)] \in Visited(after, Tail(p[2]))
      <4> HIDE DEF m, R, after, Ends, inner, id, Body
      <4> QED BY <1>2, <3>1, <3>2
    <3>4. /\ p[1] \in VisitState /\ p[2] \in Seq(Jobs) /\ p[2] # <<>>
          /\ id(p) = Head(p[2])
      BY <1>2, <2>2
    <3>5. id(p) \notin p[1].visited
              => f[inner(p)] \in Visited(Begun(p[1], id(p)), graph[id(p)].dependencies)
      BY <1>4, <1>5, <2>2
    <3> HIDE DEF id, inner, next, m, R, D
    <3> QED BY <3>1, <3>3, <3>4, <3>5, VisitTurn
  <2> QED BY <2>1, <2>2
<1>6. ASSUME NEW p \in D, NEW f, NEW q, AllowedBelow(f, R, D, m, m[p]), AgreeBelow(f, q, D, m, m[p])
      PROVE  Body(f, p) = Body(q, p)
  <2>1. CASE Ends(p)
    BY <2>1
  <2>2. CASE ~ Ends(p)
    <3>1. next(f, p) = next(q, p)
      <4>1. CASE id(p) \in p[1].visited
        BY <4>1 DEF AfterVisit
      <4>2. CASE id(p) \notin p[1].visited
        <5>1. f[inner(p)] = q[inner(p)]
          <6> HIDE DEF D, m, R, inner, id, Ends
          <6> QED BY <1>3, <1>6, <2>2, <4>2 DEF AgreeBelow
        <5> QED BY <5>1
      <4> QED BY <4>1, <4>2
    <3>2. f[next(f, p)] = q[next(f, p)]
      <4> HIDE DEF D, m, R, next, Ends, id, inner
      <4> QED BY <1>4, <1>6, <2>2 DEF AgreeBelow
    <3> QED BY <2>2, <3>1, <3>2
  <2> QED BY <2>1, <2>2
<1>7. ASSUME NEW f \in [D -> V], NEW p \in D PROVE g[<<f, p>>] = Body(f, p)
  <2> HIDE DEF Body, D, V
  <2> QED OBVIOUS
<1>8. Recurses(g, D, V, m, R)
  <2>1. m \in [D -> Nat] /\ R \in [D -> SUBSET V]
    <3>1. \A p \in D : Visited(p[1], p[2]) \subseteq V
      BY DEF Visited
    <3>2. \A p \in D : m[p] \in Nat
      BY <1>2
    <3> HIDE DEF D, V
    <3> QED BY <3>1, <3>2
  <2>2. ASSUME NEW p \in D, NEW f \in [D -> V], AllowedBelow(f, R, D, m, m[p])
        PROVE  g[<<f, p>>] \in R[p]
    <3> HIDE DEF Body, D, V, g, m, R
    <3> QED BY <1>2, <1>5, <1>7, <2>2
  <2>3. ASSUME NEW p \in D, NEW f \in [D -> V], NEW q \in [D -> V],
               AllowedBelow(f, R, D, m, m[p]), AgreeBelow(f, q, D, m, m[p])
        PROVE  g[<<f, p>>] = g[<<q, p>>]
    <3> HIDE DEF g, Body, D, V, m, R
    <3> QED BY <1>6, <1>7, <2>3
  <2> HIDE DEF g, m, R, D, V
  <2> QED BY <2>1, <2>2, <2>3 DEF Recurses
<1>9. start \in V
  OBVIOUS
<1>10. from = [p \in D |-> Body(from, p)]
  <2>1. PICK h : Solution(h, g, D, V, R)
    <3> HIDE DEF g, m, R, D, V
    <3> QED BY <1>8, <1>9, Recursion
  <2>2. h = [p \in D |-> Body(h, p)]
    <3> HIDE DEF g, R, D, V, Body
    <3> QED BY <1>7, <2>1 DEF Solution
  <2> HIDE DEF Body, D
  <2> QED BY <2>2
<1>11. \A p \in D : from[p] \in R[p]
  <2>1. ASSUME NEW p \in D, NEW f \in [D -> V],
               AllowedBelow(f, R, D, m, m[p]), AgreeBelow(f, from, D, m, m[p])
        PROVE  g[<<f, p>>] = from[p]
    <3> HIDE DEF g, from, Body, D, V, m, R
    <3> QED BY <1>6, <1>7, <1>10, <2>1
  <2> HIDE DEF g, m, R, D, V, from
  <2>2. Follows(from, g, D, V, m, R)
    BY <2>1 DEF Follows
  <2> QED BY <1>8, <1>9, <2>2, RecursionOK
<1>12. <<start, ids>> \in D
  OBVIOUS
<1> HIDE DEF from
<1> QED BY <1>1, <1>11, <1>12

(* topologicalSort is right about every graph.                             *)
LEMMA SortRespects ==
    ASSUME GraphOK PROVE SortRespectsDependencies
<1> DEFINE start == [visited |-> {}, sorted |-> <<>>]
           Right(sorted, reached) ==
             /\ IsInjective(sorted)
             /\ ToSet(sorted) = reached
             /\ \/ \E x \in reached : x \in Below[x]
                \/ \A i, k \in DOMAIN sorted :
                     sorted[k] \in Needs(graph, sorted[i]) => k < i
<1>1. ASSUME NEW ids \in Questions
      PROVE  Right(topologicalSort(graph, ids), ReachedFrom(Below, ids))
  <2> DEFINE b == visit(graph, start, ids)
             reached == ReachedFrom(Below, ids)
  <2>1. ids \in Seq(Jobs)
    BY BoundedSeqOK, ResolverAssumption DEF Questions
  <2>2. start \in VisitState /\ start.visited = {} /\ start.sorted = <<>>
    BY DEF VisitState
  <2>3. topologicalSort(graph, ids) = b.sorted
    BY DEF topologicalSort
  <2> HIDE DEF start
  <2>4. b \in Visited(start, ids)
    BY <2>1, <2>2, VisitOK
  <2> HIDE DEF b
  <2>5. ToSet(start.sorted) = {} /\ IsInjective(start.sorted) /\ InOrder(start.sorted)
    BY <2>2 DEF ToSet, IsInjective, InOrder
  <2>6. SortIsSound(start) /\ GreyIsPath(start, ids) /\ Grey(start) = {}
    BY <2>2, <2>5 DEF SortIsSound, GreyIsPath, Grey
  <2>7. /\ b \in VisitState /\ SortIsSound(b) /\ Grey(b) = {} /\ ToSet(ids) \subseteq b.visited
        /\ b.visited \subseteq reached
        /\ Acyclic(b.visited) => InOrder(b.sorted)
    BY <2>2, <2>4, <2>5, <2>6 DEF Visited
  <2>8. ToSet(b.sorted) = b.visited
    BY <2>7 DEF Grey, SortIsSound
  <2>9. reached \subseteq b.visited
    <3>1. Closed(b.visited)
      BY <2>7, <2>8 DEF SortIsSound, Closed
    <3>2. b.visited \in SUBSET Jobs
      BY <2>7, VisitRecords
    <3> QED BY <2>1, <2>7, <3>1, <3>2, ReachedInside
  <2>10. ASSUME ~ \E x \in reached : x \in Below[x],
                NEW i \in DOMAIN b.sorted, NEW k \in DOMAIN b.sorted,
                b.sorted[k] \in Needs(graph, b.sorted[i])
         PROVE  k < i
    <3>1. InOrder(b.sorted)
      BY <2>7, <2>10 DEF Acyclic
    <3>2. b.sorted \in Seq(Jobs) /\ DOMAIN b.sorted = 1..Len(b.sorted) /\ Len(b.sorted) \in Nat
      BY <2>7, VisitRecords
    <3>3. PICK l \in 1..(i - 1) : b.sorted[l] = b.sorted[k]
      BY <2>10, <3>1, <3>2 DEF InOrder
    <3>4. l \in DOMAIN b.sorted /\ l < i
      BY <2>10, <3>2, <3>3
    <3>5. l = k
      BY <2>7, <2>10, <3>3, <3>4 DEF SortIsSound, IsInjective
    <3> QED BY <3>4, <3>5
  <2>11. IsInjective(b.sorted)
    BY <2>7 DEF SortIsSound
  <2> HIDE DEF reached
  <2>12. Right(b.sorted, reached)
    BY <2>7, <2>8, <2>9, <2>10, <2>11
  <2> QED BY <2>3, <2>12 DEF reached
<1> QED BY <1>1 DEF SortRespectsDependencies

--------------------------------------------------------------------------------
(* The invariant behind the theorems on the resolver.                      *)
LEMMA ResolverInvariant == ResolverSpec => []ResolverInv
<1>1. ResolverInit => ResolverInv
  BY ResolverStart
<1>2. ResolverInv /\ [ResolverNext]_resolverVars => ResolverInv'
  BY ResolverStep
<1> QED BY <1>1, <1>2, PTL DEF ResolverSpec

(* The invariant gives the searches what they rely on.                     *)
LEMMA SearchesOK == ResolverInv => GraphCyclesAreFound /\ SortRespectsDependencies
<1> SUFFICES ASSUME ResolverInv PROVE GraphCyclesAreFound /\ SortRespectsDependencies
  OBVIOUS
<1>1. GraphOK
  BY DEF ResolverInv, ResolverTypeOK, GraphOK
<1> QED BY <1>1, CyclesFound, SortRespects

(* The graph keeps its types; a job with dependencies is resolved only by  *)
(* one of them that reached a status it requires (onJobStateChange), and,  *)
(* unless something was deregistered, after all of them were resolved,     *)
(* whatever was registered and ended before, in whatever order.            *)
THEOREM OnlyEndsUnblock == ResolverSpec => [](ResolverTypeOK /\ UnblockedInOrder)
<1>1. ResolverInv => ResolverTypeOK /\ UnblockedInOrder
  BY DEF ResolverInv
<1> QED BY <1>1, ResolverInvariant, PTL

(* validateNoCycles ends, and throws exactly when something that it        *)
(* reaches depends on itself: for any graph and any list it is asked about.*)
THEOREM CyclesDetected == ResolverSpec => []GraphCyclesAreFound
BY SearchesOK, ResolverInvariant, PTL

(* topologicalSort ends, with every job it reaches once, and after its     *)
(* dependencies unless there is a cycle: for any graph and any list.       *)
THEOREM SortIsTopological == ResolverSpec => []SortRespectsDependencies
BY SearchesOK, ResolverInvariant, PTL
================================================================================
