----------------------------- MODULE SeparateParts -----------------------------
(***************************************************************************)
(* The parts of the system that share no state with the job lifecycle nor  *)
(* with each other: the node registry, and the classes that nothing in the *)
(* program starts or asks (LeaderElection, WorkerPool, LoadBalancer,       *)
(* PriorityQueue, the graph algorithms of DependencyResolver).  A          *)
(* behaviour is one of one part, chosen at the start; the others rest.     *)
(***************************************************************************)
EXTENDS LeaderElection, NodeRegistry, WorkerPool, LoadBalancer, PriorityQueue,
        ResolverLife

VARIABLE part

apartVars == <<electionVars, node, beating, listed, poolVars, balancerVars,
               queueVars, resolverVars, part>>

Parts == {"election", "nodes", "pool", "balancer", "heap", "resolver"}

PartsTypeOK ==
    /\ ElectionTypeOK
    /\ NodeTypeOK
    /\ PoolTypeOK
    /\ BalancerTypeOK
    /\ HeapTypeOK
    /\ ResolverTypeOK
    /\ part \in Parts

PartsInit ==
    /\ ElectionInit
    /\ NodeInit
    /\ PoolInit
    /\ BalancerInit
    /\ HeapInit
    /\ ResolverInit
    /\ part \in Parts

--------------------------------------------------------------------------------
electionOnly == <<key, held, running, role, calls, naps, waits, renewal, leaked>>

ElectionRests == UNCHANGED electionOnly
NodesRest     == UNCHANGED <<node, beating, listed>>
PoolRests     == UNCHANGED poolVars
BalancerRests == UNCHANGED balancerVars
HeapRests     == UNCHANGED queueVars
ResolverRests == UNCHANGED resolverVars

(* A step A of the election, of the nodes.                                 *)
Electing(A) ==
    /\ part = "election"
    /\ A
    /\ NodesRest /\ PoolRests /\ BalancerRests /\ HeapRests /\ ResolverRests
    /\ UNCHANGED part

Registering(A) ==
    /\ part = "nodes"
    /\ A
    /\ ElectionRests /\ PoolRests /\ BalancerRests /\ HeapRests /\ ResolverRests
    /\ UNCHANGED part

PartsNext ==
    \/ Electing(ElectionNext)
    \/ Registering(NodeNext)
    \/ /\ part = "pool" /\ PoolNext
       /\ ElectionRests /\ NodesRest /\ BalancerRests /\ HeapRests /\ ResolverRests
       /\ UNCHANGED <<spare, part>>
    \/ /\ part = "balancer" /\ BalancerNext
       /\ ElectionRests /\ NodesRest /\ PoolRests /\ HeapRests /\ ResolverRests
       /\ UNCHANGED <<spare, part>>
    \/ /\ part = "heap" /\ HeapNext
       /\ ElectionRests /\ NodesRest /\ PoolRests /\ BalancerRests /\ ResolverRests
       /\ UNCHANGED <<spare, part>>
    \/ /\ part = "resolver" /\ ResolverNext
       /\ ElectionRests /\ NodesRest /\ PoolRests /\ BalancerRests /\ HeapRests
       /\ UNCHANGED <<spare, part>>

(* Redis answers, timers fire, and keys nobody renews expire.  Nothing is  *)
(* owed by whoever starts, stops or calls a part.                          *)
PartsFairSpec ==
    /\ PartsInit
    /\ [][PartsNext]_apartVars
    /\ \A p \in Processes :
         /\ WF_apartVars(Electing(Answer(p)))
         /\ WF_apartVars(Electing(Wakes(p)))
         /\ WF_apartVars(Electing(RenewalTicks(p)))
         /\ WF_apartVars(Registering(Heartbeat(p)))
         /\ WF_apartVars(Registering(p \notin beating /\ NodeExpires(p)))
    /\ WF_apartVars(Electing(~ KeptAlive /\ LockExpires))
================================================================================
