------------------------------ MODULE NodeRegistry ------------------------------
(***************************************************************************)
(* NodeRegistry.ts, with the parts of app.ts that call it: the key of each *)
(* API process in Redis, which expires unless its heartbeat sets it again. *)
(* (Nobody calls updateLeaderStatus; getAllNodes reads the keys.)  A       *)
(* process that starts again has its old host name and process id, as in a *)
(* container, and so its old key.                                          *)
(***************************************************************************)
EXTENDS ClusterEnvironment

VARIABLES
    node,     \* of each process: down, up, or stopping
    beating,  \* the processes whose heartbeatTimer is set
    listed    \* the processes with a key in Redis

nodeVars == <<spare, node, beating, listed>>

NodeTypeOK ==
    /\ node \in [Processes -> {"down", "up", "stopping"}]
    /\ beating \in SUBSET Processes
    /\ listed \in SUBSET Processes

NodeInit ==
    /\ node = [p \in Processes |-> "down"]
    /\ beating = {}
    /\ listed = {}

turnTo(p, phase) == node' = [node EXCEPT ![p] = phase]

--------------------------------------------------------------------------------
Boot(p) ==
    /\ node[p] = "down"
    /\ turnTo(p, "up")
    /\ listed' = listed \cup {p}
    /\ beating' = beating \cup {p}
    /\ UNCHANGED spare

(* connect() or the SET of register() throws: "standalone mode", for good. *)
BootStandalone(p) ==
    /\ node[p] = "down"
    /\ Suffer("redis")
    /\ turnTo(p, "up")
    /\ listed' \in {listed, listed \cup {p}}
    /\ UNCHANGED beating

Heartbeat(p) ==
    /\ p \in beating \ listed
    /\ listed' = listed \cup {p}
    /\ UNCHANGED <<spare, node, beating>>

(* A mutant of NodeExpires: a heartbeat without EX, which clears the time. *)
NodeExpiresUnbeaten(p) ==
    /\ p \in listed \ beating
    /\ node[p] = "up"
    /\ listed' = listed \ {p}
    /\ UNCHANGED <<spare, node, beating>>

(* 30 s without a heartbeat: one that beats must be held up.               *)
NodeExpires(p) ==
    /\ p \in listed
    /\ IF p \in beating THEN Suffer("pause") ELSE UNCHANGED spare
    /\ listed' = listed \ {p}
    /\ UNCHANGED <<node, beating>>

(* shutdown(): the scheduler and the queues are closed first ...           *)
BeginShutdown(p) ==
    /\ node[p] = "up"
    /\ Suffer("shutdown")
    /\ turnTo(p, "stopping")
    /\ UNCHANGED <<beating, listed>>

(* ... then the registry: clearInterval, DEL, and the process exits.  DEL  *)
(* follows the heartbeats on the same connection.                          *)
Deregister(p) ==
    /\ node[p] = "stopping"
    /\ turnTo(p, "down")
    /\ beating' = beating \ {p}
    /\ listed' = listed \ {p}
    /\ UNCHANGED spare

(* exit(1) because a close before it failed or took 30 s; or a crash.      *)
die(p) ==
    /\ turnTo(p, "down")
    /\ beating' = beating \ {p}
    /\ UNCHANGED listed

ExitUndone(p) == node[p] = "stopping" /\ Suffer("redis") /\ die(p)

NodeCrashes(p) == node[p] # "down" /\ Suffer("crash") /\ die(p)

NodeNext ==
    \E p \in Processes :
        \/ Boot(p) \/ BootStandalone(p)
        \/ Heartbeat(p) \/ NodeExpires(p)
        \/ BeginShutdown(p) \/ Deregister(p) \/ ExitUndone(p)
        \/ NodeCrashes(p)

--------------------------------------------------------------------------------
(* "Nodes expire after 30s without heartbeat", and stay listed with one:   *)
(* a process that is down does not stay listed, however it ended; one that *)
(* beats is listed again after its key was lost.                           *)
NodesAreCurrent ==
    \A p \in Processes :
        /\ node[p] = "down" ~> p \notin listed \/ node[p] # "down"
        /\ p \in beating ~> p \in listed \/ p \notin beating
================================================================================
