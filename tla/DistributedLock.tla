---------------------------- MODULE DistributedLock ----------------------------
(***************************************************************************)
(* DistributedLock.ts for its one resource, `scheduler:leader`: a Redis    *)
(* key that holds a token, and the token each process remembers.  A token  *)
(* is named by the process that made it; the token of a process that died  *)
(* is Orphan, because the next process of that name makes a new one.       *)
(***************************************************************************)
EXTENDS ClusterEnvironment

CONSTANTS Null, Orphan

ASSUME LockAssumption == Null \notin Processes /\ Orphan \notin Processes \cup {Null}

VARIABLES
    key,   \* the token in Redis, Null when the key is absent
    held   \* the processes whose `locks` map has an entry

LockTypeOK ==
    /\ key \in Processes \cup {Null, Orphan}
    /\ held \in SUBSET Processes

LockInit == key = Null /\ held = {}

(* SET NX finds no key.                                                    *)
tryAcquire(p) ==
    /\ key = Null
    /\ key' = p
    /\ held' = held \cup {p}

(* SET NX finds a key.                                                     *)
acquireRefused(p) ==
    /\ key # Null
    /\ UNCHANGED <<key, held>>

(* The call throws: Redis did not get the command, or the answer is lost   *)
(* and the token in Redis is one nobody remembers.                         *)
acquireThrows(p) ==
    /\ key' \in IF key = Null THEN {Null, Orphan} ELSE {key}
    /\ UNCHANGED held

(* The script of renew finds the process's own token.                      *)
renewable(p) == p \in held /\ key = p

renewFails(p) ==
    /\ ~ renewable(p)
    /\ held' = held \ {p}
    /\ UNCHANGED key

(* The script of release, sent with the token the process remembered: DEL  *)
(* if the key still holds it.  The entry is dropped in any case.           *)
release(p) ==
    /\ key' = IF key = p THEN Null ELSE key
    /\ held' = held \ {p}

(* The process is gone, its token is not.                                  *)
forget(p) ==
    /\ held' = held \ {p}
    /\ key' = IF key = p THEN Orphan ELSE key

expire == key' = Null /\ UNCHANGED held
================================================================================
