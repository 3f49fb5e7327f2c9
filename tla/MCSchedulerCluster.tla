--------------------------- MODULE MCSchedulerCluster ---------------------------
(***************************************************************************)
(* Instances of SchedulerCluster for TLC.                                  *)
(***************************************************************************)
EXTENDS SchedulerCluster

CONSTANTS p1, p2, t1, t2, c1

NoMishap   == [k \in Mishaps |-> 0]
EachMishap == [k \in Mishaps |-> 1]
OneCrash   == [NoMishap EXCEPT !["crash"] = 1]
================================================================================
