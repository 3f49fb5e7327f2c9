---------------------------- MODULE MCClusterParts ----------------------------
(***************************************************************************)
(* An instance of ClusterParts for TLC.                                    *)
(***************************************************************************)
EXTENDS ClusterParts

CONSTANTS p1, p2, n1, t1, c1, m1, m2

EachMishap == [k \in Mishaps |-> 1]
================================================================================
