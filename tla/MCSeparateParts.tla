---------------------------- MODULE MCSeparateParts ----------------------------
(***************************************************************************)
(* An instance of SeparateParts for TLC.                                   *)
(***************************************************************************)
EXTENDS SeparateParts

CONSTANTS p1, p2, v1, v2, v3, k1, k2, job1, job2, job3

EachMishap == [k \in Mishaps |-> 1]

(* Three workers with different capacities, of which one can do one job    *)
(* type only.                                                              *)
ThreeWorkers == <<v1, v2, v3>>
Capacities   == [v \in {v1, v2, v3} |-> CASE v = v1 -> 2 [] v = v2 -> 3 [] v = v3 -> 1]
TwoTypes     == {"HTTP_REQUEST", "DATA_PIPELINE"}
CapableOf    == [t \in TwoTypes |-> IF t = "HTTP_REQUEST" THEN {v1, v2, v3} ELSE {v1, v2}]
MatchingTo   == [t \in TwoTypes |-> IF t = "HTTP_REQUEST" THEN {v2, v3} ELSE {v3}]

item(s, t, u) == [score |-> s, scheduledAt |-> t, createdAt |-> u]

(* Items that differ in each of the fields that break a tie.               *)
FourItems == {item(1, 1, 0), item(2, 0, 0), item(2, 0, 1), item(2, 1, 0)}
================================================================================
