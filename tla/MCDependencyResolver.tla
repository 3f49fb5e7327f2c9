-------------------------- MODULE MCDependencyResolver --------------------------
(***************************************************************************)
(* An instance of DependencyResolver for TLC: a chain of two jobs.         *)
(***************************************************************************)
EXTENDS DependencyResolver

CONSTANTS a, b

AThenB == [j \in Jobs |-> IF j = b THEN <<a>> ELSE <<>>]
================================================================================
