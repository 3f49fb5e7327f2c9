---------------------------- MODULE MCResolverClaims ----------------------------
(***************************************************************************)
(* An instance of ResolverClaims for TLC.                                  *)
(***************************************************************************)
EXTENDS ResolverClaims

CONSTANTS job1, job2, job3
================================================================================
