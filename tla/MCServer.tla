------------------------------ MODULE MCServer ------------------------------
(***************************************************************************)
(* Server for TLC: a server, and `npm run migrate` of a later release that *)
(* adds the last migration.                                                *)
(***************************************************************************)
EXTENDS Server, TLC

CONSTANTS s1, t1

MCRelease == s1 :> 6 @@ t1 :> 7
=============================================================================
