---------------------------- MODULE SchemaUpgrade ----------------------------
(***************************************************************************)
(* What the migrations promise: the database always has a version, exactly *)
(* what the first so many migrations make of an empty one, and only ever   *)
(* moves to a later version, in one step.                                  *)
(***************************************************************************)
EXTENDS Naturals

CONSTANTS Versions, Database(_)

VARIABLE database

Init == \E v \in Versions : database = Database(v)

Upgrade ==
    \E u, v \in Versions : u < v /\ database = Database(u) /\ database' = Database(v)

Spec == Init /\ [][Upgrade]_database
=============================================================================
