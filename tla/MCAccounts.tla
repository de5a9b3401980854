----------------------------- MODULE MCAccounts -----------------------------
(***************************************************************************)
(* Accounts for TLC: one admin, and people who request and give roles.     *)
(***************************************************************************)
EXTENDS Accounts, TLC

\* Slots are interchangeable.
Symmetry == Permutations(Callers)
=============================================================================
