--------------------------- MODULE MCVerification ---------------------------
(***************************************************************************)
(* Verification for TLC: one tick is a minute or more; the scaled times    *)
(* keep the order cooldown < OTP_TTL < blocked cooldown < hour (a code     *)
(* expires strictly after OTP_TTL: 1 there is longer than 1 of cooldown).  *)
(***************************************************************************)
EXTENDS Verification, TLC

\* Slots of one kind are interchangeable.
Symmetry == Permutations(Requesters) \cup Permutations(Verifiers)
ResetSymmetry == Permutations(Resetters)
=============================================================================
