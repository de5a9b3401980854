----------------------------- MODULE MCSessions -----------------------------
(***************************************************************************)
(* Sessions for TLC: a tick is a span of days, MAX_SESSIONS is scaled down. *)
(***************************************************************************)
EXTENDS Sessions, TLC

\* Refreshes are interchangeable.
Symmetry == Permutations(Refreshers)

\* So are names: with one credential, which one it starts with makes no difference.
MCInit == Init /\ \A c \in Credentials : creds[c].username = NoCred.username

MCSpec == MCInit /\ [][Next]_vars
=============================================================================
