--------------------------- MODULE MCRegisterSaga ---------------------------
(***************************************************************************)
(* RegisterSaga for TLC.  Two values of each unique column let sagas       *)
(* collide in any combination of columns.                                  *)
(***************************************************************************)
EXTENDS RegisterSaga, TLC

\* Values of one column and slots of one kind are interchangeable, but NoForm
\* picks one value of each column: only the slots are permuted.
Symmetry == Permutations(Sagas)
=============================================================================
