----------------------------- MODULE MCEditLock -----------------------------
(***************************************************************************)
(* EditLock for TLC.  The children are interchangeable in the runs that    *)
(* check safety only.                                                      *)
(***************************************************************************)
EXTENDS EditLock, TLC

Symmetry == Permutations(Workers)
=============================================================================
