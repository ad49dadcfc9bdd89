------------------------- MODULE MCEditTransaction --------------------------
(***************************************************************************)
(* Instance of EditTransaction for TLC.                                    *)
(***************************************************************************)
EXTENDS EditTransaction, TLC

\* Pieces of external work are interchangeable (safety runs only).
Symmetry == Permutations(Works)
=============================================================================
