------------------------- MODULE MCOperationWorker --------------------------
(***************************************************************************)
(* Instance of OperationWorker for TLC.                                    *)
(***************************************************************************)
EXTENDS OperationWorker, TLC

\* Operations and certificates are interchangeable (safety runs only).
Symmetry == Permutations(Ops) \cup Permutations(Items)
=============================================================================
