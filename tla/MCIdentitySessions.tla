------------------------- MODULE MCIdentitySessions --------------------------
(***************************************************************************)
(* Instance of IdentitySessions for TLC.                                   *)
(***************************************************************************)
EXTENDS IdentitySessions, TLC

\* Handlers are interchangeable.
Symmetry == Permutations(Procs)
=============================================================================
