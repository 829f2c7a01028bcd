------------------------------ MODULE MCGroup -------------------------------
(***************************************************************************)
(* Group for TLC.  Init and Next treat all members alike.                  *)
(***************************************************************************)
EXTENDS Group, TLC

Symmetry == Permutations(Members)
=============================================================================
