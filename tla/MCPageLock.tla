----------------------------- MODULE MCPageLock -----------------------------
(* PageLock for TLC: blocks are interchangeable.                           *)
EXTENDS PageLock, TLC

Symmetry == Permutations(Blocks)
=============================================================================
