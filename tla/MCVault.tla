------------------------------ MODULE MCVault -------------------------------
(* TLC instances of Vault: which processes run, and permutation symmetry   *)
(* over the interchangeable command-line ones.                             *)
EXTENDS Vault, TLC

Symmetry == Permutations(Cli \ Gui)
=============================================================================
