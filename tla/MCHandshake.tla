---------------------------- MODULE MCHandshake -----------------------------
(* TLC instances of Handshake: the two parties are interchangeable.        *)
EXTENDS Handshake, TLC

Symmetry == Permutations(Party)
=============================================================================
