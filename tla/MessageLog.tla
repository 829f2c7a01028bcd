----------------------------- MODULE MessageLog -----------------------------
(***************************************************************************)
(* What a vault promises about the blocks its owner sends, whatever files, *)
(* anchors and crashes are behind it: a block is first committed, which    *)
(* consumes its ratchet step for good, and only a committed block is ever  *)
(* handed out.                                                             *)
(***************************************************************************)
VARIABLES
  committed,   \* blocks whose step the vault has consumed, [id, step] records
  exported     \* blocks handed to the user

vars == <<committed, exported>>

OneBlockPerStep(S) == \A b, c \in S : b.step = c.step => b = c

Init == committed = {} /\ exported = {}

(* A save may commit several blocks at once: the interface keeps the steps *)
(* of sends whose save failed.                                             *)
Commit ==
  /\ committed \subseteq committed'
  /\ OneBlockPerStep(committed')
  /\ UNCHANGED exported

(* The same block may be handed out again.                                 *)
Export ==
  /\ \E b \in committed : exported' = exported \cup {b}
  /\ UNCHANGED committed

Next == Commit \/ Export

Spec == Init /\ [][Next]_vars
=============================================================================
