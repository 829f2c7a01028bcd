------------------------------ MODULE Rollback ------------------------------
(***************************************************************************)
(* The host rollback anchor of src/src/rollback.cpp, as operators on       *)
(* records.  The keyring keeps one record per vault,                       *)
(*                                                                         *)
(*     [gen |-> generation, digest |-> SHA-256 of the container]           *)
(*                                                                         *)
(* and the container on the drive carries its own generation and the       *)
(* digest of the container it replaced (`prev`).  A digest stands for the  *)
(* container it was taken of: every seal draws a fresh nonce, so two       *)
(* containers never share one.  "No record" is the empty set and a record  *)
(* a singleton, for the record itself and for the result of a lookup.      *)
(*                                                                         *)
(* Anchors with a wrong tag, of another vault, or in the legacy format are *)
(* left out: one vault and one honest keyring are modelled.                *)
(***************************************************************************)
EXTENDS Naturals

Anchor == [gen : Nat, digest : Nat]
(* s holds one element of S or none.                                       *)
IsOption(s, S) == s \subseteq S /\ \A x, y \in s : x = y

(* rollback::validate, the three comparisons after the tag is verified.    *)
Current(a, gen, digest) == gen = a.gen /\ digest = a.digest
AdvancedAfterCrash(a, gen, prev) == gen = a.gen + 1 /\ prev = a.digest

(* What open_vault and save_vault make of it: validate accepts the pair,   *)
(* or it throws and the catch clause forgives a drive that is ahead.       *)
Refused(a, gen, digest) ==
  gen < a.gen \/ (gen = a.gen /\ digest # a.digest)

(* rollback::enroll overwrites only a record that is behind the drive.     *)
Enrollable(found, gen) == \A a \in found : a.gen < gen
=============================================================================
