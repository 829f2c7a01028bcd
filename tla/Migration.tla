----------------------------- MODULE Migration ------------------------------
(***************************************************************************)
(* The two phases of `migrate` on one drive: a copy of the legacy vault in *)
(* the current format is written beside it, read back and, by a second     *)
(* run, moved over it.  Each run holds the vault lock from end to end.     *)
(* Between two steps a run may be killed, a write may fail or the drive    *)
(* lose what is not flushed; `init --force` may replace the legacy vault,  *)
(* and the older release, which knows nothing of the copy, may go on using *)
(* it.                                                                     *)
(***************************************************************************)
EXTENDS Rollback

CONSTANTS
  MaxFault,   \* bound: failures, kills and power losses
  MaxSeal     \* bound: containers written

ASSUME MigrationAssumption == {MaxFault, MaxSeal} \subseteq Nat

VARIABLES
  files,      \* the directory as a process sees it
  durable,    \* the directories a power loss may leave behind
  anchors,    \* keyring records, one per vault id
  pc,         \* the run that holds the lock, and where it is
  opened,     \* the legacy container it opened
  written,    \* the container it wrote, or the prepared one it verified
  seals, faults

vars == <<files, durable, anchors, pc, opened, written, seals, faults>>

(* `kept` numbers the sets of contacts and sessions the drive has held;    *)
(* id 0 is a store from before vaults had ids, or generations.             *)
Format == {"legacy", "current"}
Image  == [format : Format, id : Nat, gen : Nat, kept : Nat, digest : Nat]
Files  == [vault : Image, prepared : SUBSET Image, outbox : BOOLEAN]
Labels == {"off", "opened", "prepared", "readback", "committing", "promoted",
           "anchoring", "init", "replaced"}

TypeOK ==
  /\ files \in Files /\ durable \subseteq Files /\ files \in durable
  /\ anchors \subseteq [id : Nat, gen : Nat, digest : Nat]
  /\ pc \in Labels
  /\ opened \in Image /\ written \in Image
  /\ seals \in Nat /\ faults \in Nat

(* A vault of an older release, with an id and perhaps an anchor, or       *)
(* without; a block of that release may be pending.                        *)
Init ==
  /\ \E id \in {0, 1}, outbox \in BOOLEAN :
       /\ files = [vault |-> [format |-> "legacy", id |-> id, gen |-> id,
                              kept |-> 0, digest |-> 0],
                   prepared |-> {}, outbox |-> outbox]
       /\ anchors \in {{}, {[id |-> 1, gen |-> 1, digest |-> 0]}}
       /\ id = 0 => anchors = {}
  /\ durable = {files}
  /\ pc = "off"
  /\ opened = files.vault /\ written = files.vault
  /\ seals = 0 /\ faults = 0

-----------------------------------------------------------------------------
NoFault == UNCHANGED faults
Fault   == faults < MaxFault /\ faults' = faults + 1

(* A rename is seen at once and durable with the flush of the directory.   *)
Rename(new) == files' = new /\ durable' = durable \cup {new}
Flush == durable' = {files} /\ UNCHANGED files
KeepFiles == UNCHANGED <<files, durable>>

Of(id) == {a \in anchors : a.id = id}
Record(v) == [id |-> v.id, gen |-> v.gen, digest |-> v.digest]
Anchored(v) == anchors' = (anchors \ Of(v.id)) \cup {Record(v)}
KeepAnchors == UNCHANGED anchors

(* The directory flush that ends write_file and promote_prepared.          *)
Flushed(from, to) ==
  /\ pc = from
  /\ \/ Flush /\ pc' = to /\ NoFault
     \/ KeepFiles /\ pc' = "off" /\ Fault
  /\ KeepAnchors /\ UNCHANGED <<opened, written, seals>>

(* cmd_migrate: only a legacy vault, and one the anchor accepts; an anchor *)
(* behind the vault is refreshed if the keyring lets it.                   *)
OpenLegacy ==
  /\ pc = "off"
  /\ files.vault.format = "legacy"
  /\ \A a \in Of(files.vault.id) : ~Refused(a, files.vault.gen, files.vault.digest)
  /\ \/ Anchored(files.vault) /\ Of(files.vault.id) # {} /\ NoFault
     \/ KeepAnchors /\ Of(files.vault.id) = {} /\ NoFault
     \/ KeepAnchors /\ Of(files.vault.id) # {} /\ Fault
  /\ pc' = "opened" /\ opened' = files.vault
  /\ KeepFiles /\ UNCHANGED <<written, seals>>

(* Phase one: never over a prepared vault.  A store without an id draws    *)
(* one, and the generation advances.                                       *)
Prepare ==
  /\ pc = "opened" /\ files.prepared = {} /\ seals < MaxSeal
  /\ LET new == [format |-> "current", gen |-> opened.gen + 1,
                 id |-> IF opened.id = 0 THEN seals + 2 ELSE opened.id,
                 kept |-> opened.kept, digest |-> seals + 1]
     IN Rename([files EXCEPT !.prepared = {new}]) /\ written' = new
  /\ pc' = "prepared" /\ seals' = seals + 1
  /\ NoFault /\ KeepAnchors /\ UNCHANGED opened

FlushPrepared == Flushed("prepared", "readback")

(* The bytes are read back and compared; whether or not they pass, the     *)
(* file stays for the commit to judge.                                     *)
ReadBack ==
  /\ pc = "readback" /\ pc' = "off"
  /\ NoFault /\ KeepFiles /\ KeepAnchors /\ UNCHANGED <<opened, written, seals>>

(* Mutant of Accepts: the generations are not compared.                    *)
AcceptsAnyGeneration(legacy, p) ==
  /\ legacy.format = "legacy" /\ p.format = "current"
  /\ legacy.id # 0 => p.id = legacy.id

(* What the commit asks of the two containers; the master identity is that *)
(* of the one owner.                                                       *)
Accepts(legacy, p) ==
  /\ legacy.format = "legacy" /\ p.format = "current"
  /\ legacy.id # 0 => p.id = legacy.id
  /\ p.gen > legacy.gen

(* Phase two: verify the prepared bytes again; no block may be pending.    *)
Verify ==
  /\ pc = "opened" /\ ~files.outbox
  /\ \E p \in files.prepared : Accepts(opened, p) /\ written' = p
  /\ pc' = "committing"
  /\ NoFault /\ KeepFiles /\ KeepAnchors /\ UNCHANGED <<opened, seals>>

(* Mutant of Promoted: the prepared vault is copied, not moved.            *)
Copied(new) == [files EXCEPT !.vault = new]

Promoted(new) == [files EXCEPT !.vault = new, !.prepared = {}]

(* promote_prepared: one rename.                                           *)
Promote ==
  /\ pc = "committing" /\ pc' = "promoted"
  /\ Rename(Promoted(written))
  /\ NoFault /\ KeepAnchors /\ UNCHANGED <<opened, written, seals>>

FlushPromoted == Flushed("promoted", "anchoring")

(* A record found for an old id is validated against the legacy container, *)
(* which may be one chained save ahead of it, and moved; a gap is an error *)
(* after the fact.  Otherwise one is enrolled, if it advances.  The        *)
(* keyring may find none, or refuse, and no retry follows.                 *)
AnchorPromoted ==
  /\ pc = "anchoring" /\ pc' = "off"
  /\ LET a == Of(written.id)
         chained == \A x \in a : \/ Current(x, opened.gen, opened.digest)
                                 \/ opened.gen = x.gen + 1
     IN \/ (chained \/ a = {}) /\ Anchored(written) /\ NoFault
        \/ Enrollable(a, written.gen) /\ Anchored(written) /\ Fault
        \/ ~chained /\ KeepAnchors /\ NoFault
        \/ KeepAnchors /\ Fault
  /\ KeepFiles /\ UNCHANGED <<opened, written, seals>>

-----------------------------------------------------------------------------
(* What else may happen on the drive.                                      *)

(* cmd_init --force: another vault over the one on the drive, whatever is  *)
(* prepared beside it; then the old pending block is discarded.            *)
InitForce ==
  /\ pc = "off" /\ seals < MaxSeal
  /\ LET new == [format |-> "current", gen |-> 1, id |-> seals + 2,
                 kept |-> seals + 1, digest |-> seals + 1]
     IN Rename([files EXCEPT !.vault = new]) /\ written' = new
  /\ pc' = "init" /\ seals' = seals + 1
  /\ NoFault /\ KeepAnchors /\ UNCHANGED opened

FlushInit == Flushed("init", "replaced")

DiscardOutbox ==
  /\ pc = "replaced" /\ pc' = "off"
  /\ Rename([files EXCEPT !.outbox = FALSE])
  /\ NoFault /\ KeepAnchors /\ UNCHANGED <<opened, written, seals>>

(* The older release saves its vault again, one generation on if it has    *)
(* generations at all; the anchor may fail to follow.                      *)
OlderSave ==
  /\ pc = "off" /\ files.vault.format = "legacy" /\ seals < MaxSeal
  /\ LET v == files.vault
         new == [v EXCEPT !.gen = IF v.id = 0 THEN 0 ELSE @ + 1,
                          !.kept = seals + 1, !.digest = seals + 1]
         f == [files EXCEPT !.vault = new]
     IN /\ files' = f /\ durable' = {f}
        /\ \/ Of(v.id) = {} /\ KeepAnchors /\ NoFault
           \/ Of(v.id) # {} /\ Anchored(new) /\ NoFault
           \/ Of(v.id) # {} /\ KeepAnchors /\ Fault
  /\ seals' = seals + 1
  /\ UNCHANGED <<pc, opened, written>>

(* The user deletes the pending block.                                     *)
DeleteOutbox ==
  /\ files.outbox /\ Rename([files EXCEPT !.outbox = FALSE])
  /\ NoFault /\ KeepAnchors /\ UNCHANGED <<pc, opened, written, seals>>

(* A kill, a failed write or an error message: the run ends.               *)
Stop ==
  /\ pc # "off" /\ pc' = "off" /\ Fault
  /\ KeepFiles /\ KeepAnchors /\ UNCHANGED <<opened, written, seals>>

LosePower ==
  /\ files' \in durable /\ durable' = {files'} /\ pc' = "off"
  /\ Fault /\ KeepAnchors /\ UNCHANGED <<opened, written, seals>>

Next ==
  \/ OpenLegacy \/ Prepare \/ FlushPrepared \/ ReadBack
  \/ Verify \/ Promote \/ FlushPromoted \/ AnchorPromoted
  \/ InitForce \/ FlushInit \/ DiscardOutbox
  \/ OlderSave \/ DeleteOutbox \/ Stop \/ LosePower

Spec == Init /\ [][Next]_vars

-----------------------------------------------------------------------------
(* Properties.                                                             *)

(* After any failure, kill or power loss the anchor accepts the vault on   *)
(* the drive, and a prepared vault, which stops every other command, is    *)
(* one the commit takes, unless something else has changed the vault since *)
(* it was prepared.                                                        *)
NeverLockedOut ==
  \A d \in durable :
    /\ \A a \in Of(d.vault.id) : ~Refused(a, d.vault.gen, d.vault.digest)
    /\ \A p \in d.prepared : p.kept = d.vault.kept => Accepts(d.vault, p)

(* The commit puts over a legacy vault only the contacts and sessions that *)
(* vault holds, not those of an earlier copy.  A vault from before         *)
(* generations cannot tell.                                                *)
NothingLeftBehind ==
  [][Promote /\ files.vault.id # 0 => files'.vault.kept = files.vault.kept]_vars

-----------------------------------------------------------------------------
(* What an inductive proof needs besides, for every directory a power loss *)
(* may leave.                                                              *)

(* Ids and contents are older than what is drawn next; a store without an  *)
(* id has no anchor and is never prepared.                                 *)
Older ==
  /\ \A a \in anchors : a.id \in 1 .. seals + 1
  /\ \A d \in durable :
       /\ d.vault.id <= seals + 1 /\ d.vault.kept <= seals
       /\ \A p \in d.prepared :
            p.id \in 1 .. seals + 1 /\ p.kept <= seals /\ p.format = "current"

(* A legacy vault is never replaced by a rename that could be undone,      *)
(* except by one that ends its being legacy.                               *)
LegacyAlone ==
  files.vault.format = "legacy" => \A d \in durable : d.vault = files.vault

AnchorAccepts ==
  \A d \in durable : \A a \in Of(d.vault.id) :
    ~Refused(a, d.vault.gen, d.vault.digest)

(* A prepared vault is one generation ahead of its legacy vault until that *)
(* is saved again.                                                         *)
PreparedFits ==
  \A d \in durable : \A p \in d.prepared :
    IF d.vault.format = "legacy"
    THEN /\ d.vault.id = 0 => p.gen > d.vault.gen /\ Of(p.id) = {}
         /\ d.vault.id # 0 =>
              /\ p.id = d.vault.id
              /\ \/ p.gen = d.vault.gen + 1 /\ p.kept = d.vault.kept
                 \/ p.gen <= d.vault.gen /\ p.kept # d.vault.kept
    ELSE p.kept # d.vault.kept

(* What the run that holds the lock may rely on.                           *)
RunKnows ==
  /\ pc = "opened" => opened = files.vault /\ opened.format = "legacy"
  /\ pc = "committing" =>
       /\ opened = files.vault /\ Accepts(opened, written)
       /\ written \in files.prepared
  /\ pc = "promoted" => files.vault = written /\ files.prepared = {}
  /\ pc = "anchoring" => \A d \in durable : d.vault = written /\ d.prepared = {}
  /\ pc \in {"promoted", "anchoring"} => written.id # 0

MigrationInv ==
  TypeOK /\ Older /\ LegacyAlone /\ AnchorAccepts /\ PreparedFits /\ RunKnows
=============================================================================
