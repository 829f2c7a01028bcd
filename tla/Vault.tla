------------------------------- MODULE Vault --------------------------------
(***************************************************************************)
(* One vault on one drive, the pending outbox beside it, the host's        *)
(* rollback anchor, and the processes that work on them: command-line      *)
(* runs (Cli, of which Gui are the ones the desktop wrapper starts with    *)
(* --structured-output) and terminal interfaces that keep the vault open   *)
(* over many operations (Ui).                                              *)
(*                                                                         *)
(* A command is a sequence of steps.  Between two of them the process may  *)
(* be killed, a write may fail before or after its rename, the keyring may *)
(* refuse, and the drive may lose power.                                   *)
(***************************************************************************)
EXTENDS Rollback, FiniteSets

CONSTANTS
  Cli, Gui, Ui,    \* processes
  PowerLoss,       \* TRUE iff the drive may lose what is not yet flushed
  MaxGen,          \* UINT64_MAX of the generation counter
  MaxBlock,        \* bound: messages encrypted
  MaxDraw,         \* bound: batches of prekeys drawn
  MaxFault         \* bound: injected failures, kills and power losses

Procs == Cli \cup Ui

ASSUME ConstantsAssumption ==
  /\ Gui \subseteq Cli
  /\ Cli \cap Ui = {}
  /\ PowerLoss \in BOOLEAN
  /\ {MaxGen, MaxBlock, MaxDraw, MaxFault} \subseteq Nat

VARIABLES
  files,     \* the directory as processes see it: vault.bin and vault.bin.outbox
  durable,   \* the directories a power loss may leave behind
  anchor,    \* the keyring record
  lock,      \* the holder of .ratchet-usb.lock
  pc, cmd,   \* what each process is doing
  mem,       \* OpenedVault: the store and the passphrase in memory
  found,     \* the anchor a save or a rekey loaded
  held,      \* the outbox contents a process has written or read
  printed,   \* blocks that reached stdout or the screen
  deleted,   \* blocks whose outbox file the user deleted
  published, \* prekeys named by a card that reached stdout or the screen
  shown,     \* passphrases the user has been shown
  seals, blocks, draws, faults

vars == <<files, durable, anchor, lock, pc, cmd, mem, found, held, printed,
          deleted, published, shown, seals, blocks, draws, faults>>

(***************************************************************************)
(* `step` counts sending-ratchet steps; `sent` is the blocks whose step a  *)
(* store has consumed, kept so that properties can compare a printed block *)
(* with the container on the drive.  `prekeys` numbers the batches of      *)
(* prekeys drawn since `init` whose private halves a store holds.          *)
(***************************************************************************)
Block  == [id : Nat, step : Nat]
Outbox == [gen : Nat, block : Block]
Store  == [gen : Nat, prev : Nat, key : Nat, step : Nat, sent : SUBSET Block,
           prekeys : SUBSET Nat]
Image  == [gen : Nat, prev : Nat, key : Nat, step : Nat, sent : SUBSET Block,
           prekeys : SUBSET Nat, digest : Nat]
Files  == [vault : Image, outbox : SUBSET Outbox]

Commands == {"send", "update", "card", "rekey", "anchor", "outbox", "none"}
Labels   == {"off", "armed", "open", "staged", "outboxed", "save", "sealed",
             "renamed", "flushed", "saved", "failed", "printed",
             "rekeying", "promoted", "rekeyed"}

NoStore == [gen |-> 0, prev |-> 0, key |-> 0, step |-> 0, sent |-> {},
            prekeys |-> {}]

TypeOK ==
  /\ files \in Files
  /\ durable \subseteq Files /\ files \in durable
  /\ IsOption(anchor, Anchor)
  /\ IsOption(lock, Procs)
  /\ pc \in [Procs -> Labels]
  /\ cmd \in [Procs -> Commands]
  /\ mem \in [Procs -> Store]
  /\ found \in [Procs -> SUBSET Anchor]
  /\ held \in [Procs -> SUBSET Outbox]
  /\ printed \subseteq Block /\ deleted \subseteq Block
  /\ published \subseteq Nat /\ shown \subseteq Nat
  /\ {seals, blocks, draws, faults} \subseteq Nat

(* cmd_init: generation 1, a passphrase shown once, no outbox; and before  *)
(* or after the `anchor` command.                                          *)
Init ==
  /\ files = [vault |-> [gen |-> 1, prev |-> 0, key |-> 0, step |-> 0,
                         sent |-> {}, prekeys |-> {}, digest |-> 0],
              outbox |-> {}]
  /\ durable = {files}
  /\ anchor \in {{}, {[gen |-> 1, digest |-> 0]}}
  /\ lock = {}
  /\ pc = [p \in Procs |-> "off"]
  /\ cmd = [p \in Procs |-> "none"]
  /\ mem = [p \in Procs |-> NoStore]
  /\ found = [p \in Procs |-> {}]
  /\ held = [p \in Procs |-> {}]
  /\ printed = {} /\ deleted = {} /\ published = {} /\ shown = {0}
  /\ seals = 0 /\ blocks = 0 /\ draws = 0 /\ faults = 0

-----------------------------------------------------------------------------
(* Faults, the directory, and the keyring.                                 *)

NoFault  == UNCHANGED faults
Fault    == faults < MaxFault /\ faults' = faults + 1

(* Mutant of Change: the rename is never made durable.                     *)
ChangeUnseen(new) == files' = new /\ UNCHANGED durable

(* A rename or an unlink is seen at once and flushed later.                *)
Change(new) ==
  /\ files' = new
  /\ durable' = IF PowerLoss THEN durable \cup {new} ELSE {new}
(* fsync on the directory.                                                 *)
Flush == durable' = {files} /\ UNCHANGED files
KeepFiles == UNCHANGED <<files, durable>>

(* rollback::load: a keyring error reads as "no anchor".                   *)
Lookup(a) == (a = anchor /\ NoFault) \/ (anchor # {} /\ a = {} /\ Fault)

SealOf(s, digest) ==
  [gen |-> s.gen, prev |-> s.prev, key |-> s.key, step |-> s.step,
   sent |-> s.sent, prekeys |-> s.prekeys, digest |-> digest]
StoreOf(v) ==
  [gen |-> v.gen, prev |-> v.prev, key |-> v.key, step |-> v.step,
   sent |-> v.sent, prekeys |-> v.prekeys]

-----------------------------------------------------------------------------
(* Process control.                                                        *)

Goto(p, l) == pc' = [pc EXCEPT ![p] = l]
Running(p) == pc[p] \notin {"off", "armed"}

(* The destructors of OpenedVault: wipe the store, release the lock.       *)
Close(p) ==
  /\ Goto(p, "off")
  /\ cmd' = [cmd EXCEPT ![p] = "none"]
  /\ mem' = [mem EXCEPT ![p] = NoStore]
  /\ found' = [found EXCEPT ![p] = {}]
  /\ held' = [held EXCEPT ![p] = {}]
  /\ lock' = lock \ {p}

(* Mutant of Finish: the lock is not given back.                           *)
FinishHolding(p) == Goto(p, "off") /\ UNCHANGED <<cmd, mem, found, held, lock>>

(* The end of an operation: a command exits, the interface stays open with *)
(* whatever its store has become.                                          *)
Finish(p) ==
  IF p \in Cli THEN Close(p)
  ELSE /\ Goto(p, "open")
       /\ cmd' = [cmd EXCEPT ![p] = "none"]
       /\ found' = [found EXCEPT ![p] = {}]
       /\ held' = [held EXCEPT ![p] = {}]
       /\ UNCHANGED <<mem, lock>>

(* Process p moves to label l and keeps its locals.                        *)
Step(p, l) == Goto(p, l) /\ UNCHANGED <<cmd, mem, found, held, lock>>

(* An open process starts command c: a command-line run the one it was     *)
(* invoked for, the interface any of its own.                              *)
Begins(p, c) ==
  /\ pc[p] = "open"
  /\ IF p \in Cli THEN cmd[p] = c ELSE c \in {"send", "update", "card", "rekey"}

World == <<printed, deleted, published, shown, seals, blocks, draws>>

-----------------------------------------------------------------------------
(* Opening.                                                                *)

(* cmd_outbox reads the pending block before it takes the lock.            *)
ReadOutbox(p) ==
  /\ p \in Cli /\ pc[p] = "off"
  /\ files.outbox # {}
  /\ Goto(p, "armed")
  /\ cmd' = [cmd EXCEPT ![p] = "outbox"]
  /\ held' = [held EXCEPT ![p] = files.outbox]
  /\ NoFault /\ KeepFiles
  /\ UNCHANGED <<anchor, lock, mem, found, World>>

(* Mutant of LockFree: the open does not take FileLock.                    *)
LockIgnored == TRUE

(* FileLock: flock(LOCK_EX | LOCK_NB) on .ratchet-usb.lock.                *)
LockFree == lock = {}

(* read_vault and open_vault under the lock, with a passphrase the user    *)
(* knows.  A vault the anchor refuses is not opened.                       *)
Open(p, c) ==
  /\ IF c = "outbox" THEN pc[p] = "armed" ELSE pc[p] = "off"
  /\ p \in Ui <=> c = "none"
  /\ LockFree
  /\ files.vault.key \in shown
  /\ \E a \in {anchor, {}} :
       LET v == files.vault
           here == {[gen |-> v.gen, digest |-> v.digest]}
           opens ==
             /\ Goto(p, "open")
             /\ cmd' = [cmd EXCEPT ![p] = c]
             /\ mem' = [mem EXCEPT ![p] = StoreOf(v)]
             /\ lock' = {p}
             /\ UNCHANGED <<found, held>>
       IN \/ /\ \A x \in a : Current(x, v.gen, v.digest)
             /\ Lookup(a) /\ UNCHANGED anchor
             /\ opens
          \/ /\ \E x \in a : v.gen > x.gen   \* advanced or lagging: refresh
             /\ \/ anchor' = here /\ NoFault
                \/ UNCHANGED anchor /\ Fault
             /\ opens
          \/ /\ \E x \in a : Refused(x, v.gen, v.digest)
             /\ Close(p)
             /\ NoFault /\ UNCHANGED anchor
  /\ KeepFiles
  /\ UNCHANGED World

(* cmd_anchor: enroll unless a record at or ahead of the store is found.   *)
(* The lookup may fail to find one, and the store may fail.                *)
Enroll(p) ==
  /\ Begins(p, "anchor")
  /\ LET here == {[gen |-> mem[p].gen, digest |-> files.vault.digest]}
     IN \/ Enrollable(anchor, mem[p].gen) /\ anchor' = here /\ NoFault
        \/ ~Enrollable(anchor, mem[p].gen) /\ UNCHANGED anchor /\ NoFault
        \/ anchor' \in {anchor, here} /\ Fault
  /\ Close(p)
  /\ KeepFiles
  /\ UNCHANGED World

(* The other read-only end of a run, and the interface's lock().           *)
Leave(p) ==
  /\ pc[p] = "open"
  /\ Close(p)
  /\ NoFault /\ KeepFiles
  /\ UNCHANGED <<anchor, World>>

-----------------------------------------------------------------------------
(* send: encrypt, persist the block, save, print, remove.                  *)

(* Mutant of NoPendingOutbox: a command starts beside a pending block.     *)
PendingIgnored == TRUE

(* ensure_no_pending_outbox, under the lock.                               *)
NoPendingOutbox == files.outbox = {}

(* Mutant of OutboxFor: the outbox records the generation before the save. *)
OutboxOfOpened(s, b) == [gen |-> s.gen, block |-> b]

(* The pending block of a send, and the generation its save will commit.   *)
OutboxFor(s, b) == [gen |-> s.gen + 1, block |-> b]

(* Mutant of AfterEncrypt: the interface shows the block before saving.    *)
ShownUnsaved(p) == IF p \in Cli THEN "staged" ELSE "saved"

(* The interface has no outbox file and goes straight to save().           *)
AfterEncrypt(p) == IF p \in Cli THEN "staged" ELSE "save"

(* ensure_no_pending_outbox, then session::send on the open store.         *)
Encrypt(p) ==
  /\ Begins(p, "send")
  /\ NoPendingOutbox
  /\ blocks < MaxBlock
  /\ LET b == [id |-> blocks, step |-> mem[p].step + 1]
     IN /\ mem' = [mem EXCEPT ![p].step = @ + 1, ![p].sent = @ \cup {b}]
        /\ held' = [held EXCEPT ![p] = {OutboxFor(mem[p], b)}]
  /\ blocks' = blocks + 1
  /\ Goto(p, AfterEncrypt(p))
  /\ cmd' = [cmd EXCEPT ![p] = "send"]
  /\ NoFault /\ KeepFiles
  /\ UNCHANGED <<anchor, lock, found, printed, deleted, published, shown, seals,
                 draws>>

(* write_pending_outbox: refuse at the last generation, write, rename.     *)
WriteOutbox(p) ==
  /\ pc[p] = "staged"
  /\ \/ /\ mem[p].gen < MaxGen
        /\ Change([files EXCEPT !.outbox = held[p]])
        /\ Step(p, "outboxed") /\ NoFault
     \/ /\ mem[p].gen >= MaxGen
        /\ Close(p) /\ NoFault /\ KeepFiles
     \/ Close(p) /\ Fault /\ KeepFiles
  /\ UNCHANGED <<anchor, World>>

(* Mutant of FlushOutbox: the block is printed before the vault is saved.  *)
FlushOutboxAndPrint(p) ==
  /\ pc[p] = "outboxed"
  /\ Flush /\ Step(p, "saved") /\ NoFault
  /\ UNCHANGED <<anchor, World>>

(* The directory flush of write_pending_outbox: if it fails the command    *)
(* ends and the file stays.                                                *)
FlushOutbox(p) ==
  /\ pc[p] = "outboxed"
  /\ \/ Flush /\ Step(p, "save") /\ NoFault
     \/ Close(p) /\ Fault /\ KeepFiles
  /\ UNCHANGED <<anchor, World>>

(* Any other operation that changes the store and saves it: recv, trust,   *)
(* add, remove, reset-session, unlock's maintenance.                       *)
Update(p) ==
  /\ Begins(p, "update")
  /\ NoPendingOutbox
  /\ Goto(p, "save")
  /\ cmd' = [cmd EXCEPT ![p] = "update"]
  /\ NoFault /\ KeepFiles
  /\ UNCHANGED <<anchor, lock, mem, found, held, World>>

(* write_block_or_throw, or the block screen of the interface.             *)
WriteBlock(p) ==
  /\ pc[p] = "saved" /\ cmd[p] \in {"send", "outbox"}
  /\ \/ /\ printed' = printed \cup {o.block : o \in held[p]}
        /\ IF p \in Cli THEN Step(p, "printed") ELSE Finish(p)
        /\ NoFault
     \/ /\ p \in Cli
        /\ Close(p) /\ Fault /\ UNCHANGED printed
  /\ KeepFiles
  /\ UNCHANGED <<anchor, deleted, published, shown, seals, blocks, draws>>

(* remove_pending_outbox: the unlink is not flushed.                       *)
RemoveOutbox(p) ==
  /\ pc[p] = "printed"
  /\ \/ Change([files EXCEPT !.outbox = {}]) /\ NoFault
     \/ KeepFiles /\ Fault
  /\ Close(p)
  /\ UNCHANGED <<anchor, World>>

(* cmd_outbox once the vault is open: print only the block of this         *)
(* generation.                                                             *)
CheckOutbox(p) ==
  /\ Begins(p, "outbox")
  /\ IF \E o \in held[p] : o.gen = mem[p].gen
     THEN Step(p, "saved") ELSE Close(p)
  /\ NoFault /\ KeepFiles
  /\ UNCHANGED <<anchor, World>>

-----------------------------------------------------------------------------
(* card.                                                                   *)

(* Prekeys are drawn into the open store: asked for, or missing.           *)
Draw(p) ==
  /\ NoPendingOutbox
  /\ draws < MaxDraw /\ draws' = draws + 1
  /\ mem' = [mem EXCEPT ![p].prekeys = @ \cup {draws + 1}]
  /\ cmd' = [cmd EXCEPT ![p] = "card"]
  /\ Goto(p, "save")
  /\ UNCHANGED <<lock, found, held>>

(* A command prints the card it has just drawn prekeys for and then saves; *)
(* the interface saves first.                                              *)
Published(p) == IF p \in Cli THEN mem'[p].prekeys ELSE {}

(* cmd_card and show_card.  Without new prekeys there is nothing to save.  *)
Card(p) ==
  /\ Begins(p, "card")
  /\ \/ Draw(p) /\ published' = published \cup Published(p)
     \/ /\ p \in Cli \/ NoPendingOutbox
        /\ published' = published \cup mem[p].prekeys
        /\ Finish(p) /\ UNCHANGED draws
  /\ NoFault /\ KeepFiles
  /\ UNCHANGED <<anchor, printed, deleted, shown, seals, blocks>>

(* The interface's card, once it is saved.                                 *)
ShowCard(p) ==
  /\ p \in Ui /\ pc[p] = "saved" /\ cmd[p] = "card"
  /\ published' = published \cup mem[p].prekeys
  /\ Finish(p)
  /\ NoFault /\ KeepFiles
  /\ UNCHANGED <<anchor, printed, deleted, shown, seals, blocks, draws>>

-----------------------------------------------------------------------------
(* save_vault.                                                             *)

(* Mutant of Chained: the save keeps its generation.                       *)
ChainedInPlace(s, digest) == [s EXCEPT !.prev = digest]

(* The store chained to the container it replaces, one generation on.      *)
Chained(s, digest) ==
  [s EXCEPT !.prev = digest, !.gen = IF @ < MaxGen THEN @ + 1 ELSE @]

(* Read the container on the drive, judge the anchor against the store in  *)
(* memory (re-anchoring if the store looks one ahead, a failed store being *)
(* swallowed), chain to the container, advance the generation.             *)
PrepareSave(p) ==
  /\ pc[p] = "save"
  /\ \E a \in {anchor, {}} :
       LET s == mem[p]
           old == files.vault.digest
           ahead == \E x \in a : AdvancedAfterCrash(x, s.gen, s.prev)
           refused == \E x \in a : Refused(x, s.gen, old)
       IN \/ /\ ~refused
             /\ \/ ~ahead /\ UNCHANGED anchor /\ Lookup(a)
                \/ ahead /\ anchor' = {[gen |-> s.gen, digest |-> old]} /\ NoFault
                \/ ahead /\ UNCHANGED anchor /\ Fault
             /\ mem' = [mem EXCEPT ![p] = Chained(s, old)]
             /\ found' = [found EXCEPT ![p] = a]
             /\ Goto(p, IF s.gen < MaxGen THEN "sealed" ELSE "failed")
             /\ UNCHANGED <<cmd, held, lock>>
          \/ /\ refused /\ NoFault /\ UNCHANGED anchor
             /\ Step(p, "failed")
  /\ KeepFiles
  /\ UNCHANGED World

(* vault::seal and vault::write_file up to the rename.                     *)
WriteVault(p) ==
  /\ pc[p] = "sealed"
  /\ \/ /\ Change([files EXCEPT !.vault = SealOf(mem[p], seals + 1)])
        /\ seals' = seals + 1
        /\ Step(p, "renamed") /\ NoFault
     \/ /\ Step(p, "failed") /\ Fault
        /\ KeepFiles /\ UNCHANGED seals
  /\ UNCHANGED <<anchor, printed, deleted, published, shown, blocks, draws>>

(* The directory flush of vault::write_file.                               *)
FlushVault(p) ==
  /\ pc[p] = "renamed"
  /\ \/ Flush /\ Step(p, "flushed") /\ NoFault
     \/ KeepFiles /\ Step(p, "failed") /\ Fault
  /\ UNCHANGED <<anchor, World>>

(* The anchor follows the container if one was loaded before the write.    *)
Reanchor(p) ==
  /\ pc[p] = "flushed"
  /\ \/ found[p] = {} /\ UNCHANGED anchor /\ Step(p, "saved") /\ NoFault
     \/ /\ found[p] # {}
        /\ anchor' = {[gen |-> mem[p].gen, digest |-> files.vault.digest]}
        /\ Step(p, "saved") /\ NoFault
     \/ found[p] # {} /\ UNCHANGED anchor /\ Step(p, "failed") /\ Fault
  /\ KeepFiles
  /\ UNCHANGED World

(* A save that succeeded and has nothing to print any more.  Esc at the    *)
(* new phrase backs out of a rekey.                                        *)
Done(p) ==
  /\ \/ pc[p] = "saved" /\ cmd[p] \in (IF p \in Cli THEN {"update", "card"} ELSE {"update"})
     \/ pc[p] = "rekeying"
  /\ Finish(p)
  /\ NoFault /\ KeepFiles
  /\ UNCHANGED <<anchor, World>>

(* Mutant of SaveDidNotHappen: an exception counts as a save that failed.  *)
SaveThrew(p) == held[p] # {}

(* The container on the drive is not the one the outbox waits for.         *)
SaveDidNotHappen(p) == \A o \in held[p] : o.gen # files.vault.gen

(* The exception.  cmd_send removes the outbox only if the container on    *)
(* the drive proves that the save did not happen; if it cannot be read the *)
(* file stays.                                                             *)
Fail(p) ==
  /\ pc[p] = "failed"
  /\ \/ /\ p \in Cli /\ cmd[p] = "send" /\ SaveDidNotHappen(p)
        /\ \/ Change([files EXCEPT !.outbox = {}]) /\ NoFault
           \/ KeepFiles /\ Fault
     \/ /\ ~(p \in Cli /\ cmd[p] = "send" /\ SaveDidNotHappen(p))
        /\ KeepFiles /\ NoFault
  /\ Finish(p)
  /\ UNCHANGED <<anchor, World>>

-----------------------------------------------------------------------------
(* rekey_vault.                                                            *)

(* Mutant of ShownFirst: the phrase is shown only once the rekey is done.  *)
ShownNever(p) == {}

(* The new phrase goes on screen before anything is written; under         *)
(* --structured-output it does not.  A phrase is named after the container *)
(* it will seal; two drawn for the same container count as one.  An outbox *)
(* is looked for before the rekey, and by a command before the phrase too. *)
ShownFirst(p) == IF p \in Gui THEN {} ELSE {seals + 1}

BeginRekey(p) ==
  /\ Begins(p, "rekey")
  /\ p \in Cli => NoPendingOutbox
  /\ shown' = shown \cup ShownFirst(p)
  /\ cmd' = [cmd EXCEPT ![p] = "rekey"]
  /\ Goto(p, "rekeying")
  /\ NoFault /\ KeepFiles
  /\ UNCHANGED <<anchor, lock, mem, found, held, printed, deleted, published, seals,
                 blocks, draws>>

(* Seal under the new phrase one generation on, write and verify the       *)
(* prepared copy, rename it over the vault.  The store in memory counts as *)
(* advanced only once promote_prepared has returned: RestoreGeneration     *)
(* undoes the increment whenever anything throws before that.              *)
Promote(p) ==
  /\ pc[p] = "rekeying"
  /\ \/ /\ NoPendingOutbox /\ mem[p].gen < MaxGen
        /\ Change([files EXCEPT !.vault =
                     [SealOf(mem[p], seals + 1) EXCEPT !.gen = mem[p].gen + 1,
                                                       !.key = seals + 1]])
        /\ seals' = seals + 1
        /\ Step(p, "promoted") /\ NoFault
     \/ /\ ~NoPendingOutbox \/ mem[p].gen >= MaxGen
        /\ Step(p, "failed") /\ NoFault /\ KeepFiles /\ UNCHANGED seals
     \/ Step(p, "failed") /\ Fault /\ KeepFiles /\ UNCHANGED seals
  /\ UNCHANGED <<anchor, printed, deleted, published, shown, blocks, draws>>

(* promote_prepared's directory flush.  If it throws, the old generation   *)
(* stands in memory although the rename has happened.                      *)
FlushRekey(p) ==
  /\ pc[p] = "promoted"
  /\ \/ /\ Flush /\ NoFault
        /\ mem' = [mem EXCEPT ![p].gen = @ + 1]
        /\ Goto(p, "rekeyed") /\ UNCHANGED <<cmd, found, held, lock>>
     \/ KeepFiles /\ Step(p, "failed") /\ Fault
  /\ UNCHANGED <<anchor, World>>

(* The anchor, then the result: the interface adopts the new passphrase,   *)
(* a structured run reports it.                                            *)
FinishRekey(p) ==
  /\ pc[p] = "rekeyed"
  /\ LET v == files.vault
         completed ==
           /\ shown' = shown \cup {v.key}
           /\ IF p \in Cli THEN Close(p)
              ELSE /\ mem' = [mem EXCEPT ![p].key = v.key]
                   /\ cmd' = [cmd EXCEPT ![p] = "none"]
                   /\ Goto(p, "open") /\ UNCHANGED <<found, held, lock>>
     IN \/ /\ anchor' = {[gen |-> v.gen, digest |-> v.digest] : x \in anchor}
           /\ NoFault /\ completed
        \/ anchor # {} /\ UNCHANGED anchor /\ Fault /\ completed   \* lookup error
        \/ /\ anchor # {} /\ UNCHANGED anchor /\ Fault             \* store error
           /\ Step(p, "failed") /\ UNCHANGED shown
  /\ KeepFiles
  /\ UNCHANGED <<printed, deleted, published, seals, blocks, draws>>

-----------------------------------------------------------------------------
(* The environment.                                                        *)

(* A kill at any point: the lock goes with the process.                    *)
Kill(p) ==
  /\ pc[p] # "off"
  /\ Close(p) /\ Fault /\ KeepFiles
  /\ UNCHANGED <<anchor, World>>

(* The drive loses power: every process dies with it, and the directory is *)
(* one of those that had not been superseded by a flush.                   *)
LosePower ==
  /\ PowerLoss /\ Fault
  /\ files' \in durable /\ durable' = {files'}
  /\ lock' = {}
  /\ pc' = [p \in Procs |-> "off"]
  /\ cmd' = [p \in Procs |-> "none"]
  /\ mem' = [p \in Procs |-> NoStore]
  /\ found' = [p \in Procs |-> {}]
  /\ held' = [p \in Procs |-> {}]
  /\ UNCHANGED <<anchor, World>>

(* The user follows the advice to delete the pending file.                 *)
DeleteOutbox ==
  /\ files.outbox # {}
  /\ Change([files EXCEPT !.outbox = {}])
  /\ deleted' = deleted \cup {o.block : o \in files.outbox}
  /\ NoFault
  /\ UNCHANGED <<anchor, lock, pc, cmd, mem, found, held, printed, published,
                 shown, seals, blocks, draws>>

(* The steps of a process that holds the vault open.                       *)
Runs(p) ==
  \/ Enroll(p) \/ Leave(p) \/ Encrypt(p) \/ WriteOutbox(p) \/ FlushOutbox(p)
  \/ Update(p) \/ Card(p) \/ ShowCard(p) \/ WriteBlock(p) \/ RemoveOutbox(p) \/ CheckOutbox(p)
  \/ PrepareSave(p) \/ WriteVault(p) \/ FlushVault(p) \/ Reanchor(p)
  \/ Done(p) \/ Fail(p)
  \/ BeginRekey(p) \/ Promote(p) \/ FlushRekey(p) \/ FinishRekey(p)

Next ==
  \/ \E p \in Procs :
       ReadOutbox(p) \/ (\E c \in Commands : Open(p, c)) \/ Runs(p) \/ Kill(p)
  \/ LosePower
  \/ DeleteOutbox

Spec == Init /\ [][Next]_vars

-----------------------------------------------------------------------------
(* Properties.                                                             *)

(* A message block that left the program belongs to the vault on the drive:*)
(* its ratchet step is consumed there, so no later send can use it again.  *)
ExportedIsCommitted == printed \subseteq files.vault.sent

(* What a process hands out after its save is in every vault a power loss  *)
(* may bring back: the block of a send is consumed there, and the prekeys  *)
(* of a card are held there.  (`outbox` prints a block of another run.)    *)
HandedOutAfterFlush ==
  [][\A p \in Procs, d \in durable' :
       pc[p] = "saved" /\ cmd[p] # "outbox" =>
         /\ printed' \ printed \subseteq d.vault.sent
         /\ published' \ published \subseteq d.vault.prekeys]_vars

(* A card whose save failed was not published: whoever got a card gets an  *)
(* answer to the opening it leads to.                                      *)
FailedCardUnseen ==
  \A p \in Procs :
    pc[p] = "failed" /\ cmd[p] = "card" =>
      mem[p].prekeys \cap published \subseteq files.vault.prekeys

(* No two different blocks that left the program used the same ratchet     *)
(* step (the same message key).                                            *)
NoStepExportedTwice ==
  \A b, c \in printed : b.step = c.step => b = c

(* An outbox left over from a save that did not happen never matches the   *)
(* generation on the drive, whatever is saved after it.                    *)
StaleOutboxNeverMatches ==
  \A o \in files.outbox :
    o.gen = files.vault.gen => o.block \in files.vault.sent

(* A message whose step the vault has consumed is not lost by any single   *)
(* failure of the command line: it was printed, or its exact block is in   *)
(* the outbox and `outbox` will print it, or the user deleted that file.   *)
CommittedIsRecoverable ==
  files.vault.sent \subseteq
    printed \cup deleted
      \cup {o.block : o \in {x \in files.outbox : x.gen = files.vault.gen}}

(* While no process has the vault open, the host anchor does not refuse    *)
(* the vault this host itself wrote: nobody is locked out of a drive that  *)
(* was not rolled back.                                                    *)
NoFalseRollback ==
  lock = {} =>
    \A a \in anchor : ~Refused(a, files.vault.gen, files.vault.digest)

(* Whoever was shown the passphrases can open the vault on the drive, and  *)
(* could open every vault a power loss may bring back.                     *)
VaultOpenable == \A d \in durable : d.vault.key \in shown

(* At most one process works on the open vault.                            *)
LockExclusive == \A p, q \in Procs : Running(p) /\ Running(q) => p = q

(* Every new container is newer than the one it replaces: no generation is *)
(* written twice with different contents.                                  *)
GenerationAdvances ==
  [][files'.vault # files.vault => files'.vault.gen > files.vault.gen]_vars

(* The vault implements the promise of MessageLog.                         *)
Log == INSTANCE MessageLog
         WITH committed <- files.vault.sent, exported <- printed
KeepsMessageLog == Log!Spec

(* A command that was started runs on: its user answers the prompts, and   *)
(* the scheduler runs it.  The interface may sit in "open" for ever.       *)
FairSpec == Spec /\ \A p \in Cli : WF_vars(Runs(p))

(* No command keeps the vault locked: whatever fails on the way, the lock  *)
(* is given back.                                                          *)
LockReleased == \A p \in Cli : lock = {p} ~> lock # {p}
=============================================================================
