# Ratchet-USB, specified

TLA+ specifications of Ratchet-USB, a messenger whose whole state is one
encrypted file on a USB drive: the modules describe what its code does, TLC
checks them on small instances, TLAPS proves theorems about them for every
instance. Paths such as `src/app.cpp` are relative to the repository.

    tlc -config MCVault_cli.cfg MCVault.tla      one run
    tlapm VaultProofs.tla                        the proofs (also RatchetProofs, HandshakeProofs,
                                                 GroupProofs, MigrationProofs, InterfaceProofs,
                                                 PageLockProofs, DesktopProofs)

## The system

Nobody runs a server. A program (a command line, or a terminal interface that
stays open, or a desktop window that calls the command line) opens `vault.bin`
on a drive with a passphrase, changes it, and writes it back whole. Messages
are text blocks which users carry by hand, so that they arrive in any order,
several times, or never.

| Part | State it keeps | Operations | What makes it correct |
|---|---|---|---|
| Vault file and application core (`app.cpp`, `vault.cpp`) | the container: generation, digest of its predecessor, passphrase, store; `.ratchet-usb.lock` | `open_vault`, `save_vault`, `rekey_vault`, `write_file`, `promote_prepared` | a crash leaves the old or the new container; generations only grow; one process at a time; some phrase the user has seen opens it |
| Rollback anchor (`rollback.cpp`) | one generation and digest in the host's keyring | `validate`, `load`, `store`, `enroll` | refuses an older drive, and never this host's own newest one |
| Command line (`commands.cpp`) | the pending block `vault.bin.outbox` | init, unlock, anchor, migrate, passphrase, card, add, trust, reset, remove, send, group-send, recv, outbox | a block that left the program was committed first, one that was committed is not lost |
| Terminal interface (`ui.cpp`, `ui_model.cpp`) | an open vault over many operations, the screen | the same operations, without an outbox; lock, idle lock | goes on after failures without letting memory and drive diverge |
| Desktop wrapper (`src/gui`) | a window over the command line | `--structured-output` runs | every answer is taken for what it is, and only what the user confirmed is trusted |
| Double ratchet (`ratchet.cpp`) | root and chain keys, counters, skipped keys | `encrypt`, `decrypt`, `expire_skipped_keys` | unique keys, a block read once, in any order, used keys forgotten |
| Sessions (`session.cpp`) | one session per contact | `send`, `receive` | both ends come to share one session; no opening accepted twice |
| Store (`store.cpp`) | contacts, prekeys, sessions, accepted openings | replay history, pruning, serialisation | the history stays small and still recognises every opening that could be accepted again |
| Cards, X3DH (`x3dh.cpp`, `prekey.cpp`) | what a card publishes | export, import, `initiate`, `respond_hybrid` | a one-time prekey serves once |
| Groups (`group.cpp`) | none of its own | `send`, `receive` over several sessions | all the ratchets advance, or none |
| Guarded memory (`secure.cpp`) | page reference counts | `lock_region`, `unlock_region` | memory that still holds a secret stays locked |
| File staging (`file.cpp`) | a directory with a received file, a reaper process | stage, reap, clean up | the plaintext is removed however the program ends |
| The rest | — | key derivation, BIP-39, encodings, padding, terminal, clipboard, media | formats, cryptography and I/O |

How they interact: commands and interface contend for the lock file and share
the directory (vault and outbox); every save judges the anchor before and moves
it after the container is in place; `session` calls `x3dh` for an opening and
`ratchet` for every block, on a copy of the session that is adopted only if all
went well; what `session` changed exists on the drive only after `save_vault`.

What is hard: a save is many steps (outbox, its flush, container, its flush,
anchor, print, unlink) which may each fail or be the last one before a kill; a
save can throw after it happened; the keyring answers "no anchor" when it is
locked; the interface keeps a store whose save failed; two people open at the
same time, reset alone, or use old cards. `PROJECT.json` lists these hazards one
by one, each at its line and with the properties aimed at it.

## The modules

**`Rollback`** — the comparisons of `rollback::validate` and `enroll` as
operators over (anchor, generation, digest). The anchor is a genuine one of this
vault: a forged or foreign record needs an attacker, who is not modelled.

**`Vault`** — a vault on a drive and the processes that work on it. `Cli` are
command-line runs, `Gui` those of them started with `--structured-output`, `Ui`
terminal interfaces. The state is `files` (what processes see in the directory)
and `durable` (the directories a power loss may leave), `anchor`, `lock`; per
process its program point `pc`, its command, its store and passphrase `mem`, the
anchor it loaded (`found`), the outbox it holds (`held`); and for the properties
what was `printed`, `deleted`, `published`, `shown`. Each action is the code between two
points where something else may happen:

| Command | Actions in order |
|---|---|
| send | `Open`, `Encrypt`, `WriteOutbox`, `FlushOutbox`, `PrepareSave`, `WriteVault`, `FlushVault`, `Reanchor`, `WriteBlock`, `RemoveOutbox` (the interface: without the outbox) |
| card | `Open`, `Card` (the command prints here), `PrepareSave` … `Reanchor`, `Done`; the interface: `ShowCard` after its save |
| recv, trust, add, remove, reset, unlock | `Open`, `Update`, `PrepareSave` … `Reanchor`, `Done` |
| passphrase | `Open`, `BeginRekey`, `Promote`, `FlushRekey`, `FinishRekey` (the command looks for a pending block before it shows the phrase, the interface only in `Promote`) |
| anchor | `Open`, `Enroll` |
| outbox | `ReadOutbox` (before the lock, as in the code), `Open`, `CheckOutbox`, `WriteBlock`, `RemoveOutbox` |

`Fail` is the exception path of all of them, `Leave` the read-only end of a run
and the interface's lock. `Kill` and `LosePower` may come between any two.
A container is identified by `digest`; `sent` in a store is the set of blocks
whose ratchet step it has consumed, which lets properties relate a printed block
to the container on the drive; `prekeys` does the same for the prekeys a card
published (those drawn by unlock's maintenance are not followed here).

**`MessageLog`** — the abstract promise: blocks are committed one at a time,
never twice for one ratchet step, and only committed blocks are exported. `Vault`
implements it (`KeepsMessageLog`).

**`DoubleRatchet`** — both ends of an established conversation. Keys are
symbolic: a chain is named by the sequence of Diffie-Hellman outputs that made
it, a message key by its chain and its number, a block opens under exactly its
own key. `Encrypt`, `Decrypt` (with expiry, cached keys, the gap limit, the
ratchet step, all on a copy), `ExpireSkippedKeys`, and `Week` for the time that
makes a cached key old.

**`Handshake`** — how two contacts get a session: `Open` and `SendFollow` are
`session::send`, `Accept` and `Confirm` are `session::receive`; `ResetSession`,
`AddContact`, `Trust`, `ExportCard`, `RotateSignedPrekey`, `Replenish` are the
commands that touch cards and prekeys, `AcceptOther` is a third contact who uses
up prekeys. The code rotates and replenishes in one `maintain_prekeys`; here they
are two actions in either order. `StandsAgainst` is the tie-break of simultaneous
openings, `Pruned` the replay history's pruning.

**`Group`** — group messages over the sessions of several members, each session
reduced to its sending chain and the message keys taken from it. One group
operation is several actions, because each of its steps may throw: `BeginSend`,
`Wrap` for one recipient after another, `CommitSend`; `BeginReceive`,
`TryWrapper` for one wrapper after another, `CommitReceive`; `Throw` from any of
them. `SendDirect` and `ReceiveDirect` share the sessions; `OtherClient` builds
the block of the repository's test in which a wrapper is an ordinary message.

**`Migration`** — the two runs of `migrate` (`OpenLegacy`, then `Prepare` …
`ReadBack`, or `Verify`, `Promote`, `FlushPromoted`, `AnchorPromoted`), with
`init --force` (`InitForce` …) and the older release (`OlderSave`), which ignores
the prepared copy. Directory and power loss are those of `Vault`; the
comparisons of the anchor are those of `Rollback`. An image carries which set
of contacts and sessions it holds (`kept`), so that a property can say what a
rename throws away.

**`Screens`**, **`Staging`**, **`Interface`** — `Screens` is the terminal
interface as its user sees it: the members of `ui::Model`, one action per key
and screen (`Escape`, `Select`, `Mark`, `WriteGroup`, …), and one per operation
of the driver behind it (`UsePath`, `CreateIdentity`, `ShowCard`, `ImportCard`,
`Trust`, `Send`, `Receive`, `Lock`, `Quit`), each with its refusals and with a
save that fails after memory has changed. `Staging` is the folder in which a
received file lies in the clear, the program that made it, and the reaper
process that outlives it. `Interface` composes them: opening a file needs the
screen, leaving the loop begins the clean-up, a kill takes the screens and
leaves the folder to the reaper. A program of kind `recv` has no screens; its
folder may also go when the desktop's file dialog is closed (`Dismiss`).

**`Desktop`** — the window over the command line: its members (`last` for
`lastCommand_`, `pending` for the fingerprint it asked for, `out` for what the
child has printed so far), the one child process, the modal dialog. `Launch` is
`MainWindow::launch` with its refusal while a child runs, its failed start and
the start that was given up and still happens; `Run`, `Deliver` and `Finish` are
the child, the `readyRead` and the `finished` signal. A run of the child has
three ends: it works and prints; it fails with the vault as it was; or it writes
the vault and fails, or is killed, before anything usable is printed
(`app.cpp:204-213`, `commands.cpp:239-258`). `Consent` is the trust dialog, which starts a second command with what the first one answered; `Edit`,
`Lock` and `CloseWindow` are what a user may do meanwhile; `Elsewhere` is another
program on the drive.

**`PageLock`** — `lock_region` and `unlock_region` with their page table, beside
what the kernel holds locked (`resident`) and keeps out of dumps (`nodump`); and
the growth of a secret, from `Reserve` over `Lock` and `Copy` to `LetGo`, with
the calls that are refused and the exceptions on the way. The code looks at what
`mlock` answers and at nothing else the kernel says (`secure.cpp:41-46`, `88-95`):
an exclusion from dumps, its restoration and a `munlock` may each fail without
anybody noticing. `exposed` records the pages that came into the table with a
failed exclusion, `stuck` those whose release failed. The invariants an
induction needs (`Counted`, `FlagsTrue`, `GrowthSound`) stand at its end.

**`VaultProofs`**, **`RatchetProofs`**, **`HandshakeProofs`**, **`GroupProofs`**,
**`MigrationProofs`**, **`InterfaceProofs`**, **`PageLockProofs`**,
**`DesktopProofs`** — theorems about `Vault`, `DoubleRatchet`, `Handshake`,
`Group`, `Migration`, `Interface`, `PageLock` and `Desktop`.

`Handshake` has one ratchet per session id and `DoubleRatchet` has one session;
`Vault` counts ratchet steps and does not look into them. The operators that
some definitions are accompanied by under the comment "Mutant of …" are slips
the code could contain; they are used nowhere in the specifications, and each
property is known to fail when one of them takes the place of the original.

## The runs

Runs that pass:

| Run | Question | Instance |
|---|---|---|
| `cli` | one command at a time, failures and kills anywhere: `TypeOK`, `NoStepExportedTwice`, `CommittedIsRecoverable`, `NoFalseRollback`, `GenerationAdvances`, `KeepsMessageLog`, and `LockReleased` under `FairSpec` | one process, 3 blocks, 3 faults |
| `mixed` | a command and an interface that goes on after failed saves contend on a drive that loses what is not flushed: `StaleOutboxNeverMatches`, `LockExclusive`, `VaultOpenable`, `HandedOutAfterFlush` | one of each, 2 blocks, one batch of prekeys, 2 faults, power losses |
| `ratchet` | all properties of `DoubleRatchet` | 7 blocks, a cache of 2, one expiry |
| `replay` | `TypeOK`, `AcceptedOnce`, `OneTimeUsedOnce`, `NoDowngrade` | two suites, 2 openings, a history of 2, 2 resets, 2 rotations, 2 cards, a third contact |
| `agree` | `ConfirmedAgree`, and `Converges` under `FairSpec` | 3 openings, one rotation |
| `group` | a failed group send moves no session, a refused block uses up no key: `StepsHandedOut`, `TakenIsRead` | 3 members, groups of up to 3, 2 group blocks, one direct message |
| `migration` | the drive stays usable and the commit is not a step back: `NeverLockedOut`, `NothingLeftBehind` | 4 containers written, 3 faults |
| `interface` | closing forgets, writing goes to whom it was meant for, staged plaintext goes in time: `LockLeavesNothing`, `VaultWhereNeeded`, `SentToChosen`, `MarkedAreVerified`, `KeptUntilDue`, and `StagedPlaintextGoes` under `FairSpec` | 2 contacts, one mishap, one staged file, a grace of one tick |
| `desktop` | `ResultAttributed`, `TrustWasConfirmed`, `NewPhraseShown`, and `Answered` under `FairSpec` | 2 drives, one contact with 2 possible fingerprints, one new phrase, one mishap |
| `pagelock` | `Protected`, `GivenBack` | 3 interchangeable blocks over 3 pages, each on the middle page, alone or with one of its neighbours |

Why these bounds are enough. A vault hazard needs one operation that fails, one
that follows it and a fault in each: two blocks and two faults. `MaxGen` stands
for `UINT64_MAX`; every run reaches it, so the counter's last value is part of
what is checked; 4 generations in `cli`, 3 in `mixed`, leave room for a failed, a
successful and (in `cli`) a conflicting save before it. Seven blocks let both directions take several
ratchet steps while blocks of the two previous chains are still out, and a cache
of two overflows. A history of two
is filled by an opening and the third contact, which is when pruning matters;
two rotations drop the signed prekey of the first opening, so that it is pruned;
two resets, one at each end, let a second opening be sent and taken, or the
first be pasted again.
The first card and one more are enough to import an older one. Three members are
a sender and the smallest group; two blocks let a second one be sent after a
failure and tried with a key that is spent; programs share nothing but blocks
already handed out, so one is in an operation at a time (`Quiet`). Migration's
longest story writes a copy, an older save, a new vault by force and another
save, and needs a fault in each of its runs. In `Interface` a second contact
makes a group, one mishap fails the save whose effect stays in memory, and a
tick tells "before the grace period" from "after". The desktop's property about
trust needs a fingerprint to change between question and answer, and a drive to
change: two of each; one new phrase is enough to be lost. In `PageLock` the
middle page is shared by up to three blocks, so that two leave before the last,
while its neighbours are released under the same blocks one at a time.

Deadlock is not checked where the system really stops: users may stop writing
and the bounds of `DoubleRatchet` and `Handshake` end there, a migrated drive
has nothing left to migrate, a program (`Interface`) has exited and a window
(`Desktop`) is closed. `Vault`, `Group` and `PageLock` never stop, and deadlock
is checked in their runs. The type invariants of `Group`, `Migration`,
`Interface`, `PageLock` and `Desktop` are theorems and not among the properties
of the runs.

Two runs in which TLC finds a documented statement violated by what the code
does. In `outbox_race`, with two commands, `ExportedIsCommitted` fails. `outbox` reads
the pending file before it takes the lock; meanwhile a send discards that block
and commits another under the same generation, and the first is printed. The
same interleaving can remove the block just committed, so
`CommittedIsRecoverable` holds for one command at a time only. In `card_unsaved`,
with one command, `FailedCardUnseen` fails: `card` writes the card to standard
output (`commands.cpp:536`) and saves the prekeys it names afterwards, so a card
whose save fails is out although "a card that cannot be saved must never reach
stdout" (`commands.cpp:530`); whoever opens a conversation from it gets no answer.

### Where the properties end

Each of these was found as a counterexample; the instance that shows it is named
so that it can be run again.

* An interface locked out (`NoFalseRollback`, `Ui = {u}`): a save that fails to
  write has already advanced the generation in memory; the next one moves the
  anchor ahead of the drive (`app.cpp:110`); if that fails too, the next open
  reports a rollback. `app.cpp:160-162` states the rule for a rekey that
  `save_vault` does not follow.
* A generation written twice (`GenerationAdvances`, `Ui = {u}`): the flush after
  a rekey's rename fails (`app.cpp:204`), memory returns to the old generation,
  the drive does not.
* A phrase nobody saw (`VaultOpenable`, `Gui = Cli`): `--structured-output` reports a
  new phrase only at the end (`commands.cpp:457`), after the vault needs it. If the
  command fails or dies in between, the desktop window says that it failed and the
  phrase is gone: `NewPhraseShown` asks no more than that report (`warned`).
* An opening refused for good (`Converges`, `MaxOther = 1`): of two simultaneous
  openings the smaller names a one-time prekey somebody else used up
  (`session.cpp:193`), so each end refuses the other's. The tie-break looks at
  ids only; `test_session.cpp:75` promises convergence without the condition.
* One reset is not enough (`Converges`, `MaxReset = 1`): a confirmed session is
  never replaced by an opening, so a reset on one side must be followed by one on
  the other, as the code intends.
* A card after a failed save (`HandedOutAfterFlush` speaks only of what follows a
  successful one): prekeys whose save failed stay in the interface's memory, the
  next `show_card` finds nothing to change and shows them without saving
  (`ui.cpp:569`).
* Power after printing (`ExportedIsCommitted`, a command with
  `PowerLoss = TRUE`): a send is killed between the rename and the flush of the
  vault, `outbox` prints its block, power is lost, and the vault that comes back
  has not consumed the block's ratchet step.
* A prepared vault in the way: after `init --force`, or a save of the older
  release, the commit refuses the prepared copy while every other command refuses
  to work beside it; the file has to be deleted by hand. `NeverLockedOut` excepts
  this case by its condition on `kept`.
* A vault from before generations cannot show that it changed, so there a stale
  copy is promoted; `NothingLeftBehind` excepts id 0.
* A run killed right after the promotion of a vault that had no id leaves it
  without an anchor, and no later run of `migrate` adds one.
* A page whose exclusion from dumps the kernel refused stays in a dump without
  `memory_locking_degraded()` knowing; `Protected` excepts it (`exposed`) and says
  that nothing else takes the exclusion away. `GivenBack` excepts a page whose
  release the kernel refused (`stuck`).
* After an exception in the page bookkeeping (`degraded`) counts may be too low,
  and a page may be released under a live secret; the program reports the
  degradation, and the properties promise nothing more.
* The grace period counts from the start of the reaper, not of the program's end.
  Locking the interface leaves a staged file where it is until exit. Without a
  helper process a kill leaves the plaintext.
* Locking or closing the desktop window while a passphrase change or an init runs
  drops the new phrase with the output (`dropped` in `NewPhraseShown`). A child
  that starts after the window gave up waiting never gets its input (the
  hypothesis of `Answered`).

## Fairness

`Vault!FairSpec`: weak fairness of each command's own steps. A command runs to
its end unless it is killed: the operating system schedules it and its user
answers its prompts. No fairness for starting commands, for the interface (it
may sit open for ever), for failures. `Handshake!FairSpec`: an opening, or a
later block, that stays acceptable is pasted in the end; `Converges` says what
happens to people who do deliver their mail. Nobody is obliged to write, reset,
or rotate anything. `Interface!FairSpec`: the reaper, a process of its own, is
scheduled, and time passes; no key is ever pressed by fairness, no program
exits, no dialog is closed. `Desktop!FairSpec`: a started child runs to its
end and Qt's event loop delivers its output and its `finished`; the user need
not close a dialog.

## What is proved

`VaultProofs`, for every set of processes and every value of the bounds, from
`ConstantsAssumption` alone:

* `TypeCorrect`, `LockIsExclusive`. `LockInv` is `TypeOK` and `Holder`: a
  running process is the one in the lock. `Holder` is inductive because every
  step that starts running takes the lock and every step that gives it up ends
  the process.
* `OutboxNeverStale`: `Spec => []StaleOutboxNeverMatches`, with interfaces and
  power losses. The property is about an outbox and a container written at
  different times, so its invariant must know what a process between the two is
  about to do. `OutboxInv` adds to `LockInv`, for every process: a command's
  store has the generation of the container, one more just before it is written
  (`AtGen`); what it has staged is for the next generation and consumed in its
  store (`Staged`); and a process about to write a container finds no outbox or
  one whose block its store has consumed (`Covered`). And it states the property
  for every directory a power loss may leave, not only for the visible one.
* `CommandsNeverLockOut`, `CommandsAdvance`: two properties that fail for an
  interface hold as long as only commands run and no power is lost
  (`OnlyCommands`, the hypothesis the counterexamples above show to be needed). From
  `AtGen` every new container is exactly one generation on, and the anchor moves
  only to the container in place or stays behind it (`AnchorInv`: `OutboxInv`
  and "the anchor does not refuse the container", at every program point and
  not only while nobody has the vault open).
* `MessagesRecoverable`, `StepsExportedOnce` and the refinement `VaultKeepsLog`
  (`Spec => KeepsMessageLog`), for one command at a time (`OneCommand`;
  `outbox_race` shows why). `LogInv` says, for the program points of a command,
  that its ratchet is the one on the drive or one step ahead by the block it
  sends (`InStep`); that what it holds for the outbox is in the file unless the
  user deleted it, and that an update or a rekey runs beside no outbox (`Holds`);
  and when a block may be printed, and that it was before its file is removed
  (`Printable`). `LogMoves` then reads off that a step commits, or prints one
  committed block, and never both.
* `PhrasesOpenVault`, for commands and interfaces together, with power losses, if
  no run is structured (`Gui = {}`): `PhraseInv` says that a running process has a
  shown phrase in memory, and that between showing a new phrase and writing under
  it nobody else can write (which is where the lock is needed).
* `InterfaceShowsCommitted`, with power losses, without commands (`Cli = {}`; a
  command's `outbox` can print what a power loss takes back): a block is shown
  only when its container is flushed, so that nothing else may come back
  (`Saved`), and an interface's store never falls behind the drive.
* `HandedOutIsFlushed`, for commands and interfaces together, with power losses:
  from the write on, the container on the drive covers the block and the prekeys
  its writer is about to hand out (`Ready`); the flush of that container leaves
  no other behind, and only the user's removal of an outbox, which keeps the
  container, may come between it and the moment they are shown.

`RatchetProofs`, for every `MaxSkip` and any number of blocks, from
`BoundsAssumption`:

* `TypeCorrect`, `CacheIsBounded`. The steps of decryption (`Unexpired`,
  `SkipMessageKeys`, `DhRatchet`, `CaughtUp`, `Decrypted`) each get a lemma: it
  keeps a session well-formed, and within the cache if the guard before it held
  (`SkipFits`: skipping adds as many keys as the gap is wide).
* `KeysNeverReused`: `Spec => []KeysUnique`. `KeysInv` says why: a chain one
  sends on ends in an output of the sender's current key pair, the younger of
  the two that made it (`OwnChains`), so a key names its key pair and number,
  both of which the header carries (`HeaderNamesKey`); and the counter `ns` is
  above every number used with the current key pair (`Counted`).

* `BlocksReadOnce`, `UsedKeysForgotten`. A key is `Spent` for a receiver if it is
  not cached, its chain is no longer than the root, and if it is on the current
  chain the counter is past it; `Past` is the same for a sender. Both can only
  become true: skipping caches only keys from the counter on, and a ratchet step
  makes chains longer than all before (`RatchetTidy`), so no old chain returns.
  Decryption needs a key that is not spent and spends it (`DecryptedTidy`), and so
  does expiry. The two directions differ in the parity of their chains' lengths
  (`Turn`), which keeps a party's own keys out of its cache.
* `BlocksStayReadable`: `Spec => []Readable`. Of two ends one is always a ratchet
  step ahead (`Leading`): its root is the other's root and one more output, which
  the other can make from the key pair in the header, so that the chain the other
  will derive is the one the block was sealed on (`OnlyNextSteps`: no other block
  makes a step that decrypts). `Current` says that all blocks of one key pair name
  one chain and one `pn`; `Hears`, that receiving chains and cached keys are those
  of the other end; and `Reaches`, that every block of the other end is done with,
  has its key in the cache, or is ahead, on the current chain or the next. A skip
  moves blocks from "ahead" to "cached" and loses none (`SkipReaches`), a ratchet
  step comes after all of the old chain, whose length is the leader's `pn`, has
  been skipped (`RatchetReaches`), and only reading and age take a block out
  (`DecryptedReaches`, `UnexpiredReaches`). `OpenInv` adds that the opening is
  Alice's first block and that Bob has no session until he has read it.

`HandshakeProofs`, for every set of two contacts, every set of suites and every
size of the history, from `HandshakeAssumption`:

* `TypeCorrect`, `SuitesNeverFall`. `Held`: a session is not below the suite its
  contact is held to.
* `NoReplay`, `OneTimeIsOneTime`. `ReplayInv`: openings have different ids;
  prekey numbers are never used twice; and every accepted opening is remembered,
  by the history or because its signed prekey is gone for good, and its one-time
  prekey is gone for good. Pruning forgets an opening only in the second case,
  which is what makes the invariant inductive.
* `ConfirmedPartiesAgree`: `Spec => []ConfirmedAgree`, from `AgreeInv`. While no
  session was thrown away a party opens at most once (`OneEach`, `Begun`), and is
  in the session it opened or in a confirmed one of its peer's that is smaller
  than its own (`Ranked`, the tie-break); who answers in a session it did not open
  stays in it (`Answers`); so an initiator's session is confirmed only once its
  peer is in it too (`Shared`), and two confirmed sessions are one.

`PageLockProofs`, for every finite set of blocks, every set of pages and every
set of regions, from `PageLockAssumption`:

* `TypeCorrect`, together with `GrowthSound`: the steps of a growth are only well
  typed if the new block is one of its own.
* `SecretsProtected` and `PagesGivenBack`. The invariant is that the count of a
  page is the number of blocks that hold it (`Counted`) and that the table's
  flags are what the kernel holds (`FlagsTrue`), both unless the bookkeeping has
  failed; what the kernel answered to the exclusion and the release is in the
  invariant as `exposed` and `stuck`. A lock adds one holder to each of its pages (`AccountLock`, from
  `HolderAdded`), an unlock takes one away (`AccountUnlock`, from
  `HolderRemoved`); that the last holder is leaving is then what "the count is
  one" means. The exception in `FlagsTrue`, a growth whose lock was refused and
  has not yet been reported, is the moment between the two calls in the code.

`GroupProofs`, for any members and bounds, from `GroupAssumption`:

* `TypeCorrect`.
* `NoKeyWasted`. Between two steps of a receive the vault is untouched and the
  copy is the vault and what it has opened (`ReceiveCopy`): so a commit takes
  exactly the key whose text it shows, and a throw takes none.
* `AllOrNone`. The wrappers made so far are the steps by which the copy is ahead
  of the vault (`SendCopy`): a commit hands out exactly the steps it takes. The
  proof is by one chain at a time; what is handed out grows by the new block
  (`BlockHandsOut`).

`MigrationProofs`, for any bounds, from `MigrationAssumption`. The invariant
speaks of every directory in `durable`, because a power loss may bring back any:

* `TypeCorrect`.
* `AlwaysAWayOn` and `NothingLost`, from `MigrationInv`: anchors and ids are older
  than what is drawn next (`Older`), so a new vault has no anchor yet; the anchor
  accepts the vault of every directory that may come back (`AnchorAccepts`); while
  the vault is a legacy one, no other vault may come back (`LegacyAlone`), since
  every change of it is flushed before anything relies on it; a prepared copy is
  one generation ahead of the vault it was made from, or the vault has moved and
  is not behind it (`PreparedFits`), which is what makes the commit's comparison of
  generations a comparison of contents; and what the run holding the lock has read
  is still so (`RunKnows`).

`InterfaceProofs`, for any contacts, bounds and grace period, from
`ScreensAssumption` and `StagingAssumption`:

* `TypeCorrect`, `NothingLeft`, `VaultBehindScreens`, `SentAsMeant`,
  `OnlyVerified`, from one invariant, `ScreenInv`. It adds what the properties
  leave unsaid: on a writing screen the recipients are the chosen ones and off
  these screens there are none (`Aimed`, which `go()` restores on every turn);
  with an open vault the model says so, so that Escape leads home (`Matches`); a
  shown contact is one the vault has and a card being read has its name (`Named`).
  The lemmas `...Right` say what each change of the model keeps of it, the lemmas
  `...Step` take the actions.
* `StagedFileStays`: an action property, from `StagingInv`, that the reaper only
  sleeps once the program is gone.

`DesktopProofs`, for any drives, contacts, fingerprints and bounds, from
`DesktopAssumption`:

* `TypeCorrect`, `AnswersAttributed`, `OnlyConfirmedTrusted`, `PhrasesReachScreen`,
  from one invariant, `DesktopInv`. Beside the properties it says that what the
  window expects is about the child there is (`Served`: the command, whether a
  fingerprint is awaited, the alias, and that a trust command was started with
  what the user accepted); that what was printed and not yet read (`Unseen`) is
  one answer of that child, which has ended well, and that a child which made a
  phrase has ended; and that a child that is gone
  leaves nothing unread (`Orderly`). `LaunchServes` is the step everything turns
  on: a command that is refused, fails to start or starts late leaves `last` and
  `pending` naming the right child.

Every invariant and every step property of the passing runs is a theorem.
Only model-checked is liveness (`LockReleased`, `Converges`, `StagedPlaintextGoes`,
`Answered`): this prover does neither fairness nor `ENABLED`, nor induction over
data. Seven theorems of `VaultProofs` have a hypothesis on the
processes, which the counterexamples above show to be needed: `CommandsNeverLockOut`
and `CommandsAdvance` (`OnlyCommands`), `MessagesRecoverable`, `StepsExportedOnce`
and `VaultKeepsLog` (`OneCommand`), `PhrasesOpenVault` (`Gui = {}`) and
`InterfaceShowsCommitted` (`Cli = {}`).

## Assumptions and what is left out

* Metadata changes reach the drive in order: after a power loss the directory is
  one that processes saw since the last flush. File contents are flushed before
  their rename, as the code does.
* A rename, an unlink, a keyring call happen or do not; a write fails before its
  rename, or its directory flush fails after it.
* The passphrase prompt belongs to `Open`; only phrases a user was shown are
  typed. A phrase is named after the container it was drawn for, so that two
  drawn for the same container count as one: `VaultOpenable` is therefore
  checked for plain runs only.
* Argon2 and AEAD are perfect; a container read under its own phrase opens.
* X25519 and ML-KEM one-time prekeys are looked up, refused and consumed alike
  and share one pool. The SPQR half of the triple ratchet and the combination of
  keys are symbolic. Legacy read-only sessions and the `Closed` status (no code
  sets it) are left out; older containers appear in `Migration` only.
* Incoming plaintext does not appear in `Vault`: recv is an `Update`.
* `Screens` and `Desktop` reduce a save to "happened or not"; what it does to the
  drive is `Vault`. The cursor of a list, scrolling and the menu's own row are
  layout: an entry of the menu stands for the key it names.
* `Desktop` takes a parsed result for granted when its output is complete; the
  quoting of `gui_format` and its parser are formats. What a command that failed
  has printed is left out, the window reads it only for a file from recv.
* No run of `Vault` has a structured command (`Gui = {}`); `Gui = Cli` is where the
  counterexample above comes from.
* `PageLock` has one thread, like the program: at most one secret grows at a time.
* There is no adversary. Secrecy and authentication of the key agreement are the
  subject of the repository's own ProVerif model, `model/session.pv`.

Not modelled: key derivation, word lists, encodings, padding buckets, terminal,
clipboard, media, argument parsing, the SPQR bridge and vendored code. They are
functions or I/O without state of their own.

## Plan

In order of what matters most:

1. (done) `Rollback`, `Vault`, `MessageLog`, `VaultProofs`: the vault is where a
   wrong step costs a conversation or the whole identity.
2. (done) `DoubleRatchet`, `Handshake` and their runs.
3. (done) `HandshakeProofs` and `RatchetProofs`, for all invariants of
   `Handshake` and `DoubleRatchet`.
4. (done) `Migration`, `Group`, `Screens`, `Staging`, `Interface`, `Desktop`,
   `PageLock`, and `PageLockProofs`, `GroupProofs`, `MigrationProofs`,
   `InterfaceProofs`, `DesktopProofs`.
5. (done) Cards and their prekeys across a failing save, in `Vault`.
6. Left: openings that use prekeys a vault no longer has (`Vault` composed with
   `Handshake`), incoming plaintext in `Vault` (a message key is consumed before
   its text is shown), and contact removal.
