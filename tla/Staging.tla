------------------------------ MODULE Staging -------------------------------
(***************************************************************************)
(* The private folder a received file is put in, in the clear, for the     *)
(* desktop to open, and who takes it away: the program as it exits, the    *)
(* reaper forked before the vault was opened, or the desktop's dialog.     *)
(* Only the number of files matters; a second is an abstract unit.         *)
(***************************************************************************)
EXTENDS Naturals

CONSTANTS
  Grace,      \* kStagingMinSeconds, in ticks of the clock; also its bound
  MaxFiles    \* bound: files staged by one program

ASSUME StagingAssumption == Grace \in Nat \ {0} /\ MaxFiles \in Nat \ {0}

VARIABLES
  kind,       \* the program: the interface, or a one-shot recv
  proc,       \* how far it is
  folder,     \* g_staging_dir: never made, there, or removed
  files,      \* plaintext files in it
  reaper,     \* the helper: none, blocked on the pipe, asleep, done, killed
  clock       \* since the reaper started, up to Grace

stagingVars == <<kind, proc, folder, files, reaper, clock>>

Gone == {"exited", "killed"}

StagingTypeOK ==
  /\ kind \in {"ui", "recv"}
  /\ proc \in {"starting", "up", "leaving"} \cup Gone
  /\ folder \in {"none", "made", "removed"}
  /\ files \in 0 .. MaxFiles /\ (files > 0 => folder = "made")
  /\ reaper \in {"none", "watching", "waiting", "done", "killed"}
  /\ clock \in 0 .. Grace

StagingInit ==
  /\ kind \in {"ui", "recv"} /\ proc = "starting"
  /\ folder = "none" /\ files = 0 /\ reaper = "none" /\ clock = 0

(* remove_staging_directory.                                               *)
RemoveFolder ==
  /\ files' = 0
  /\ folder' = IF folder = "made" THEN "removed" ELSE folder

-----------------------------------------------------------------------------
(* The program.                                                            *)

(* prepare_staging: no folder, a folder without a helper (its removal is   *)
(* left to the exit hook), or both; always before a vault is open.         *)
Prepare ==
  /\ proc = "starting" /\ proc' = "up"
  /\ \/ UNCHANGED <<folder, reaper>>
     \/ folder' = "made" /\ UNCHANGED reaper
     \/ folder' = "made" /\ reaper' = "watching"
  /\ UNCHANGED <<kind, files, clock>>

(* stage_file and open_in_file_manager: a failed write or fork unlinks the *)
(* file, a missing xdg-open leaves it; without a folder it is refused.     *)
StageFile ==
  /\ proc = "up"
  /\ \/ folder = "made" /\ files < MaxFiles /\ files' = files + 1
     \/ UNCHANGED files
  /\ UNCHANGED <<kind, proc, folder, reaper, clock>>

(* The interface leaves its loop, wipes, and removes the folder.           *)
Leave   == kind = "ui" /\ proc = "up" /\ proc' = "leaving"
           /\ UNCHANGED <<kind, folder, files, reaper, clock>>
Cleanup == proc = "leaving" /\ proc' = "exited"
           /\ RemoveFolder /\ UNCHANGED <<kind, reaper, clock>>

(* recv returns, well or with an error; remove_staging_on_exit is there    *)
(* only when no helper could be forked.                                    *)
Return ==
  /\ kind = "recv" /\ proc = "up" /\ proc' = "exited"
  /\ IF reaper = "none" THEN RemoveFolder ELSE UNCHANGED <<folder, files>>
  /\ UNCHANGED <<kind, reaper, clock>>

(* SIGTERM, SIGHUP and worse: _exit or nothing at all, no hook.            *)
Kill ==
  /\ proc \in {"up", "leaving"} /\ proc' = "killed"
  /\ UNCHANGED <<kind, folder, files, reaper, clock>>

-----------------------------------------------------------------------------
(* The reaper, and those who interfere.                                    *)

(* Mutant of Awake: the file manager has inherited the write end.          *)
AwakeUnlessOpened == reaper = "watching" /\ proc \in Gone /\ files = 0

(* End-of-file: the last write end is closed with the process.             *)
Awake == reaper = "watching" /\ proc \in Gone

(* Mutant of Due: a folder with files is removed as readily as an empty one.*)
DueAtOnce == files >= 0

(* Nothing to draw, or the grace period has passed.                        *)
Due == files = 0 \/ clock = Grace

Wake ==
  /\ Awake
  /\ \/ Due /\ RemoveFolder /\ reaper' = "done"
     \/ ~Due /\ reaper' = "waiting" /\ UNCHANGED <<folder, files>>
  /\ UNCHANGED <<kind, proc, clock>>

Sweep ==
  /\ reaper = "waiting" /\ clock = Grace
  /\ RemoveFolder /\ reaper' = "done"
  /\ UNCHANGED <<kind, proc, clock>>

(* Once its recv has ended the desktop shows where the file is; closing    *)
(* that dialog removes the folder at once.                                 *)
Dismiss ==
  /\ kind = "recv" /\ proc = "exited" /\ files > 0
  /\ RemoveFolder /\ UNCHANGED <<kind, proc, reaper, clock>>

(* The end of the session kills what is left of it.                        *)
Teardown ==
  /\ reaper \in {"watching", "waiting"} /\ reaper' = "killed"
  /\ UNCHANGED <<kind, proc, folder, files, clock>>

Tick ==
  /\ reaper # "none" /\ clock < Grace /\ clock' = clock + 1
  /\ UNCHANGED <<kind, proc, folder, files, reaper>>

(* Reaper and clock go on by themselves.                                   *)
Behind == Wake \/ Sweep \/ Tick

-----------------------------------------------------------------------------
(* Properties.                                                             *)

(* Once the program is gone, however it went, the plaintext goes too,      *)
(* unless the session killed the helper, or there was none and the program *)
(* did not reach its exit.                                                 *)
Abandoned == reaper = "killed" \/ (reaper = "none" /\ proc = "killed")
StagedPlaintextGoes == (proc \in Gone) ~> (files = 0 \/ Abandoned)

(* A staged file is taken away by the program's own exit, by the user's    *)
(* dialog, or not before the grace period that began with the program.     *)
KeptUntilDue ==
  [][files' < files =>
       \/ proc' # proc \/ Dismiss
       \/ proc \in Gone /\ clock = Grace]_stagingVars
=============================================================================
