----------------------------- MODULE Interface ------------------------------
(***************************************************************************)
(* The terminal interface and the folder its received files are opened in. *)
(* A program of kind "recv" has no screens: only its folder moves.         *)
(***************************************************************************)
EXTENDS Screens, Staging

vars == <<screenVars, stagingVars>>

TypeOK == ScreensTypeOK /\ StagingTypeOK

Init == ScreensInit /\ StagingInit

ScreensStay == UNCHANGED screenVars
FolderStays == UNCHANGED stagingVars
Up == kind = "ui" /\ proc = "up"

Key == Up /\ ScreenNext /\ FolderStays

(* open_pending_file: a file that could run is refused.                    *)
OpenFile ==
  /\ Up /\ Vaulted({"File"}) /\ pending = "plain"
  /\ StageFile /\ ScreensStay

(* recv with --stage-received, or a yes at its prompt: once.               *)
OpenReceived == kind = "recv" /\ files = 0 /\ StageFile /\ ScreensStay

(* q or Ctrl-C, and then the rest of run().                                *)
QuitKey == Up /\ Quit /\ Leave

(* The process and all that it held are gone.                              *)
Killed ==
  /\ Kill /\ LeaveNothing /\ running' = FALSE
  /\ UNCHANGED <<disk, outbox, intent, sent, mishaps>>

Alone ==
  /\ Prepare \/ Cleanup \/ Return \/ Wake \/ Sweep \/ Tick
       \/ Dismiss \/ Teardown
  /\ ScreensStay

Next == Key \/ OpenFile \/ OpenReceived \/ QuitKey \/ Killed \/ Alone

Spec == Init /\ [][Next]_vars

(* The reaper is scheduled and time passes; nobody has to press a key.     *)
FairSpec == Spec /\ WF_vars(Behind /\ ScreensStay)
=============================================================================
