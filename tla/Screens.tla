------------------------------ MODULE Screens -------------------------------
(***************************************************************************)
(* The terminal interface: the model's screens and what each key does on   *)
(* them, and the driver's operations on the vault behind them.  Messages,  *)
(* cards and paths are tokens; a menu entry stands for the key it names.   *)
(* What a save does to the drive is the module Vault; here it is a chance  *)
(* to fail after memory has changed.                                       *)
(***************************************************************************)
EXTENDS Naturals, FiniteSets

CONSTANTS
  Aliases,       \* contacts there are to add
  None,          \* no contact, no alias
  MaxMishap      \* bound: failed saves, outboxes left by others, failed opens

ASSUME ScreensAssumption ==
  None \notin Aliases /\ Aliases # {} /\ MaxMishap \in Nat

VARIABLES
  ui,        \* the Model's members
  open,      \* the driver holds an open vault
  store,     \* its contacts: the known ones and the verified ones
  disk,      \* those of the container on the drive, or no vault: {}
  pending,   \* pending_file_: a file received, "" for none
  outbox,    \* another run left a pending outbox beside the vault
  intent,    \* history: whom the user chose to write to
  sent,      \* history: whom the last message was encrypted for, and intent
  running,   \* the program has not ended
  mishaps

screenVars == <<ui, open, store, disk, pending, outbox, intent, sent, running,
                mishaps>>

TextScreens  == {"DrivePath", "Alias", "Compose", "Paste", "FilePick"}
Outside      == {"Drive", "DrivePath", "Setup"}
ScreenNames  == TextScreens \cup Outside \cup
                {"Home", "Contact", "Block", "Message", "File"}
Book     == [known : SUBSET Aliases, trusted : SUBSET Aliases]
NoBook   == [known |-> {}, trusted |-> {}]
FileKind == {"plain", "dangerous"}

Model == [screen : ScreenNames, unlocked : BOOLEAN, rows : Book,
          marks : SUBSET Aliases, group : BOOLEAN, to : SUBSET Aliases,
          contact : Aliases \cup {None}, alias : Aliases \cup {None},
          card : BOOLEAN, text : BOOLEAN,
          pager : {"", "block", "message"}, file : FileKind \cup {""}]

Sane(b) == b.trusted \subseteq b.known

ScreensTypeOK ==
  /\ ui \in Model /\ open \in BOOLEAN
  /\ store \in Book /\ Sane(store)
  /\ disk \subseteq Book /\ Cardinality(disk) <= 1
  /\ pending \in FileKind \cup {""}
  /\ outbox \in BOOLEAN /\ running \in BOOLEAN
  /\ intent \subseteq Aliases
  /\ sent \in [to : SUBSET Aliases, intent : SUBSET Aliases]
  /\ mishaps \in 0 .. MaxMishap

Forgotten ==
  [screen |-> "Drive", unlocked |-> FALSE, rows |-> NoBook, marks |-> {},
   group |-> FALSE, to |-> {}, contact |-> None, alias |-> None, card |-> FALSE,
   text |-> FALSE, pager |-> "", file |-> ""]

ScreensInit ==
  /\ ui = Forgotten /\ open = FALSE /\ store = NoBook
  /\ disk \in {{}, {NoBook}}
  /\ pending = "" /\ outbox = FALSE /\ intent = {}
  /\ sent = [to |-> {}, intent |-> {}]
  /\ running = TRUE /\ mishaps = 0

Fine   == UNCHANGED mishaps
Mishap == mishaps < MaxMishap /\ mishaps' = mishaps + 1

-----------------------------------------------------------------------------
(* Model: where a key leads.                                               *)

(* Mutant of Go: the file picker counts as leaving the message.            *)
GoAlone(u, next) ==
  [u EXCEPT !.screen = next,
            !.group = @ /\ next = "Compose",
            !.to = IF next = "Compose" THEN @ ELSE {},
            !.text = @ /\ next \notin TextScreens]

(* Model::go.                                                              *)
Go(u, next) ==
  [u EXCEPT !.screen = next,
            !.group = @ /\ next \in {"Compose", "FilePick"},
            !.to = IF next \in {"Compose", "FilePick"} THEN @ ELSE {},
            !.text = @ /\ next \notin TextScreens]

(* show_home drops the marks; show_contacts keeps those of the same rows.  *)
Home(u)    == Go([u EXCEPT !.rows = store', !.marks = {}, !.unlocked = TRUE], "Home")
Relist(u)  == [u EXCEPT !.rows = store', !.marks = @ \cap store'.known]
Closed(u)  == Go([u EXCEPT !.pager = ""], "Home")
Clear(u)   == [u EXCEPT !.text = FALSE]

On(screens) == running /\ ui.screen \in screens
World == UNCHANGED <<open, store, disk, pending, outbox, sent, running, mishaps>>
Turn(new) == ui' = new /\ World /\ UNCHANGED intent

Escape ==
  \/ On({"FilePick"}) /\ Turn(Go(Clear(ui), "Compose"))
  \/ On(TextScreens \ {"FilePick"})
       /\ Turn(Go(Clear(ui), IF ui.unlocked THEN "Home" ELSE "Drive"))
  \/ On({"Setup"}) /\ Turn(Go(ui, "Drive"))
  \/ On({"Contact", "File"}) /\ Turn(Go(ui, "Home"))
  \/ On({"Block", "Message"}) /\ Turn(Closed(ui))

(* Typing, and Ctrl-U or deleting it all.                                  *)
Type == On(TextScreens) /\ Turn([ui EXCEPT !.text = ~@])

TypePath  == On({"Drive"}) /\ Turn(Go(ui, "DrivePath"))
AddAlias  == On({"Home"}) /\ Turn(Go(ui, "Alias"))
ReadBlock == On({"Home"}) /\ Turn(Go([ui EXCEPT !.card = FALSE], "Paste"))
NameAlias == /\ On({"Alias"}) /\ ui.text
             /\ \E a \in Aliases :
                  Turn(Go([ui EXCEPT !.alias = a, !.card = TRUE], "Paste"))

(* Enter on a row, and Space.                                              *)
Select ==
  /\ On({"Home"})
  /\ \E a \in ui.rows.known : Turn(Go([ui EXCEPT !.contact = a], "Contact"))
(* Mutant of Mark: any row can be marked.                                  *)
MarkAny ==
  /\ On({"Home"})
  /\ \E a \in ui.rows.known : Turn([ui EXCEPT !.marks = @ \cup {a}])
Mark ==
  /\ On({"Home"})
  /\ \E a \in ui.rows.trusted :
       Turn([ui EXCEPT !.marks = (@ \ {a}) \cup ({a} \ @)])

(* `g`, and `w` or Ctrl-P on a contact.                                    *)
WriteGroup ==
  /\ On({"Home"}) /\ Cardinality(ui.marks) >= 2
  /\ ui.marks \subseteq ui.rows.trusted
  /\ ui' = Go([ui EXCEPT !.group = TRUE, !.to = ui.marks], "Compose")
  /\ intent' = ui.marks /\ World
WriteContact ==
  /\ On({"Contact"})
  /\ \E next \in {"Compose", "FilePick"} : ui' = Go(ui, next)
  /\ intent' = {ui.contact} /\ World
PickFile == On({"Compose"}) /\ Turn(Go(ui, "FilePick"))

-----------------------------------------------------------------------------
(* Driver: opening and closing a vault.                                    *)

(* after_unlock: maintenance may need a save, whose failure is only shown. *)
AfterUnlock(u) == ui' = Home(u)

(* use_path and unlock: a wrong passphrase, a prepared migration or a bad  *)
(* path leave the interface where it is.                                   *)
UsePath ==
  /\ On({"Drive", "DrivePath"})
  /\ ui.screen = "DrivePath" => ui.text
  /\ \/ /\ disk # {} /\ Fine
        /\ open' = TRUE /\ store' \in disk
        /\ AfterUnlock(Clear(ui))
     \/ /\ disk = {} /\ Fine
        /\ ui' = Go(Clear(ui), "Setup") /\ UNCHANGED <<open, store>>
     \/ /\ Mishap
        /\ ui' = Clear(ui) /\ open' = FALSE /\ store' = NoBook
  /\ UNCHANGED <<disk, pending, outbox, intent, sent, running>>

CreateIdentity ==
  /\ On({"Setup"})
  /\ \/ /\ disk = {} /\ disk' = {NoBook} /\ Fine
        /\ open' = TRUE /\ store' = NoBook /\ AfterUnlock(ui)
     \/ Mishap /\ disk' \in {disk, {NoBook}} /\ UNCHANGED <<ui, open, store>>
  /\ UNCHANGED <<pending, outbox, intent, sent, running>>

(* Mutants of LeaveNothing: the received file, or the marked recipients    *)
(* with their group, stay.                                                 *)
LeaveFile ==
  /\ open' = FALSE /\ store' = NoBook
  /\ ui' = Forgotten /\ UNCHANGED pending
LeaveScreen ==
  /\ open' = FALSE /\ store' = NoBook /\ pending' = ""
  /\ ui' = [Forgotten EXCEPT !.screen = ui.screen]

(* vault_.reset(), the received file, and Model::forget().                 *)
LeaveNothing ==
  /\ open' = FALSE /\ store' = NoBook /\ pending' = ""
  /\ ui' = Forgotten

(* `l`, the idle timer, and coming back from a suspend.                    *)
Lock ==
  /\ running /\ open
  /\ LeaveNothing
  /\ UNCHANGED <<disk, outbox, intent, sent, running, mishaps>>

(* `q`, Ctrl-C or the end of the terminal.                                 *)
Quit ==
  /\ running /\ running' = FALSE
  /\ LeaveNothing
  /\ UNCHANGED <<disk, outbox, intent, sent, mishaps>>

-----------------------------------------------------------------------------
(* Driver: the operations.  save() may throw before the container is       *)
(* replaced or after; memory keeps what it holds.  A change of passphrase  *)
(* moves nothing here.                                                     *)

Saved(new)  == store' = new /\ disk' = {new} /\ Fine
Unsaved(new) == store' = new /\ disk' \in {disk, {new}} /\ Mishap
Unmoved     == UNCHANGED <<store, disk>>
Keeps       == UNCHANGED <<open, outbox, intent, running>>
Vaulted(screens) == On(screens) /\ open     \* the belt in the loop

(* A card is saved only when prekeys were made or signed anew for it.      *)
ShowCard ==
  /\ Vaulted({"Home"}) /\ Keeps /\ UNCHANGED <<pending, sent>>
  /\ \/ /\ ~outbox
        /\ Saved(store) \/ (Unmoved /\ Fine)
        /\ ui' = Go([ui EXCEPT !.pager = "block"], "Block")
     \/ ~outbox /\ Unsaved(store) /\ ui' = ui
     \/ outbox /\ Unmoved /\ Fine /\ ui' = ui

(* An alias no contact may have is refused where it stands; every other    *)
(* end is on the list of contacts.                                         *)
ImportCard ==
  /\ Vaulted({"Paste"}) /\ ui.card /\ Keeps /\ UNCHANGED <<pending, sent>>
  /\ \/ Unmoved /\ Fine /\ ui' = Clear(ui)
     \/ /\ LET new == [store EXCEPT !.known = @ \cup {ui.alias}]
           IN \/ /\ ~outbox /\ ui.alias \notin store.known
                 /\ Saved(new) \/ Unsaved(new)
              \/ (outbox \/ ui.alias \in store.known) /\ Unmoved /\ Fine
              \/ Unmoved /\ Mishap                        \* not a card
        /\ ui' = Home(Clear(ui))

(* The row is refreshed only when the save went through.                   *)
Trust ==
  /\ Vaulted({"Contact"}) /\ Keeps /\ UNCHANGED <<pending, sent>>
  /\ LET new == [store EXCEPT !.trusted = @ \cup {ui.contact}]
     IN \/ ~outbox /\ Saved(new) /\ ui' = Relist(ui)
        \/ ~outbox /\ Unsaved(new) /\ ui' = ui
        \/ outbox /\ Unmoved /\ Fine /\ ui' = ui

(* resolve_group_recipients, or the selected row.                          *)
Recipients == IF ui.group THEN ui.to ELSE {ui.contact}

(* send_message and send_file: the text is cleared first; sessions refuse  *)
(* a contact that is not verified; a failed save leaves the screen.        *)
Send ==
  /\ Vaulted({"Compose", "FilePick"}) /\ Keeps /\ UNCHANGED pending
  /\ ui.screen = "FilePick" => ui.text
  /\ \/ /\ ui.text /\ ~outbox /\ Recipients \subseteq store.trusted
        /\ Saved(store)
        /\ sent' = [to |-> Recipients, intent |-> intent]
        /\ ui' = Go([Relist(Clear(ui)) EXCEPT !.pager = "block"], "Block")
     \/ /\ ~ui.text \/ outbox \/ ~(Recipients \subseteq store.trusted)
        /\ Unmoved /\ Fine /\ ui' = Clear(ui) /\ UNCHANGED sent
     \/ Unsaved(store) /\ ui' = Clear(ui) /\ UNCHANGED sent

(* A file replaces the one held; a message does not.                       *)
Receive ==
  /\ Vaulted({"Paste"}) /\ ~ui.card /\ Keeps /\ UNCHANGED sent
  /\ \/ /\ ui.text /\ ~outbox /\ Saved(store)
        /\ \/ /\ \E f \in FileKind :
                   /\ pending' = f
                   /\ ui' = Go([Relist(Clear(ui)) EXCEPT !.pager = "", !.file = f], "File")
           \/ /\ UNCHANGED pending
              /\ ui' = Go([Relist(Clear(ui)) EXCEPT !.pager = "message"], "Message")
     \/ /\ ~ui.text \/ outbox
        /\ Unmoved /\ Fine /\ ui' = Clear(ui) /\ UNCHANGED pending
     \/ Unsaved(store) /\ ui' = Clear(ui) /\ UNCHANGED pending

(* Another program: an outbox left beside a closed vault, deleted any time.*)
Neighbour ==
  /\ \/ ~outbox /\ ~open /\ Mishap
     \/ outbox /\ Fine
  /\ outbox' = ~outbox
  /\ UNCHANGED <<ui, open, store, disk, pending, intent, sent, running>>

ScreenNext ==
  \/ Escape \/ Type \/ TypePath \/ AddAlias \/ ReadBlock \/ NameAlias
  \/ Select \/ Mark \/ WriteGroup \/ WriteContact \/ PickFile
  \/ UsePath \/ CreateIdentity \/ Lock
  \/ ShowCard \/ ImportCard \/ Trust \/ Send \/ Receive \/ Neighbour

-----------------------------------------------------------------------------
(* Properties.                                                             *)

(* Once the vault is closed, by hand, by the timer, or by a suspend, the   *)
(* program holds and shows nothing that came out of it: no contact, mark,  *)
(* recipient, page of text or received file.                               *)
LockLeavesNothing ==
  ~open => /\ pending = "" /\ store = NoBook
           /\ [ui EXCEPT !.screen = "Drive", !.text = FALSE] = Forgotten

(* The screens that work on a vault are on exactly while one is open,      *)
(* through failed opens, failed creations and locks from any screen: the   *)
(* loop never has to swallow a key (ui.cpp, needs_vault).                  *)
VaultWhereNeeded == open <=> ui.screen \notin Outside

(* What is encrypted goes to whom the user chose when starting to write,   *)
(* through the file picker and back, after failures, with rows refreshed   *)
(* in between: a group file never becomes a letter to one contact.         *)
SentToChosen == sent.to = sent.intent

(* Nobody is written to as a group, marked, or shown as verified, whom the *)
(* open vault does not hold verified.                                      *)
MarkedAreVerified ==
  ui.to \cup ui.marks \cup ui.rows.trusted \subseteq store.trusted
=============================================================================
