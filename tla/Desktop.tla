------------------------------ MODULE Desktop -------------------------------
(***************************************************************************)
(* The desktop window: one command-line child at a time, whose output      *)
(* comes back as events while the user goes on typing, locking and         *)
(* choosing drives.  A vault is reduced to what a command line run answers *)
(* with: its passphrase and, per contact, a fingerprint and whether it is  *)
(* verified.  Result dialogs are modal; the lock button, the passphrase    *)
(* field's Return key, the text boxes and the drive stay usable while a    *)
(* command runs.                                                           *)
(***************************************************************************)
EXTENDS Naturals

CONSTANTS
  Drives, Aliases,
  None,            \* no alias
  Fingerprints,    \* of the cards contacts hand out
  MaxPhrase,       \* bound: passphrases ever made
  MaxElsewhere     \* bound: changes by other programs and failed starts

ASSUME DesktopAssumption ==
  /\ Drives # {} /\ Aliases # {} /\ None \notin Aliases /\ 0 \notin Fingerprints
  /\ MaxPhrase \in Nat \ {0} /\ MaxElsewhere \in Nat

VARIABLES
  vault,      \* per drive: passphrase, contacts' fingerprints, the verified
  child,      \* the CLI process: none or one
  window,     \* the MainWindow's members
  dialog,     \* the modal dialog on screen, if any
  seen,       \* passphrases that were on the user's screen
  accepted,   \* <<alias, fingerprint>> pairs the user confirmed
  dropped,    \* passphrases thrown away by a lock or by closing the window
  warned,     \* passphrases whose command was reported to have failed
  minted, closed, elsewhere

vars == <<vault, child, window, dialog, seen, accepted, dropped, warned, minted,
          closed, elsewhere>>

(* "contacts" stands for every command whose result is only shown.         *)
Commands == {"unlock", "init", "passphrase", "fingerprint", "trust", "add",
             "remove", "recv", "contacts"}
(* What lets the tabs be used at all.                                      *)
Always   == {"unlock", "init"}
(* These re-read the contact list once their dialog is closed.             *)
Refresh  == {"unlock", "add", "trust", "remove"}

Alias   == Aliases \cup {None}
Prints   == Fingerprints \cup {0}    \* 0: no contact
Phrase  == 0 .. MaxPhrase           \* 0: none typed, or none printed
Output  == [cmd : Commands, alias : Alias, print : Prints, key : Phrase]
Child   == [cmd : Commands, alias : Alias, print : Prints, key : Phrase,
            drive : Drives, phase : {"late", "running", "exited"},
            ok : BOOLEAN, made : Phrase, said : SUBSET Output]
Window  == [unlocked : BOOLEAN, drive : Drives, key : Phrase, last : Commands,
            silent : BOOLEAN, pending : BOOLEAN,
            alias : Alias, out : SUBSET Output, busy : BOOLEAN]
Dialog  == [kind : {"result", "failed", "consent"}, of : Output]

TypeOK ==
  /\ vault \in [Drives -> [phrase : Phrase, print : [Aliases -> Prints],
                           verified : SUBSET Aliases]]
  /\ child \subseteq Child /\ \A x, y \in child : x = y
  /\ window \in Window
  /\ dialog \subseteq Dialog /\ \A x, y \in dialog : x = y
  /\ seen \subseteq Phrase /\ dropped \subseteq Phrase /\ warned \subseteq Phrase
  /\ accepted \subseteq Aliases \X Fingerprints
  /\ minted \in Phrase /\ closed \in BOOLEAN
  /\ elsewhere \in 0 .. MaxElsewhere

NewWindow(d) ==
  [unlocked |-> FALSE, drive |-> d, key |-> 0, last |-> "unlock", silent |-> FALSE,
   pending |-> FALSE, alias |-> None, out |-> {},
   busy |-> FALSE]

(* Vaults made earlier, whose phrase the user has, without contacts.       *)
Init ==
  /\ vault = [d \in Drives |-> [phrase |-> 1, print |-> [a \in Aliases |-> 0],
                                verified |-> {}]]
  /\ \E d \in Drives : window = NewWindow(d)
  /\ child = {} /\ dialog = {} /\ seen = {1} /\ accepted = {} /\ dropped = {}
  /\ warned = {} /\ minted = 1 /\ closed = FALSE /\ elsewhere = 0

-----------------------------------------------------------------------------
(* Starting a command.                                                     *)

Unknown == UNCHANGED elsewhere
Mishap  == elsewhere < MaxElsewhere /\ elsewhere' = elsewhere + 1

(* CliRunner::busy().                                                      *)
Idle == child = {}

(* launch(): what handleFinished will go by, and fresh buffers.            *)
Expecting(w, cmd, alias, silent) ==
  [w EXCEPT !.last = cmd, !.silent = silent, !.out = {},
            !.pending = (cmd = "fingerprint"),
            !.alias = IF cmd \in {"trust", "fingerprint"} THEN alias ELSE @]

(* Mutant of Stale: the buttons stay grey.                                 *)
StaleBusy(w) == [w EXCEPT !.last = "unlock", !.silent = FALSE, !.out = {},
                          !.pending = FALSE, !.alias = None]

(* The members are left as they are; until the next launch sets them, no   *)
(* code reads them, so their stale values are not kept apart.              *)
Stale(w) == [w EXCEPT !.last = "unlock", !.silent = FALSE, !.pending = FALSE,
                      !.alias = None, !.out = {}, !.busy = FALSE]

(* Mutant of Refused: the members are set before the busy test.            *)
RefusedLate(w, cmd, alias) == Expecting(w, cmd, alias, FALSE)

(* A launch while a child runs: a warning, nothing else.  The trust button *)
(* has already noted its alias.                                            *)
Refused(w, cmd, alias) ==
  IF cmd = "fingerprint" THEN [w EXCEPT !.alias = alias] ELSE w

NewChild(w, cmd, alias, print, phase) ==
  [cmd |-> cmd, alias |-> alias, print |-> print, key |-> w.key,
   drive |-> w.drive, phase |-> phase, ok |-> FALSE, made |-> 0, said |-> {}]

(* waitForStarted() may see the start fail, or give up after five seconds  *)
(* on a child that does start: either way launch() returns without a word, *)
(* with the buttons enabled, and a late child never gets its stdin.        *)
Launch(w, cmd, alias, print, silent) ==
  LET x == Expecting(w, cmd, alias, silent)
  IN IF ~Idle
     THEN window' = Refused(w, cmd, alias) /\ UNCHANGED child /\ Unknown
     ELSE \/ /\ window' = [x EXCEPT !.busy = TRUE] /\ Unknown
             /\ child' = child \cup {NewChild(w, cmd, alias, print, "running")}
          \/ window' = Stale(x) /\ UNCHANGED child /\ Mishap
          \/ /\ window' = x /\ Mishap
             /\ child' = child \cup {NewChild(w, cmd, alias, print, "late")}

(* The buttons.  Only the action buttons and "Accedi" are greyed out while *)
(* a command runs; Return in the passphrase field still calls doUnlock,    *)
(* and the init dialog can still be opened.                                *)
Click(cmd) ==
  /\ dialog = {} /\ ~closed
  /\ cmd \in Always \/ (window.unlocked /\ ~window.busy)
  /\ cmd = "unlock" => window.key # 0
  /\ cmd # "trust"
  /\ \E a \in IF cmd \in {"fingerprint", "add", "remove"} THEN Aliases ELSE {None} :
     \E f \in IF cmd = "add" THEN Fingerprints ELSE {0} :
       Launch(window, cmd, a, f, FALSE)
  /\ UNCHANGED <<vault, dialog, seen, accepted, dropped, warned, minted, closed>>

-----------------------------------------------------------------------------
(* The child: one command against the vault of its drive.                  *)

(* Mutant of Trusts: the confirmed fingerprint is not compared.            *)
TrustsAny(v, c) == v.print[c.alias] # 0

(* cmd_trust --confirmed --expect-fingerprint.                             *)
Trusts(v, c) == v.print[c.alias] # 0 /\ v.print[c.alias] = c.print

Rekeys == {"init", "passphrase"}

(* init needs no passphrase; everything else opens the vault with the one  *)
(* that was in the field.                                                  *)
Works(c, v) ==
  /\ c.cmd = "init" \/ (c.key # 0 /\ c.key = v.phrase)
  /\ c.cmd \in Rekeys => minted < MaxPhrase
  /\ c.cmd \in {"fingerprint", "remove"} => v.print[c.alias] # 0
  /\ c.cmd = "trust" => Trusts(v, c)

After(c, v) ==
  CASE c.cmd = "init" -> [phrase |-> minted + 1, verified |-> {},
                          print |-> [a \in Aliases |-> 0]]
    [] c.cmd = "passphrase" -> [v EXCEPT !.phrase = minted + 1]
    [] c.cmd = "trust" -> [v EXCEPT !.verified = @ \cup {c.alias}]
    [] c.cmd \in {"add", "remove"} ->
         [v EXCEPT !.print[c.alias] = c.print, !.verified = @ \ {c.alias}]
    [] OTHER -> v

(* The passphrase a run of the command gives its vault.                    *)
Makes(c) == IF c.cmd \in Rekeys THEN minted + 1 ELSE 0

(* Of what is printed, a fingerprint and a passphrase are told apart.      *)
Reply(c, v) ==
  [cmd |-> c.cmd, key |-> Makes(c),
   alias |-> IF c.cmd = "fingerprint" THEN c.alias ELSE None,
   print |-> IF c.cmd = "fingerprint" THEN v.print[c.alias] ELSE 0]

(* A child that has ended; its arguments and its stdin are of no more use. *)
Ended(c, ok, made, said) ==
  [c EXCEPT !.phase = "exited", !.ok = ok, !.made = made, !.said = said,
            !.key = 0, !.print = 0]

(* The command does its work and prints, or fails with the vault as it     *)
(* was; or the vault is written and it fails after that, or is killed,     *)
(* before a passphrase block is out.  What a command that failed has       *)
(* printed is left out: the window reads it only for a file from recv.  A  *)
(* late child waits for a passphrase nobody will send it, unless its       *)
(* command reads none.                                                     *)
Run ==
  /\ \E c \in child :
       LET v == vault[c.drive] IN
       /\ c.phase = "running" \/ (c.phase = "late" /\ c.cmd = "init")
       /\ \/ /\ Works(c, v)
             /\ vault' = [vault EXCEPT ![c.drive] = After(c, v)]
             /\ minted' = IF c.cmd \in Rekeys THEN minted + 1 ELSE minted
             /\ \E ok \in BOOLEAN :
                  child' = {Ended(c, ok, Makes(c), IF ok THEN {Reply(c, v)} ELSE {})}
          \/ /\ child' = {Ended(c, FALSE, 0, {})}
             /\ UNCHANGED <<vault, minted>>
  /\ UNCHANGED <<window, dialog, seen, accepted, dropped, warned, closed, elsewhere>>

(* onOutput(): the pipe is read before finished() is emitted.              *)
Deliver ==
  /\ \E c \in child :
       /\ c.said # {}
       /\ window' = [window EXCEPT !.out = @ \cup c.said]
       /\ child' = {[c EXCEPT !.said = {}]}
  /\ UNCHANGED <<vault, dialog, seen, accepted, dropped, warned, minted, closed, elsewhere>>

-----------------------------------------------------------------------------
(* onFinished() and the dialogs.                                           *)

(* What a dialog about output that never arrived has to go by.             *)
Nothing(cmd) == [cmd |-> cmd, alias |-> None, print |-> 0, key |-> 0]

(* The dialog a finished command leads to.  A command that failed is       *)
(* reported as such, whatever it printed (the warning about a file that    *)
(* recv would not open is such a report).  A fingerprint is put up for     *)
(* consent only under the alias it was asked for; a structured result that *)
(* is missing is reported as such; a silent refresh shows nothing.         *)
DialogFor(w, ok) ==
  IF w.silent THEN {}
  ELSE IF ~ok THEN {[kind |-> "failed", of |-> Nothing(w.last)]}
  ELSE IF w.pending
  THEN {[kind |-> "consent", of |-> o] : o \in {x \in w.out : x.alias = w.alias}}
  ELSE IF w.out = {} /\ w.last \in Rekeys \cup {"recv"}
  THEN {[kind |-> "failed", of |-> Nothing(w.last)]}
  ELSE {[kind |-> "result",
         of |-> IF w.out = {} THEN Nothing(w.last) ELSE CHOOSE o \in w.out : TRUE]}

Finish ==
  /\ \E c \in child :
       LET up == DialogFor(window, c.ok) IN
       /\ c.phase = "exited" /\ c.said = {}
       /\ dialog' = up
       /\ seen' = seen \cup ({d.of.key : d \in up} \ {0})
       /\ warned' = warned \cup {c.made : d \in {x \in up : x.kind = "failed" /\ ~c.ok}}
       /\ window' =
            [Stale(window) EXCEPT
               !.unlocked = IF window.last = "unlock" THEN c.ok ELSE @,
               !.key = IF \E d \in up : d.kind = "result" /\ d.of.cmd = "passphrase"
                       THEN 0 ELSE @]
  /\ child' = {}
  /\ UNCHANGED <<vault, accepted, dropped, minted, closed, elsewhere>>

(* Closing a result: some commands refresh the contact list behind it.     *)
CloseDialog ==
  /\ \E d \in dialog :
       IF d.kind = "result" /\ d.of.cmd \in Refresh /\ window.unlocked
       THEN Launch(window, "contacts", None, 0, TRUE)
       ELSE UNCHANGED <<window, child, elsewhere>>
  /\ dialog' = {}
  /\ UNCHANGED <<vault, seen, accepted, dropped, warned, minted, closed>>

(* The user ticks the box: the fingerprint on screen goes back to the CLI. *)
Consent ==
  /\ \E d \in dialog :
       /\ d.kind = "consent"
       /\ accepted' = accepted \cup {<<d.of.alias, d.of.print>>}
       /\ Launch(window, "trust", d.of.alias, d.of.print, FALSE)
  /\ dialog' = {}
  /\ UNCHANGED <<vault, seen, dropped, warned, minted, closed>>

-----------------------------------------------------------------------------
(* The user and the world.                                                 *)

(* Boxes that stay usable while a command runs.                            *)
Edit ==
  /\ dialog = {} /\ ~closed
  /\ \/ \E k \in seen : window' = [window EXCEPT !.key = k]
     \/ \E d \in Drives : window' = [window EXCEPT !.drive = d]
  /\ UNCHANGED <<vault, child, dialog, seen, accepted, dropped, warned, minted, closed,
                 elsewhere>>

PrintedKeys(outs) == {o.key : o \in outs} \ {0}

(* doLock(): nothing asks whether a command is running.                    *)
Lock ==
  /\ dialog = {} /\ window.unlocked
  /\ window' = [window EXCEPT !.unlocked = FALSE, !.key = 0, !.out = {}]
  /\ dropped' = dropped \cup PrintedKeys(window.out)
  /\ UNCHANGED <<vault, child, dialog, seen, accepted, warned, minted, closed, elsewhere>>

(* The passphrases of commands that have run and are not yet dealt with.   *)
Unanswered == {c.made : c \in child} \ {0}

(* The window is closed, which kills the child.                            *)
CloseWindow ==
  /\ dialog = {} /\ ~closed
  /\ closed' = TRUE
  /\ child' = {} /\ window' = NewWindow(window.drive)
  /\ dropped' = dropped \cup Unanswered
  /\ UNCHANGED <<vault, dialog, seen, accepted, warned, minted, elsewhere>>

(* Another program imports a card for a contact.                           *)
Elsewhere ==
  /\ Mishap
  /\ \E d \in Drives, a \in Aliases, f \in Fingerprints :
       vault' = [vault EXCEPT ![d].print[a] = f, ![d].verified = @ \ {a}]
  /\ UNCHANGED <<child, window, dialog, seen, accepted, dropped, warned, minted, closed>>

Next ==
  \/ \E cmd \in Commands : Click(cmd)
  \/ Run \/ Deliver \/ Finish \/ CloseDialog \/ Consent
  \/ Edit \/ Lock \/ CloseWindow \/ Elsewhere

Spec == Init /\ [][Next]_vars

(* The child runs to its end and the event loop handles what it sends.     *)
FairSpec == Spec /\ WF_vars(Run) /\ WF_vars(Deliver) /\ WF_vars(Finish)

-----------------------------------------------------------------------------
(* Properties.                                                             *)

(* What handleFinished() goes by is about the child that runs, however     *)
(* often another command is asked for meanwhile: no output is taken for    *)
(* the answer to something else.                                           *)
ResultAttributed ==
  \A c \in child :
    /\ window.last = c.cmd
    /\ \A o \in window.out : o.cmd = c.cmd
    /\ window.pending <=> (c.cmd = "fingerprint")

(* A contact marked verified from here is one whose present fingerprint    *)
(* the user saw under that alias and accepted, whatever was imported, and  *)
(* whichever drive was chosen, in between.                                 *)
TrustWasConfirmed ==
  \A d \in Drives : \A a \in vault[d].verified :
    <<a, vault[d].print[a]>> \in accepted

(* A passphrase a vault needs was on the screen, or the command that made  *)
(* it has not been dealt with, or has been reported to the user as failed, *)
(* unless the user locked or closed the window before the answer was in:   *)
(* what a command that succeeded answers is never lost to another command, *)
(* and one that changes the vault and then fails is never passed over.     *)
NewPhraseShown ==
  \A d \in Drives :
    vault[d].phrase \in seen \cup warned \cup dropped \cup Unanswered

(* A command that was started is answered, and the buttons come back.      *)
Answered ==
  (\E c \in child : c.phase # "late" \/ c.cmd = "init") ~> (child = {} /\ ~window.busy)
=============================================================================
