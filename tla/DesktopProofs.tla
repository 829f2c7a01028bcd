----------------------------- MODULE DesktopProofs ----------------------------
(***************************************************************************)
(* Theorems about Desktop, for any drives, contacts and fingerprints and   *)
(* any number of new passphrases and mishaps: type correctness, that an    *)
(* answer is taken for what it is, that only what the user confirmed is    *)
(* trusted, and that a new passphrase is shown, or its command's failure.  *)
(***************************************************************************)
EXTENDS Desktop, TLAPS

Named == {"fingerprint", "trust", "add", "remove"}

(* What was printed and not yet put on the screen.                         *)
Unseen == window.out \cup UNION {c.said : c \in child}

(* A fingerprint that is printed is that of a contact, and only commands   *)
(* that make a passphrase print one.                                       *)
Sound(o) ==
  /\ o.cmd = "fingerprint" => o.alias \in Aliases /\ o.print # 0
  /\ o.cmd \notin Rekeys => o.key = 0

(* The child, and what the window expects of it.                           *)
Served(c) ==
  /\ window.last = c.cmd /\ window.pending = (c.cmd = "fingerprint")
  /\ c.cmd \in Named => c.alias \in Aliases
  /\ c.cmd = "trust" /\ c.phase # "exited" => <<c.alias, c.print>> \in accepted
  /\ \A o \in Unseen : o.cmd = c.cmd /\ Sound(o)
  /\ Unseen # {} => c.phase = "exited" /\ c.ok
  /\ \A o, x \in Unseen : o = x
  /\ c.made # 0 => c.phase = "exited" /\ c.cmd \in Rekeys
  /\ c.made # 0 /\ c.ok => c.made \in dropped \cup PrintedKeys(Unseen)

(* A child that is gone has left nothing unread, and a consent dialog is   *)
(* about a contact's fingerprint.                                          *)
Orderly ==
  /\ \A c \in child : Served(c)
  /\ child = {} => window.out = {}
  /\ window.silent => window.last = "contacts"
  /\ \A d \in dialog :
       d.kind = "consent" => d.of.alias \in Aliases /\ d.of.print # 0

DesktopInv == TypeOK /\ Orderly /\ TrustWasConfirmed /\ NewPhraseShown

-----------------------------------------------------------------------------
(* The window's members, one by one.                                       *)

LEMMA ExpectingSets ==
  ASSUME NEW w \in Window, NEW cmd \in Commands, NEW alias \in Alias, NEW silent \in BOOLEAN
  PROVE  LET x == Expecting(w, cmd, alias, silent)
         IN  /\ x \in Window /\ x.last = cmd /\ x.silent = silent /\ x.out = {}
             /\ x.pending = (cmd = "fingerprint")
BY DEF Expecting, Window

LEMMA StaleClears ==
  ASSUME NEW w \in Window
  PROVE  /\ Stale(w) \in Window /\ Stale(w).out = {} /\ Stale(w).silent = FALSE
         /\ Stale(w).last = "unlock"
BY DEF Stale, Window, Commands, Alias

LEMMA RefusedKeeps ==
  ASSUME NEW w \in Window, NEW cmd, NEW alias \in Alias
  PROVE  LET x == Refused(w, cmd, alias)
         IN  /\ x \in Window /\ x.last = w.last /\ x.silent = w.silent
             /\ x.out = w.out /\ x.pending = w.pending
BY DEF Refused, Window

LEMMA NewChildIs ==
  ASSUME NEW w \in Window, NEW cmd \in Commands, NEW alias \in Alias, NEW print \in Prints,
         NEW phase \in {"late", "running"}
  PROVE  LET c == NewChild(w, cmd, alias, print, phase)
         IN  /\ c \in Child /\ c.cmd = cmd /\ c.alias = alias /\ c.print = print
             /\ c.said = {} /\ c.made = 0 /\ c.phase = phase
BY DesktopAssumption DEF NewChild, Window, Child, Phrase

(* Whether or not the command starts, what the window goes by is about the *)
(* child there is, and nothing unread is lost.                             *)
LEMMA LaunchServes ==
  ASSUME TypeOK, Orderly, NEW cmd \in Commands, NEW alias \in Alias, NEW print \in Prints,
         NEW silent \in BOOLEAN, silent => cmd = "contacts",
         cmd \in Named => alias \in Aliases,
         accepted \subseteq accepted', dropped' = dropped,
         cmd = "trust" => <<alias, print>> \in accepted',
         Launch(window, cmd, alias, print, silent)
  PROVE  /\ window' \in Window /\ child' \subseteq Child
         /\ \A x, y \in child' : x = y
         /\ elsewhere' \in 0 .. MaxElsewhere
         /\ \A c \in child' : Served(c)'
         /\ child' = {} => window'.out = {}
         /\ window'.silent => window'.last = "contacts"
         /\ Unseen' = Unseen /\ Unanswered' = Unanswered
  <1>1. /\ window \in Window /\ child \subseteq Child /\ \A x, y \in child : x = y
        /\ elsewhere \in 0 .. MaxElsewhere /\ MaxElsewhere \in Nat
    BY DesktopAssumption DEF TypeOK
  <1>2. CASE ~Idle
    <2>1. window' = Refused(window, cmd, alias) /\ UNCHANGED <<child, elsewhere>>
      BY <1>2 DEF Launch, Unknown
    <2>2. /\ window' \in Window /\ window'.last = window.last /\ window'.out = window.out
          /\ window'.silent = window.silent /\ window'.pending = window.pending
      BY <1>1, <2>1, RefusedKeeps
    <2>3. Unseen' = Unseen /\ Unanswered' = Unanswered
      BY <2>1, <2>2 DEF Unseen, Unanswered
    <2>4. \A c \in child' : Served(c)'
      BY <2>1, <2>2, <2>3 DEF Orderly, Served, PrintedKeys
    <2> QED BY <1>1, <2>1, <2>2, <2>3, <2>4 DEF Orderly
  <1>3. CASE Idle
    <2> DEFINE x == Expecting(window, cmd, alias, silent)
    <2>1. /\ x \in Window /\ x.last = cmd /\ x.silent = silent /\ x.out = {}
          /\ x.pending = (cmd = "fingerprint")
      BY <1>1, ExpectingSets
    <2>2. child = {} /\ window.out = {} /\ Unseen = {} /\ Unanswered = {}
      BY <1>3 DEF Idle, Orderly, Unseen, Unanswered
    <2>3. ASSUME NEW phase \in {"late", "running"}, NEW w \in Window,
                 w.last = cmd, w.silent = silent, w.out = {},
                 w.pending = (cmd = "fingerprint"), window' = w,
                 child' = child \cup {NewChild(window, cmd, alias, print, phase)},
                 elsewhere' \in 0 .. MaxElsewhere
          PROVE  /\ window' \in Window /\ child' \subseteq Child
                 /\ \A a, b \in child' : a = b
                 /\ elsewhere' \in 0 .. MaxElsewhere
                 /\ \A c \in child' : Served(c)'
                 /\ child' = {} => window'.out = {}
                 /\ window'.silent => window'.last = "contacts"
                 /\ Unseen' = Unseen /\ Unanswered' = Unanswered
      <3> DEFINE n == NewChild(window, cmd, alias, print, phase)
      <3>1. /\ n \in Child /\ n.cmd = cmd /\ n.alias = alias /\ n.print = print
            /\ n.said = {} /\ n.made = 0 /\ n.phase # "exited"
        BY <1>1, NewChildIs
      <3>2. child' = {n}
        BY <2>2, <2>3
      <3> HIDE DEF n
      <3>3. Unseen' = {} /\ Unanswered' = {}
        BY <2>3, <3>1, <3>2 DEF Unseen, Unanswered
      <3>4. ASSUME NEW c \in child' PROVE Served(c)'
        BY <2>3, <3>1, <3>2, <3>3 DEF Served
      <3> QED BY <2>2, <2>3, <3>1, <3>2, <3>3, <3>4
    <2>4. CASE window' = Stale(x) /\ UNCHANGED child /\ Mishap
      <3>1. window' \in Window /\ window'.out = {} /\ window'.silent = FALSE
        BY <2>1, <2>4, StaleClears
      <3>2. Unseen' = {} /\ child' = {} /\ Unanswered' = {}
        BY <2>2, <2>4, <3>1 DEF Unseen, Unanswered
      <3>3. elsewhere' \in 0 .. MaxElsewhere
        BY <1>1, <2>4 DEF Mishap
      <3> QED BY <2>2, <3>1, <3>2, <3>3
    <2>5. CASE /\ window' = [x EXCEPT !.busy = TRUE] /\ Unknown
               /\ child' = child \cup {NewChild(window, cmd, alias, print, "running")}
      <3> DEFINE w == [x EXCEPT !.busy = TRUE]
      <3> HIDE DEF x
      <3>1. /\ w \in Window /\ w.last = cmd /\ w.silent = silent /\ w.out = {}
            /\ w.pending = (cmd = "fingerprint")
        BY <2>1 DEF Window
      <3>2. elsewhere' \in 0 .. MaxElsewhere
        BY <1>1, <2>5 DEF Unknown
      <3> HIDE DEF w
      <3>3. window' = w
        BY <2>5 DEF w
      <3> QED BY <2>3, <2>5, <3>1, <3>2, <3>3
    <2>6. CASE /\ window' = x /\ Mishap
               /\ child' = child \cup {NewChild(window, cmd, alias, print, "late")}
      <3>1. elsewhere' \in 0 .. MaxElsewhere
        BY <1>1, <2>6 DEF Mishap
      <3> HIDE DEF x
      <3> QED BY <2>1, <2>3, <2>6, <3>1
    <2> QED BY <1>3, <2>4, <2>5, <2>6 DEF Launch
  <1> QED BY <1>2, <1>3

(* The facts every step keeps of what it does not touch.                   *)
LEMMA NothingLost ==
  ASSUME NewPhraseShown, \A d \in Drives : vault'[d].phrase = vault[d].phrase,
         seen \subseteq seen', warned \subseteq warned', dropped \subseteq dropped',
         Unanswered \subseteq seen' \cup warned' \cup dropped' \cup Unanswered'
  PROVE  NewPhraseShown'
BY DEF NewPhraseShown

(* A step that at most launches a command.                                 *)
LEMMA LaunchKeeps ==
  ASSUME DesktopInv, NEW cmd \in Commands, NEW alias \in Alias, NEW print \in Prints,
         NEW silent \in BOOLEAN, silent => cmd = "contacts",
         cmd \in Named => alias \in Aliases,
         accepted \subseteq accepted', accepted' \subseteq Aliases \X Fingerprints,
         cmd = "trust" => <<alias, print>> \in accepted',
         Launch(window, cmd, alias, print, silent),
         dialog' \subseteq dialog, UNCHANGED <<vault, seen, dropped, warned, minted, closed>>
  PROVE  DesktopInv'
  <1>1. /\ window' \in Window /\ child' \subseteq Child
        /\ \A x, y \in child' : x = y
        /\ elsewhere' \in 0 .. MaxElsewhere
        /\ \A c \in child' : Served(c)'
        /\ child' = {} => window'.out = {}
        /\ window'.silent => window'.last = "contacts"
        /\ Unseen' = Unseen /\ Unanswered' = Unanswered
    BY LaunchServes DEF DesktopInv
  <1>2. TypeOK'
    BY <1>1 DEF DesktopInv, TypeOK
  <1>3. Orderly'
    BY <1>1 DEF DesktopInv, Orderly
  <1>4. TrustWasConfirmed'
    BY DEF DesktopInv, TrustWasConfirmed
  <1>5. NewPhraseShown'
    BY <1>1, NothingLost DEF DesktopInv
  <1> QED BY <1>2, <1>3, <1>4, <1>5 DEF DesktopInv

LEMMA ClickKeeps ==
  ASSUME DesktopInv, NEW cmd \in Commands, Click(cmd)
  PROVE  DesktopInv'
  <1>1. PICK a \in IF cmd \in {"fingerprint", "add", "remove"} THEN Aliases ELSE {None},
             f \in IF cmd = "add" THEN Fingerprints ELSE {0} :
          Launch(window, cmd, a, f, FALSE)
    BY DEF Click
  <1>2. a \in Alias /\ f \in Prints /\ cmd # "trust" /\ (cmd \in Named => a \in Aliases)
    BY <1>1 DEF Click, Alias, Prints, Named
  <1>3. UNCHANGED <<vault, dialog, seen, accepted, dropped, warned, minted, closed>>
    BY DEF Click
  <1>4. accepted \subseteq Aliases \X Fingerprints
    BY DEF DesktopInv, TypeOK
  <1> QED BY <1>1, <1>2, <1>3, <1>4, LaunchKeeps

LEMMA CloseDialogKeeps ==
  ASSUME DesktopInv, CloseDialog
  PROVE  DesktopInv'
  <1>1. PICK d \in dialog :
          IF d.kind = "result" /\ d.of.cmd \in Refresh /\ window.unlocked
          THEN Launch(window, "contacts", None, 0, TRUE)
          ELSE UNCHANGED <<window, child, elsewhere>>
    BY DEF CloseDialog
  <1>2. dialog' = {} /\ UNCHANGED <<vault, seen, accepted, dropped, warned, minted, closed>>
    BY DEF CloseDialog
  <1>3. CASE Launch(window, "contacts", None, 0, TRUE)
    <2>1. accepted \subseteq Aliases \X Fingerprints
      BY DEF DesktopInv, TypeOK
    <2>2. "contacts" \in Commands /\ None \in Alias /\ 0 \in Prints /\ "contacts" \notin Named
      BY DEF Commands, Alias, Prints, Named
    <2> QED BY <1>2, <1>3, <2>1, <2>2, LaunchKeeps
  <1>4. CASE UNCHANGED <<window, child, elsewhere>>
    BY <1>2, <1>4 DEF DesktopInv, TypeOK, Orderly, Served, Unseen, TrustWasConfirmed,
       NewPhraseShown, PrintedKeys, Unanswered
  <1> QED BY <1>1, <1>3, <1>4

LEMMA ConsentKeeps ==
  ASSUME DesktopInv, Consent
  PROVE  DesktopInv'
  <1>1. PICK d \in dialog :
          /\ d.kind = "consent"
          /\ accepted' = accepted \cup {<<d.of.alias, d.of.print>>}
          /\ Launch(window, "trust", d.of.alias, d.of.print, FALSE)
    BY DEF Consent
  <1>2. dialog' = {} /\ UNCHANGED <<vault, seen, dropped, warned, minted, closed>>
    BY DEF Consent
  <1>3. d.of.alias \in Aliases /\ d.of.print \in Fingerprints
    <2>1. d.of.alias \in Aliases /\ d.of.print # 0
      BY <1>1 DEF DesktopInv, Orderly
    <2>2. d.of.print \in Prints
      BY DEF DesktopInv, TypeOK, Dialog, Output
    <2> QED BY <2>1, <2>2 DEF Prints
  <1>4. /\ d.of.alias \in Alias /\ d.of.print \in Prints /\ "trust" \in Commands
        /\ accepted \subseteq accepted' /\ accepted' \subseteq Aliases \X Fingerprints
    BY <1>1, <1>3 DEF DesktopInv, TypeOK, Alias, Prints, Commands
  <1> QED BY <1>1, <1>2, <1>3, <1>4, LaunchKeeps

-----------------------------------------------------------------------------
(* The window and the world.                                               *)

(* A step that leaves the child and the contacts alone.                    *)
LEMMA WindowKeeps ==
  ASSUME DesktopInv, NEW w \in Window, window' = w, w.out = window.out,
         w.last = window.last, w.silent = window.silent, w.pending = window.pending,
         UNCHANGED <<vault, child, dialog, seen, accepted, dropped, warned, minted, closed, elsewhere>>
  PROVE  DesktopInv'
  <1>1. TypeOK'
    BY DEF DesktopInv, TypeOK
  <1>2. Unseen' = Unseen /\ Unanswered' = Unanswered
    BY DEF Unseen, Unanswered
  <1>3. Orderly'
    BY <1>2 DEF DesktopInv, Orderly, Served, PrintedKeys
  <1>4. TrustWasConfirmed'
    BY DEF DesktopInv, TrustWasConfirmed
  <1>5. NewPhraseShown'
    BY <1>2, NothingLost DEF DesktopInv
  <1> QED BY <1>1, <1>3, <1>4, <1>5 DEF DesktopInv

LEMMA EditKeeps == ASSUME DesktopInv, Edit PROVE DesktopInv'
  <1>1. window \in Window /\ seen \subseteq Phrase
    BY DEF DesktopInv, TypeOK
  <1>2. CASE \E k \in seen : window' = [window EXCEPT !.key = k]
    <2>1. PICK k \in seen : window' = [window EXCEPT !.key = k]
      BY <1>2
    <2> DEFINE w == [window EXCEPT !.key = k]
    <2>2. /\ w \in Window /\ w.out = window.out /\ w.last = window.last
          /\ w.silent = window.silent /\ w.pending = window.pending
      BY <1>1 DEF Window
    <2> HIDE DEF w
    <2>3. window' = w
      BY <2>1 DEF w
    <2> QED BY <2>2, <2>3, WindowKeeps DEF Edit
  <1>3. CASE \E d \in Drives : window' = [window EXCEPT !.drive = d]
    <2>1. PICK d \in Drives : window' = [window EXCEPT !.drive = d]
      BY <1>3
    <2> DEFINE w == [window EXCEPT !.drive = d]
    <2>2. /\ w \in Window /\ w.out = window.out /\ w.last = window.last
          /\ w.silent = window.silent /\ w.pending = window.pending
      BY <1>1 DEF Window
    <2> HIDE DEF w
    <2>3. window' = w
      BY <2>1 DEF w
    <2> QED BY <2>2, <2>3, WindowKeeps DEF Edit
  <1> QED BY <1>2, <1>3 DEF Edit

(* A locked window has thrown away what it had not shown.                  *)
LEMMA LockKeeps == ASSUME DesktopInv, Lock PROVE DesktopInv'
  <1> DEFINE w == [window EXCEPT !.unlocked = FALSE, !.key = 0, !.out = {}]
  <1>1. window \in Window /\ \A o \in window.out : o.key \in Phrase
    BY DEF DesktopInv, TypeOK, Window, Output
  <1>2. /\ w \in Window /\ w.out = {} /\ w.last = window.last
        /\ w.silent = window.silent /\ w.pending = window.pending
    <2>1. 0 \in Phrase
      BY DesktopAssumption DEF Phrase
    <2> QED BY <1>1, <2>1 DEF Window
  <1> HIDE DEF w
  <1>3. /\ window' = w /\ dropped' = dropped \cup PrintedKeys(window.out)
        /\ UNCHANGED <<vault, child, dialog, seen, accepted, warned, minted, closed, elsewhere>>
    BY DEF Lock, w
  <1>4. TypeOK'
    BY <1>1, <1>2, <1>3 DEF DesktopInv, TypeOK, PrintedKeys
  <1>5. Unseen' \subseteq Unseen /\ Unseen \subseteq window.out \cup Unseen'
    BY <1>2, <1>3 DEF Unseen
  <1>6. Orderly'
    BY <1>2, <1>3, <1>5 DEF DesktopInv, Orderly, Served, PrintedKeys
  <1>7. TrustWasConfirmed'
    BY <1>3 DEF DesktopInv, TrustWasConfirmed
  <1>8. NewPhraseShown'
    BY <1>3, NothingLost DEF DesktopInv, Unanswered
  <1> QED BY <1>4, <1>6, <1>7, <1>8 DEF DesktopInv

LEMMA CloseWindowKeeps == ASSUME DesktopInv, CloseWindow PROVE DesktopInv'
  <1>1. /\ window' = NewWindow(window.drive) /\ child' = {} /\ closed' = TRUE
        /\ dropped' = dropped \cup Unanswered
        /\ UNCHANGED <<vault, dialog, seen, accepted, warned, minted, elsewhere>>
    BY DEF CloseWindow
  <1>2. window' \in Window /\ window'.out = {} /\ window'.silent = FALSE
    <2>1. window.drive \in Drives /\ 0 \in Phrase /\ MaxPhrase \in Nat
      BY DesktopAssumption DEF DesktopInv, TypeOK, Window, Phrase
    <2> QED BY <1>1, <2>1 DEF NewWindow, Window, Commands, Alias
  <1>3. Unanswered \subseteq Phrase
    BY DEF DesktopInv, TypeOK, Unanswered, Child
  <1>4. TypeOK'
    BY <1>1, <1>2, <1>3 DEF DesktopInv, TypeOK
  <1>5. Orderly'
    BY <1>1, <1>2 DEF DesktopInv, Orderly
  <1>6. TrustWasConfirmed'
    BY <1>1 DEF DesktopInv, TrustWasConfirmed
  <1>7. NewPhraseShown'
    BY <1>1, NothingLost DEF DesktopInv
  <1> QED BY <1>4, <1>5, <1>6, <1>7 DEF DesktopInv

VaultRecord == [phrase : Phrase, print : [Aliases -> Prints], verified : SUBSET Aliases]

(* Whoever imports a card unmarks the contact.                             *)
LEMMA ElsewhereKeeps == ASSUME DesktopInv, Elsewhere PROVE DesktopInv'
  <1>1. PICK d \in Drives, a \in Aliases, f \in Fingerprints :
          vault' = [vault EXCEPT ![d].print[a] = f, ![d].verified = @ \ {a}]
    BY DEF Elsewhere
  <1>2. /\ elsewhere' \in 0 .. MaxElsewhere
        /\ UNCHANGED <<child, window, dialog, seen, accepted, dropped, warned, minted, closed>>
    BY DesktopAssumption DEF Elsewhere, Mishap, DesktopInv, TypeOK
  <1>3. vault \in [Drives -> VaultRecord] /\ f \in Prints
    BY DEF DesktopInv, TypeOK, VaultRecord, Prints
  <1> DEFINE v == vault[d]
             x == [v EXCEPT !.print[a] = f, !.verified = @ \ {a}]
  <1>4. v \in VaultRecord
    BY <1>3
  <1>5. vault' = [vault EXCEPT ![d] = x]
    BY <1>1, <1>3 DEF VaultRecord
  <1> HIDE DEF v
  <1>6. /\ x \in VaultRecord /\ x.phrase = v.phrase /\ x.verified = v.verified \ {a}
        /\ \A b \in Aliases : b # a => x.print[b] = v.print[b]
    BY <1>3, <1>4 DEF VaultRecord
  <1> HIDE DEF x
  <1>7. /\ vault' \in [Drives -> VaultRecord]
        /\ \A e \in Drives : vault'[e] = IF e = d THEN x ELSE vault[e]
    BY <1>3, <1>5, <1>6
  <1>8. TypeOK'
    BY <1>2, <1>7 DEF DesktopInv, TypeOK, VaultRecord
  <1>9. Unseen' = Unseen /\ Unanswered' = Unanswered
    BY <1>2 DEF Unseen, Unanswered
  <1>10. Orderly'
    BY <1>2, <1>9 DEF DesktopInv, Orderly, Served, PrintedKeys
  <1>11. TrustWasConfirmed'
    <2> SUFFICES ASSUME NEW e \in Drives, NEW b \in vault'[e].verified
                 PROVE  <<b, vault'[e].print[b]>> \in accepted
      BY <1>2 DEF TrustWasConfirmed
    <2>1. CASE e = d
      <3>1. b \in v.verified /\ b # a /\ b \in Aliases
        BY <1>4, <1>6, <1>7, <2>1 DEF VaultRecord
      <3>2. vault'[e].print[b] = v.print[b]
        BY <1>6, <1>7, <2>1, <3>1
      <3> QED BY <3>1, <3>2 DEF DesktopInv, TrustWasConfirmed, v
    <2>2. CASE e # d
      BY <1>7, <2>2 DEF DesktopInv, TrustWasConfirmed
    <2> QED BY <2>1, <2>2
  <1>12. NewPhraseShown'
    <2>1. \A e \in Drives : vault'[e].phrase = vault[e].phrase
      BY <1>6, <1>7 DEF v
    <2> QED BY <1>2, <1>9, <2>1, NothingLost DEF DesktopInv
  <1> QED BY <1>8, <1>10, <1>11, <1>12 DEF DesktopInv

-----------------------------------------------------------------------------
(* The child's own steps.                                                  *)

(* What a command may do to a vault: a contact it marks was confirmed, and *)
(* a passphrase it makes is printed.                                       *)
LEMMA WorksAfter ==
  ASSUME NEW c \in Child, NEW v \in VaultRecord, minted \in Phrase, Works(c, v),
         c.cmd \in Named => c.alias \in Aliases,
         c.cmd = "trust" => <<c.alias, c.print>> \in accepted
  PROVE  LET x == After(c, v)
             r == Reply(c, v)
         IN  /\ x \in VaultRecord
             /\ \A b \in x.verified :
                  (b \in v.verified /\ x.print[b] = v.print[b]) \/ <<b, x.print[b]>> \in accepted
             /\ r.key = Makes(c) /\ Makes(c) \in Phrase
             /\ IF c.cmd \in Rekeys THEN x.phrase = Makes(c) /\ Makes(c) # 0
                ELSE x.phrase = v.phrase /\ Makes(c) = 0
             /\ r \in Output /\ r.cmd = c.cmd /\ Sound(r)
             /\ (IF c.cmd \in Rekeys THEN minted + 1 ELSE minted) \in Phrase
  <1> DEFINE x == After(c, v)
             r == Reply(c, v)
  <1>1. /\ c.cmd \in Commands /\ c.alias \in Alias /\ c.print \in Prints
        /\ v.phrase \in Phrase /\ v.print \in [Aliases -> Prints]
        /\ v.verified \subseteq Aliases /\ MaxPhrase \in Nat /\ minted \in Nat
        /\ 0 \in Phrase /\ 0 \in Prints
    BY DesktopAssumption DEF Child, VaultRecord, Phrase, Prints
  <1>2. c.cmd \in Rekeys => minted + 1 \in Phrase /\ minted + 1 # 0
    BY <1>1 DEF Works, Phrase
  <1>3. c.cmd = "fingerprint" => v.print[c.alias] \in Prints /\ v.print[c.alias] # 0
    BY <1>1 DEF Works, Named
  <1>4. /\ r.cmd = c.cmd /\ r.alias = IF c.cmd = "fingerprint" THEN c.alias ELSE None
        /\ r.print = IF c.cmd = "fingerprint" THEN v.print[c.alias] ELSE 0
        /\ r.key = Makes(c)
        /\ r = [cmd |-> r.cmd, key |-> r.key, alias |-> r.alias, print |-> r.print]
    BY DEF Reply
  <1>7. Makes(c) = IF c.cmd \in Rekeys THEN minted + 1 ELSE 0
    BY DEF Makes
  <1> HIDE DEF r
  <1>5. r \in Output /\ r.cmd = c.cmd /\ Sound(r)
    <2>1. r.print \in Prints /\ r.key \in Phrase /\ r.alias \in Alias
      BY <1>1, <1>2, <1>3, <1>4, <1>7 DEF Alias
    <2>2. r \in Output
      BY <1>1, <1>4, <2>1 DEF Output
    <2>3. Sound(r)
      BY <1>3, <1>4, <1>7 DEF Sound, Named
    <2> QED BY <1>4, <2>2, <2>3
  <1>6. /\ x \in VaultRecord
        /\ \A b \in x.verified :
             (b \in v.verified /\ x.print[b] = v.print[b]) \/ <<b, x.print[b]>> \in accepted
        /\ IF c.cmd \in Rekeys THEN x.phrase = minted + 1 ELSE x.phrase = v.phrase
    <2>1. CASE c.cmd = "init"
      <3>1. /\ x.phrase = minted + 1 /\ x.verified = {}
            /\ x = [phrase |-> minted + 1, verified |-> {}, print |-> [a \in Aliases |-> 0]]
        BY <2>1 DEF After
      <3>2. x \in VaultRecord
        BY <1>1, <1>2, <2>1, <3>1 DEF VaultRecord, Rekeys
      <3> QED BY <2>1, <3>1, <3>2 DEF Rekeys
    <2>2. CASE c.cmd = "passphrase"
      <3>1. x = [v EXCEPT !.phrase = minted + 1]
        BY <2>2 DEF After
      <3>2. minted + 1 \in Phrase
        BY <1>2, <2>2 DEF Rekeys
      <3> QED BY <2>2, <3>1, <3>2 DEF VaultRecord, Rekeys
    <2>3. CASE c.cmd = "trust"
      <3>1. x = [v EXCEPT !.verified = @ \cup {c.alias}]
        BY <2>3 DEF After
      <3>2. c.alias \in Aliases /\ <<c.alias, v.print[c.alias]>> \in accepted
        BY <2>3 DEF Works, Trusts, Named
      <3>3. x \in VaultRecord /\ x.phrase = v.phrase /\ x.print = v.print
            /\ x.verified = v.verified \cup {c.alias}
        BY <3>1, <3>2 DEF VaultRecord
      <3> QED BY <2>3, <3>2, <3>3 DEF Rekeys
    <2>4. CASE c.cmd \in {"add", "remove"}
      <3>1. x = [v EXCEPT !.print[c.alias] = c.print, !.verified = @ \ {c.alias}]
        BY <2>4 DEF After
      <3>2. c.alias \in Aliases
        BY <2>4 DEF Named
      <3>3. /\ x \in VaultRecord /\ x.phrase = v.phrase
            /\ x.verified = v.verified \ {c.alias}
            /\ \A b \in Aliases : b # c.alias => x.print[b] = v.print[b]
        BY <1>1, <3>1, <3>2 DEF VaultRecord
      <3> QED BY <1>1, <2>4, <3>3 DEF Rekeys
    <2>5. CASE c.cmd \notin {"init", "passphrase", "trust", "add", "remove"}
      BY <2>5 DEF After, Rekeys
    <2> QED BY <2>1, <2>2, <2>3, <2>4, <2>5
  <1> QED BY <1>1, <1>2, <1>4, <1>5, <1>6, <1>7 DEF r

LEMMA EndedIs ==
  ASSUME NEW c \in Child, NEW ok \in BOOLEAN, NEW made \in Phrase, NEW said \in SUBSET Output
  PROVE  LET n == Ended(c, ok, made, said)
         IN  /\ n \in Child /\ n.phase = "exited" /\ n.ok = ok /\ n.made = made
             /\ n.said = said /\ n.cmd = c.cmd /\ n.alias = c.alias
  <1>1. 0 \in Phrase /\ 0 \in Prints
    BY DesktopAssumption DEF Phrase, Prints
  <1> QED BY <1>1 DEF Ended, Child

LEMMA RunKeeps == ASSUME DesktopInv, Run PROVE DesktopInv'
  <1>1. PICK c \in child :
          /\ c.phase = "running" \/ (c.phase = "late" /\ c.cmd = "init")
          /\ \/ /\ Works(c, vault[c.drive])
                /\ vault' = [vault EXCEPT ![c.drive] = After(c, vault[c.drive])]
                /\ minted' = IF c.cmd \in Rekeys THEN minted + 1 ELSE minted
                /\ \E ok \in BOOLEAN :
                     child' = {Ended(c, ok, Makes(c),
                                     IF ok THEN {Reply(c, vault[c.drive])} ELSE {})}
             \/ /\ child' = {Ended(c, FALSE, 0, {})}
                /\ UNCHANGED <<vault, minted>>
    BY DEF Run
  <1>2. UNCHANGED <<window, dialog, seen, accepted, dropped, warned, closed, elsewhere>>
    BY DEF Run
  <1>3. /\ vault \in [Drives -> VaultRecord] /\ c \in Child /\ c.drive \in Drives
        /\ minted \in Phrase /\ window.out \subseteq Output /\ 0 \in Phrase
    BY DesktopAssumption DEF DesktopInv, TypeOK, VaultRecord, Child, Window, Phrase
  <1>4. Served(c) /\ Unseen = {} /\ c.made = 0
    BY <1>1 DEF DesktopInv, Orderly, Served
  <1>5. window.out = {} /\ c.said = {} /\ child = {c} /\ Unanswered = {}
    <2>1. window.out \subseteq Unseen /\ c.said \subseteq Unseen
      BY DEF Unseen
    <2> QED BY <1>4, <2>1 DEF DesktopInv, TypeOK, Unanswered
  <1> DEFINE v == vault[c.drive]
             x == After(c, v)
             r == Reply(c, v)
  <1>6. CASE /\ Works(c, v)
             /\ vault' = [vault EXCEPT ![c.drive] = x]
             /\ minted' = IF c.cmd \in Rekeys THEN minted + 1 ELSE minted
             /\ \E ok \in BOOLEAN :
                  child' = {Ended(c, ok, Makes(c), IF ok THEN {r} ELSE {})}
    <2>1. /\ x \in VaultRecord
          /\ \A b \in x.verified :
               (b \in v.verified /\ x.print[b] = v.print[b]) \/ <<b, x.print[b]>> \in accepted
          /\ r.key = Makes(c) /\ Makes(c) \in Phrase
          /\ IF c.cmd \in Rekeys THEN x.phrase = Makes(c) /\ Makes(c) # 0
             ELSE x.phrase = v.phrase /\ Makes(c) = 0
          /\ r \in Output /\ r.cmd = c.cmd /\ Sound(r) /\ minted' \in Phrase
      BY <1>1, <1>3, <1>4, <1>6, WorksAfter DEF Served
    <2> HIDE DEF x, r
    <2>2. PICK ok \in BOOLEAN : child' = {Ended(c, ok, Makes(c), IF ok THEN {r} ELSE {})}
      BY <1>6
    <2> DEFINE said == IF ok THEN {r} ELSE {}
               n == Ended(c, ok, Makes(c), said)
    <2>3. /\ n \in Child /\ n.phase = "exited" /\ n.ok = ok /\ n.made = Makes(c)
          /\ n.said = said /\ n.cmd = c.cmd /\ n.alias = c.alias
      <3>1. said \in SUBSET Output
        BY <2>1
      <3> HIDE DEF said
      <3> QED BY <1>3, <2>1, <3>1, EndedIs
    <2>4. child' = {n}
      BY <2>2
    <2> HIDE DEF n
    <2>5. vault' \in [Drives -> VaultRecord]
          /\ \A e \in Drives : vault'[e] = IF e = c.drive THEN x ELSE vault[e]
      BY <1>3, <1>6, <2>1
    <2>6. TypeOK'
      BY <1>2, <2>1, <2>3, <2>4, <2>5 DEF DesktopInv, TypeOK, VaultRecord
    <2>7. Unseen' = said /\ Unanswered' = {Makes(c)} \ {0}
      BY <1>2, <1>5, <2>3, <2>4 DEF Unseen, Unanswered
    <2>8. Orderly'
      <3>1. ASSUME NEW k \in child' PROVE Served(k)'
        <4>1. ok => r.key = Makes(c) /\ (Makes(c) # 0 => Makes(c) \in PrintedKeys(said))
          BY <2>1 DEF PrintedKeys
        <4>2. PrintedKeys(Unseen)' = PrintedKeys(said)
          BY <2>7 DEF PrintedKeys
        <4> QED BY <1>2, <1>4, <2>1, <2>3, <2>4, <2>7, <3>1, <4>1, <4>2 DEF Served
      <3> QED BY <1>2, <2>4, <3>1 DEF DesktopInv, Orderly
    <2>9. TrustWasConfirmed'
      <3> SUFFICES ASSUME NEW e \in Drives, NEW b \in vault'[e].verified
                   PROVE  <<b, vault'[e].print[b]>> \in accepted
        BY <1>2 DEF TrustWasConfirmed
      <3>1. \A u \in vault[e].verified : <<u, vault[e].print[u]>> \in accepted
        BY DEF DesktopInv, TrustWasConfirmed
      <3> QED BY <2>1, <2>5, <3>1
    <2>10. NewPhraseShown'
      <3> SUFFICES ASSUME NEW e \in Drives
                   PROVE  vault'[e].phrase \in seen \cup warned \cup dropped
                                                 \cup ({Makes(c)} \ {0})
        BY <1>2, <2>7 DEF NewPhraseShown
      <3>1. vault[e].phrase \in seen \cup warned \cup dropped
        BY <1>5 DEF DesktopInv, NewPhraseShown
      <3> QED BY <2>1, <2>5, <3>1
    <2> QED BY <2>6, <2>8, <2>9, <2>10 DEF DesktopInv
  <1>7. CASE child' = {Ended(c, FALSE, 0, {})} /\ UNCHANGED <<vault, minted>>
    <2> DEFINE n == Ended(c, FALSE, 0, {})
    <2>1. /\ n \in Child /\ n.phase = "exited" /\ n.said = {} /\ n.made = 0
          /\ n.cmd = c.cmd /\ n.alias = c.alias
      <3>1. \A ok \in BOOLEAN, made \in Phrase, said \in SUBSET Output :
              LET m == Ended(c, ok, made, said)
              IN  /\ m \in Child /\ m.phase = "exited" /\ m.said = said /\ m.made = made
                  /\ m.cmd = c.cmd /\ m.alias = c.alias
        BY <1>3, EndedIs
      <3>2. FALSE \in BOOLEAN /\ {} \in SUBSET Output
        OBVIOUS
      <3> QED BY <1>3, <3>1, <3>2, Zenon
    <2>2. child' = {n}
      BY <1>7
    <2> HIDE DEF n
    <2>3. Unseen' = {} /\ Unanswered' = {}
      BY <1>2, <1>5, <2>1, <2>2 DEF Unseen, Unanswered
    <2>4. TypeOK'
      BY <1>2, <1>7, <2>1, <2>2 DEF DesktopInv, TypeOK
    <2>5. Orderly'
      <3>1. ASSUME NEW k \in child' PROVE Served(k)'
        BY <1>2, <1>4, <2>1, <2>2, <2>3, <3>1 DEF Served
      <3> QED BY <1>2, <2>2, <3>1 DEF DesktopInv, Orderly
    <2>6. TrustWasConfirmed'
      BY <1>2, <1>7 DEF DesktopInv, TrustWasConfirmed
    <2>7. NewPhraseShown'
      BY <1>2, <1>5, <1>7, NothingLost DEF DesktopInv
    <2> QED BY <2>4, <2>5, <2>6, <2>7 DEF DesktopInv
  <1> QED BY <1>1, <1>6, <1>7

(* Reading the pipe moves what was printed into the window.                *)
LEMMA DeliverKeeps == ASSUME DesktopInv, Deliver PROVE DesktopInv'
  <1>1. PICK c \in child :
          /\ c.said # {}
          /\ window' = [window EXCEPT !.out = @ \cup c.said]
          /\ child' = {[c EXCEPT !.said = {}]}
    BY DEF Deliver
  <1>2. UNCHANGED <<vault, dialog, seen, accepted, dropped, warned, minted, closed, elsewhere>>
    BY DEF Deliver
  <1>3. c \in Child /\ window \in Window /\ child = {c} /\ Served(c)
    BY DEF DesktopInv, TypeOK, Orderly
  <1> DEFINE n == [c EXCEPT !.said = {}]
             w == [window EXCEPT !.out = @ \cup c.said]
  <1>4. /\ n \in Child /\ n.said = {} /\ n.cmd = c.cmd /\ n.alias = c.alias
        /\ n.print = c.print /\ n.phase = c.phase /\ n.ok = c.ok /\ n.made = c.made
    BY <1>3 DEF Child
  <1>5. /\ w \in Window /\ w.out = window.out \cup c.said /\ w.last = window.last
        /\ w.silent = window.silent /\ w.pending = window.pending
    BY <1>3 DEF Window, Child
  <1>6. child' = {n} /\ window' = w
    BY <1>1
  <1> HIDE DEF n, w
  <1>7. Unseen' = Unseen /\ Unanswered' = Unanswered
    BY <1>3, <1>4, <1>5, <1>6 DEF Unseen, Unanswered
  <1>8. TypeOK'
    BY <1>2, <1>4, <1>5, <1>6 DEF DesktopInv, TypeOK
  <1>9. Orderly'
    <2>1. ASSUME NEW k \in child' PROVE Served(k)'
      BY <1>2, <1>3, <1>4, <1>5, <1>6, <1>7, <2>1 DEF Served, PrintedKeys
    <2> QED BY <1>2, <1>5, <1>6, <2>1 DEF DesktopInv, Orderly
  <1>10. TrustWasConfirmed'
    BY <1>2 DEF DesktopInv, TrustWasConfirmed
  <1>11. NewPhraseShown'
    BY <1>2, <1>7, NothingLost DEF DesktopInv
  <1> QED BY <1>8, <1>9, <1>10, <1>11 DEF DesktopInv

-----------------------------------------------------------------------------
(* onFinished().                                                           *)

(* The dialog of a finished command shows the passphrase it printed, and   *)
(* asks for consent to a contact's fingerprint only.                       *)
LEMMA DialogShows ==
  ASSUME TypeOK, Orderly, NEW c \in child, c.said = {}
  PROVE  LET up == DialogFor(window, c.ok)
         IN  /\ up \subseteq Dialog /\ \A x, y \in up : x = y
             /\ \A d \in up :
                  d.kind = "consent" => d.of.alias \in Aliases /\ d.of.print # 0
             /\ PrintedKeys(Unseen) \subseteq {d.of.key : d \in up}
             /\ ~c.ok /\ c.made # 0 => \E d \in up : d.kind = "failed"
  <1> DEFINE up == DialogFor(window, c.ok)
             w == window
  <1>1. /\ w \in Window /\ w.last \in Commands /\ w.out \subseteq Output /\ child = {c}
        /\ Served(c)
    BY DEF TypeOK, Orderly, Window
  <1>2. Unseen = w.out
    BY <1>1 DEF Unseen
  <1>3. /\ w.last = c.cmd /\ w.pending = (c.cmd = "fingerprint")
        /\ \A o \in w.out : o.cmd = c.cmd /\ Sound(o)
        /\ w.out # {} => c.ok
        /\ \A o, x \in w.out : o = x
        /\ w.silent => w.last = "contacts"
        /\ c.made # 0 => c.cmd \in Rekeys
    BY <1>1, <1>2 DEF Served, Orderly
  <1>4. Nothing(w.last) \in Output /\ Nothing(w.last).key = 0
    BY <1>1, DesktopAssumption DEF Nothing, Output, Alias, Prints, Phrase
  <1> HIDE DEF w
  <1> DEFINE failed == [kind |-> "failed", of |-> Nothing(w.last)]
  <1>5. failed \in Dialog /\ failed.kind = "failed"
    BY <1>4 DEF Dialog
  <1>6. c.cmd \notin Rekeys => PrintedKeys(Unseen) = {}
    BY <1>2, <1>3 DEF PrintedKeys, Sound
  <1>7. CASE w.silent
    <2>1. up = {}
      BY <1>7 DEF DialogFor, w
    <2>2. PrintedKeys(Unseen) = {} /\ c.made = 0
      BY <1>3, <1>6, <1>7 DEF Rekeys
    <2> QED BY <2>1, <2>2
  <1>8. CASE \/ ~w.silent /\ ~c.ok
             \/ ~w.silent /\ c.ok /\ ~w.pending /\ w.out = {} /\ w.last \in Rekeys \cup {"recv"}
    <2>1. up = {failed}
      BY <1>8 DEF DialogFor, w
    <2>2. PrintedKeys(Unseen) = {}
      BY <1>2, <1>3, <1>8 DEF PrintedKeys
    <2> HIDE DEF up, failed
    <2>3. /\ up \subseteq Dialog /\ \A x, y \in up : x = y
          /\ \A d \in up : d.kind = "failed"
          /\ \E d \in up : d.kind = "failed"
      BY <1>5, <2>1
    <2> QED BY <2>2, <2>3 DEF up
  <1>9. CASE ~w.silent /\ c.ok /\ w.pending
    <2>1. up = {[kind |-> "consent", of |-> o] : o \in {x \in w.out : x.alias = w.alias}}
      BY <1>9 DEF DialogFor, w
    <2>2. c.cmd = "fingerprint" /\ PrintedKeys(Unseen) = {}
      BY <1>3, <1>6, <1>9 DEF Rekeys
    <2> HIDE DEF up
    <2>3. \A d \in up : \E o \in w.out : d = [kind |-> "consent", of |-> o] /\ d.of = o
      BY <2>1
    <2>4. up \subseteq Dialog /\ \A x, y \in up : x = y
      BY <1>1, <1>3, <2>3 DEF Dialog
    <2>5. \A d \in up : d.of.alias \in Aliases /\ d.of.print # 0
      BY <1>3, <2>2, <2>3 DEF Sound
    <2> QED BY <1>9, <2>2, <2>4, <2>5 DEF up
  <1>10. CASE /\ ~w.silent /\ c.ok /\ ~w.pending
              /\ ~(w.out = {} /\ w.last \in Rekeys \cup {"recv"})
    <2> DEFINE of == IF w.out = {} THEN Nothing(w.last) ELSE CHOOSE o \in w.out : TRUE
               shown == [kind |-> "result", of |-> of]
    <2>1. up = {shown}
      BY <1>10 DEF DialogFor, w
    <2>2. of \in Output /\ \A o \in w.out : o = of
      BY <1>1, <1>3, <1>4
    <2> HIDE DEF of
    <2>3. shown \in Dialog /\ shown.kind = "result" /\ shown.of = of
      BY <2>2 DEF Dialog
    <2> HIDE DEF up, shown
    <2>4. up \subseteq Dialog /\ \A x, y \in up : x = y
      BY <2>1, <2>3
    <2>5. \A d \in up : d.kind # "consent"
      BY <2>1, <2>3
    <2>6. PrintedKeys(Unseen) \subseteq {d.of.key : d \in up}
      BY <1>2, <2>1, <2>2, <2>3 DEF PrintedKeys
    <2> QED BY <1>10, <2>4, <2>5, <2>6 DEF up
  <1> QED BY <1>7, <1>8, <1>9, <1>10 DEF w

LEMMA FinishKeeps == ASSUME DesktopInv, Finish PROVE DesktopInv'
  <1>1. PICK c \in child :
          /\ c.said = {}
          /\ dialog' = DialogFor(window, c.ok)
          /\ seen' = seen \cup ({d.of.key : d \in DialogFor(window, c.ok)} \ {0})
          /\ warned' = warned \cup
               {c.made : d \in {x \in DialogFor(window, c.ok) : x.kind = "failed" /\ ~c.ok}}
          /\ \E unlocked \in BOOLEAN, key \in {0, window.key} :
               window' = [Stale(window) EXCEPT !.unlocked = unlocked, !.key = key]
    <2>1. \A w \in Window, c \in Child, b \in BOOLEAN :
            LET x == Stale(w)
            IN  /\ x.unlocked \in BOOLEAN /\ x.key = w.key /\ c.ok \in BOOLEAN
      BY DEF Stale, Window, Child
    <2>2. window \in Window /\ child \subseteq Child
      BY DEF DesktopInv, TypeOK
    <2>3. Stale(window) \in Window
      BY <2>2, StaleClears
    <2>4. PICK c \in child :
            /\ c.said = {} /\ dialog' = DialogFor(window, c.ok)
            /\ seen' = seen \cup ({d.of.key : d \in DialogFor(window, c.ok)} \ {0})
            /\ warned' = warned \cup
                 {c.made : d \in {x \in DialogFor(window, c.ok) : x.kind = "failed" /\ ~c.ok}}
            /\ window' =
                 [Stale(window) EXCEPT
                    !.unlocked = IF window.last = "unlock" THEN c.ok ELSE @,
                    !.key = IF \E d \in DialogFor(window, c.ok) :
                                 d.kind = "result" /\ d.of.cmd = "passphrase"
                            THEN 0 ELSE @]
      BY DEF Finish
    <2> DEFINE b == IF window.last = "unlock" THEN c.ok ELSE Stale(window).unlocked
               k == IF \E d \in DialogFor(window, c.ok) :
                         d.kind = "result" /\ d.of.cmd = "passphrase"
                    THEN 0 ELSE Stale(window).key
    <2>5. b \in BOOLEAN /\ k \in {0, window.key}
      BY <2>1, <2>2
    <2>6. window' = [Stale(window) EXCEPT !.unlocked = b, !.key = k]
      BY <2>3, <2>4 DEF Window
    <2> HIDE DEF b, k
    <2> QED BY <2>4, <2>5, <2>6
  <1>2. PICK unlocked \in BOOLEAN, key \in {0, window.key} :
          window' = [Stale(window) EXCEPT !.unlocked = unlocked, !.key = key]
    BY <1>1
  <1>3. child' = {} /\ UNCHANGED <<vault, accepted, dropped, minted, closed, elsewhere>>
    BY DEF Finish
  <1>4. window' \in Window /\ window'.out = {} /\ window'.silent = FALSE
    <2> DEFINE w == Stale(window)
    <2>1. w \in Window /\ w.out = {} /\ w.silent = FALSE
      BY StaleClears DEF DesktopInv, TypeOK
    <2>2. key \in Phrase
      BY DesktopAssumption DEF DesktopInv, TypeOK, Window, Phrase
    <2> HIDE DEF w
    <2>3. window' = [w EXCEPT !.unlocked = unlocked, !.key = key]
      BY <1>2 DEF w
    <2> QED BY <2>1, <2>2, <2>3 DEF Window
  <1> DEFINE up == DialogFor(window, c.ok)
  <1>5. /\ up \subseteq Dialog /\ \A x, y \in up : x = y
        /\ \A d \in up : d.kind = "consent" => d.of.alias \in Aliases /\ d.of.print # 0
        /\ PrintedKeys(Unseen) \subseteq {d.of.key : d \in up}
        /\ ~c.ok /\ c.made # 0 => \E d \in up : d.kind = "failed"
    BY <1>1, DialogShows DEF DesktopInv
  <1>6. /\ dialog' = up /\ seen' = seen \cup ({d.of.key : d \in up} \ {0})
        /\ warned' = warned \cup {c.made : d \in {x \in up : x.kind = "failed" /\ ~c.ok}}
    BY <1>1
  <1> HIDE DEF up
  <1>7. (\A d \in up : d.of.key \in Phrase) /\ c.made \in Phrase /\ child = {c}
        /\ Served(c) /\ c.ok \in BOOLEAN
    BY <1>5 DEF Dialog, Output, DesktopInv, TypeOK, Child, Orderly
  <1>8. TypeOK'
    BY <1>3, <1>4, <1>5, <1>6, <1>7 DEF DesktopInv, TypeOK
  <1>9. Orderly'
    BY <1>3, <1>4, <1>5, <1>6 DEF Orderly
  <1>10. TrustWasConfirmed'
    BY <1>3 DEF DesktopInv, TrustWasConfirmed
  <1>11. NewPhraseShown'
    <2>1. PrintedKeys(Unseen) \subseteq seen'
      BY <1>5, <1>6 DEF PrintedKeys
    <2>2. c.made # 0 /\ c.ok => c.made \in seen' \cup dropped
      BY <1>7, <2>1 DEF Served
    <2>3. c.made # 0 /\ ~c.ok => c.made \in warned'
      BY <1>5, <1>6
    <2>4. Unanswered \subseteq seen' \cup warned' \cup dropped
      BY <1>7, <2>2, <2>3 DEF Unanswered
    <2> QED BY <1>3, <1>6, <2>4, NothingLost DEF DesktopInv
  <1> QED BY <1>8, <1>9, <1>10, <1>11 DEF DesktopInv

-----------------------------------------------------------------------------

LEMMA StartsOrderly == Init => DesktopInv
  <1> SUFFICES ASSUME Init PROVE DesktopInv
    OBVIOUS
  <1>1. 0 \in Phrase /\ 1 \in Phrase /\ 0 \in 0 .. MaxElsewhere /\ 0 \in Prints
    BY DesktopAssumption DEF Phrase, Prints
  <1>2. window \in Window /\ window.out = {} /\ window.silent = FALSE
    BY <1>1 DEF Init, NewWindow, Window, Commands, Alias
  <1>3. \A d \in Drives : vault[d].phrase = 1 /\ vault[d].verified = {}
    BY DEF Init
  <1>4. vault \in [Drives -> VaultRecord]
    BY <1>1 DEF Init, VaultRecord
  <1>5. TypeOK
    BY <1>1, <1>2, <1>4 DEF Init, TypeOK, VaultRecord
  <1>6. Orderly
    BY <1>2 DEF Init, Orderly
  <1>7. TrustWasConfirmed /\ NewPhraseShown
    BY <1>3 DEF Init, TrustWasConfirmed, NewPhraseShown
  <1> QED BY <1>5, <1>6, <1>7 DEF DesktopInv

LEMMA DesktopKept == Spec => []DesktopInv
  <1>1. DesktopInv /\ [Next]_vars => DesktopInv'
    <2> SUFFICES ASSUME DesktopInv, [Next]_vars PROVE DesktopInv'
      OBVIOUS
    <2>1. CASE UNCHANGED vars
      BY <2>1 DEF vars, DesktopInv, TypeOK, Orderly, Served, Unseen, TrustWasConfirmed,
         NewPhraseShown, PrintedKeys, Unanswered
    <2> QED BY <2>1, ClickKeeps, RunKeeps, DeliverKeeps, FinishKeeps, CloseDialogKeeps,
               ConsentKeeps, EditKeeps, LockKeeps, CloseWindowKeeps, ElsewhereKeeps DEF Next
  <1> QED BY <1>1, StartsOrderly, PTL DEF Spec

(* Every reachable state is well-formed; in particular there is never more *)
(* than one child or one dialog (cli_runner.cpp, busy; QDialog::exec).     *)
THEOREM TypeCorrect == Spec => []TypeOK
  <1>1. DesktopInv => TypeOK
    BY DEF DesktopInv
  <1> QED BY <1>1, DesktopKept, PTL

(* What the window goes by when a command ends, and all the output it has  *)
(* collected, belong to the child that runs (launch and handleFinished of  *)
(* main_window.cpp), whatever else was asked for meanwhile.                *)
THEOREM AnswersAttributed == Spec => []ResultAttributed
  <1>1. DesktopInv => ResultAttributed
    BY DEF DesktopInv, Orderly, Served, Unseen, ResultAttributed
  <1> QED BY <1>1, DesktopKept, PTL

(* A contact is marked verified only with the fingerprint the user saw     *)
(* under its alias and accepted, on whichever drive and after whatever     *)
(* imports (the consent dialog, and cmd_trust's --expect-fingerprint).     *)
THEOREM OnlyConfirmedTrusted == Spec => []TrustWasConfirmed
  <1>1. DesktopInv => TrustWasConfirmed
    BY DEF DesktopInv
  <1> QED BY <1>1, DesktopKept, PTL

(* The passphrase a vault needs was shown, or the command that made it is  *)
(* still to be dealt with or was reported to have failed, or the user      *)
(* locked or closed the window on it: no overlapping command, late start   *)
(* or failed start loses what a successful `init` or `passphrase` printed, *)
(* and one that fails after its save is never passed over in silence.      *)
THEOREM PhrasesReachScreen == Spec => []NewPhraseShown
  <1>1. DesktopInv => NewPhraseShown
    BY DEF DesktopInv
  <1> QED BY <1>1, DesktopKept, PTL
=============================================================================
