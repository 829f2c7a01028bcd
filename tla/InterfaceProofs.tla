-------------------------- MODULE InterfaceProofs ---------------------------
(***************************************************************************)
(* Theorems about Interface, for any contacts and bounds: what the screens *)
(* hold, and whom they write to, over every sequence of keys, failures,    *)
(* locks and kills; and when a staged file may go.                         *)
(***************************************************************************)
EXTENDS Interface, FiniteSetTheorems, TLAPS

Writing == {"Compose", "FilePick"}

(* The model after Model::forget(), but for the screen and its text.       *)
Empty(u) ==
  /\ u.unlocked = FALSE /\ u.rows = NoBook /\ u.marks = {} /\ u.group = FALSE
  /\ u.to = {} /\ u.contact = None /\ u.alias = None /\ u.card = FALSE
  /\ u.pager = "" /\ u.file = ""

LEMMA ForgottenFields ==
  /\ Forgotten \in Model /\ Empty(Forgotten)
  /\ Forgotten.screen = "Drive" /\ Forgotten.text = FALSE
BY DEF Forgotten, Model, Empty, ScreenNames, Outside, TextScreens, Book, NoBook, FileKind

LEMMA EmptyIsForgotten ==
  ASSUME NEW u \in Model, Empty(u)
  PROVE  [u EXCEPT !.screen = "Drive", !.text = FALSE] = Forgotten
  <1> DEFINE w == [u EXCEPT !.screen = "Drive", !.text = FALSE]
  <1>1. "Drive" \in ScreenNames
    BY DEF ScreenNames, Outside
  <1>2. /\ w \in Model /\ w.screen = "Drive" /\ w.text = FALSE
        /\ w.unlocked = u.unlocked /\ w.rows = u.rows /\ w.marks = u.marks
        /\ w.group = u.group /\ w.to = u.to /\ w.contact = u.contact
        /\ w.alias = u.alias /\ w.card = u.card /\ w.pager = u.pager /\ w.file = u.file
    BY <1>1 DEF Model
  <1> HIDE DEF w
  <1>3. w = [screen |-> w.screen, unlocked |-> w.unlocked, rows |-> w.rows,
             marks |-> w.marks, group |-> w.group, to |-> w.to,
             contact |-> w.contact, alias |-> w.alias, card |-> w.card,
             text |-> w.text, pager |-> w.pager, file |-> w.file]
    BY <1>2 DEF Model
  <1>4. /\ w.unlocked = FALSE /\ w.rows = NoBook /\ w.marks = {} /\ w.group = FALSE
        /\ w.to = {} /\ w.contact = None /\ w.alias = None /\ w.card = FALSE
        /\ w.pager = "" /\ w.file = ""
    BY <1>2 DEF Empty
  <1>5. w = Forgotten
    BY <1>2, <1>3, <1>4, Zenon DEF Forgotten
  <1> QED BY <1>5 DEF w

(* What go() leaves of the model.                                          *)
LEMMA GoFields ==
  ASSUME NEW u \in Model, NEW next \in ScreenNames
  PROVE  LET w == Go(u, next)
         IN /\ w \in Model /\ w.screen = next
            /\ w.unlocked = u.unlocked /\ w.rows = u.rows /\ w.marks = u.marks
            /\ w.contact = u.contact /\ w.alias = u.alias /\ w.card = u.card
            /\ w.pager = u.pager /\ w.file = u.file
            /\ next \in Writing => w.group = u.group /\ w.to = u.to
            /\ next \notin Writing => w.group = FALSE /\ w.to = {}
  <1> DEFINE g == u.group /\ next \in Writing
             t == IF next \in Writing THEN u.to ELSE {}
             x == u.text /\ next \notin TextScreens
             w == [u EXCEPT !.screen = next, !.group = g, !.to = t, !.text = x]
  <1>1. g \in BOOLEAN /\ x \in BOOLEAN /\ t \in SUBSET Aliases
    BY DEF Model
  <1>2. /\ next \in Writing => g = u.group /\ t = u.to
        /\ next \notin Writing => g = FALSE /\ t = {}
    BY DEF Model
  <1>3. Go(u, next) = w
    BY DEF Go, Writing
  <1> HIDE DEF g, t, x
  <1>4. /\ w \in Model /\ w.screen = next
        /\ w.unlocked = u.unlocked /\ w.rows = u.rows /\ w.marks = u.marks
        /\ w.contact = u.contact /\ w.alias = u.alias /\ w.card = u.card
        /\ w.pager = u.pager /\ w.file = u.file
        /\ w.group = g /\ w.to = t
    BY <1>1 DEF Model
  <1> QED BY <1>2, <1>3, <1>4

-----------------------------------------------------------------------------
(* The screens' invariant.                                                 *)

(* Marks, recipients and rows are of contacts verified in the vault.       *)
Verified(u, b) ==
  u.to \subseteq b.trusted /\ u.marks \subseteq b.trusted /\ u.rows.trusted \subseteq b.trusted

(* A message being written goes to whom it was meant for, and recipients   *)
(* are kept only while one is.                                             *)
Aimed(u, who) ==
  /\ u.screen \in Writing => (IF u.group THEN u.to ELSE {u.contact}) = who
  /\ u.screen \notin Writing => u.group = FALSE /\ u.to = {}

(* A shown contact is one of the vault's, a card being read has its name.  *)
Named(u, b) ==
  /\ u.rows.known \subseteq b.known
  /\ u.screen = "Contact" => u.contact \in b.known
  /\ u.card => u.alias \in Aliases

(* An open vault has its screens, a closed one nothing.                    *)
Matches(u, o, b, file) ==
  /\ o <=> u.screen \notin Outside
  /\ o => u.unlocked = TRUE
  /\ ~o => Empty(u) /\ b = NoBook /\ file = ""

ShownRight(u, o, b, file, who) ==
  u \in Model /\ Matches(u, o, b, file) /\ Verified(u, b) /\ Aimed(u, who) /\ Named(u, b)

OneBook(d) == d = {} \/ \E b \in Book : Sane(b) /\ d = {b}

HeldRight ==
  /\ open \in BOOLEAN /\ store \in Book /\ Sane(store) /\ OneBook(disk)
  /\ pending \in FileKind \cup {""} /\ outbox \in BOOLEAN /\ running \in BOOLEAN
  /\ intent \subseteq Aliases
  /\ sent \in [to : SUBSET Aliases, intent : SUBSET Aliases] /\ SentToChosen
  /\ mishaps \in 0 .. MaxMishap

ScreenInv == ShownRight(ui, open, store, pending, intent) /\ HeldRight

LEMMA NothingHeld == NoBook \in Book /\ Sane(NoBook)
BY DEF NoBook, Book, Sane

LEMMA BookOnDisk == ASSUME NEW b \in Book, Sane(b) PROVE OneBook({b})
BY DEF OneBook

LEMMA ForgottenRight == ASSUME NEW who PROVE ShownRight(Forgotten, FALSE, NoBook, "", who)
BY ForgottenFields
   DEF ShownRight, Matches, Verified, Aimed, Named, Empty, NoBook, Outside, Writing

LEMMA ScreenInit == ScreensInit => ScreenInv
  <1> SUFFICES ASSUME ScreensInit PROVE ScreenInv
    OBVIOUS
  <1>1. ShownRight(ui, open, store, pending, intent)
    BY ForgottenRight DEF ScreensInit
  <1>2. OneBook(disk)
    BY NothingHeld DEF ScreensInit, OneBook
  <1>3. 0 \in 0 .. MaxMishap
    BY ScreensAssumption
  <1>4. HeldRight
    BY <1>2, <1>3, NothingHeld DEF ScreensInit, HeldRight, SentToChosen
  <1> QED BY <1>1, <1>4 DEF ScreenInv

LEMMA ScreenType == ScreenInv => ScreensTypeOK
  <1> SUFFICES ASSUME ScreenInv PROVE ScreensTypeOK
    OBVIOUS
  <1>1. disk \subseteq Book /\ Cardinality(disk) \in {0, 1}
    BY FS_Singleton, FS_EmptySet DEF ScreenInv, HeldRight, OneBook
  <1>2. Cardinality(disk) <= 1
    BY <1>1
  <1> QED BY <1>1, <1>2 DEF ScreenInv, ShownRight, HeldRight, ScreensTypeOK

LEMMA ScreenImplies ==
  ScreenInv => LockLeavesNothing /\ VaultWhereNeeded /\ SentToChosen /\ MarkedAreVerified
  <1> SUFFICES ASSUME ScreenInv
               PROVE LockLeavesNothing /\ VaultWhereNeeded /\ SentToChosen /\ MarkedAreVerified
    OBVIOUS
  <1>1. LockLeavesNothing
    BY EmptyIsForgotten DEF ScreenInv, ShownRight, Matches, LockLeavesNothing
  <1>2. VaultWhereNeeded
    BY DEF ScreenInv, ShownRight, Matches, VaultWhereNeeded
  <1>3. SentToChosen /\ MarkedAreVerified
    BY DEF ScreenInv, ShownRight, HeldRight, Verified, MarkedAreVerified
  <1> QED BY <1>1, <1>2, <1>3

-----------------------------------------------------------------------------
(* What each change of the model keeps right.                              *)

LEMMA TextRight ==
  ASSUME NEW u, NEW o, NEW b, NEW file, NEW who, NEW t \in BOOLEAN,
         ShownRight(u, o, b, file, who)
  PROVE  ShownRight([u EXCEPT !.text = t], o, b, file, who)
  <1> DEFINE w == [u EXCEPT !.text = t]
  <1>1. /\ w \in Model /\ w.screen = u.screen /\ w.group = u.group /\ w.to = u.to
        /\ w.unlocked = u.unlocked /\ w.rows = u.rows /\ w.marks = u.marks
        /\ w.contact = u.contact /\ w.alias = u.alias /\ w.card = u.card
        /\ w.pager = u.pager /\ w.file = u.file
    BY DEF ShownRight, Model
  <1> HIDE DEF w
  <1>2. ShownRight(w, o, b, file, who)
    BY <1>1 DEF ShownRight, Matches, Verified, Aimed, Named, Empty
  <1> QED BY <1>2 DEF w

LEMMA ClearRight ==
  ASSUME NEW u, NEW o, NEW b, NEW file, NEW who, ShownRight(u, o, b, file, who)
  PROVE  /\ ShownRight(Clear(u), o, b, file, who)
         /\ Clear(u).screen = u.screen /\ Clear(u).unlocked = u.unlocked
         /\ Clear(u).card = u.card /\ Clear(u).alias = u.alias
  <1>1. ShownRight(Clear(u), o, b, file, who)
    BY TextRight DEF Clear
  <1>2. u \in Model
    BY DEF ShownRight
  <1> QED BY <1>1, <1>2 DEF Clear, Model

(* Turning to a screen that is not for writing, nor a contact's.           *)
LEMMA AwayRight ==
  ASSUME NEW u, NEW o \in BOOLEAN, NEW b, NEW file, NEW who, NEW who2,
         ShownRight(u, o, b, file, who),
         NEW next \in ScreenNames \ (Writing \cup {"Contact"}), o <=> next \notin Outside
  PROVE  ShownRight(Go(u, next), o, b, file, who2)
  <1> DEFINE w == Go(u, next)
  <1>1. /\ w \in Model /\ w.screen = next
        /\ w.unlocked = u.unlocked /\ w.rows = u.rows /\ w.marks = u.marks
        /\ w.contact = u.contact /\ w.alias = u.alias /\ w.card = u.card
        /\ w.pager = u.pager /\ w.file = u.file /\ w.group = FALSE /\ w.to = {}
    BY GoFields DEF ShownRight
  <1> HIDE DEF w
  <1>2. Matches(w, o, b, file)
    BY <1>1 DEF ShownRight, Matches, Empty
  <1>3. Verified(w, b) /\ Aimed(w, who2) /\ Named(w, b)
    BY <1>1 DEF ShownRight, Verified, Aimed, Named
  <1> QED BY <1>1, <1>2, <1>3 DEF ShownRight, w

(* From one of the two writing screens to the other.                       *)
LEMMA BetweenRight ==
  ASSUME NEW u, NEW o \in BOOLEAN, NEW b, NEW file, NEW who,
         ShownRight(u, o, b, file, who), u.screen \in Writing, NEW next \in Writing
  PROVE  ShownRight(Go(u, next), o, b, file, who)
  <1> DEFINE w == Go(u, next)
  <1>1. next \in ScreenNames \ (Outside \cup {"Contact"}) /\ u.screen \notin Outside
    BY DEF Writing, ScreenNames, TextScreens, Outside
  <1>2. /\ w \in Model /\ w.screen = next
        /\ w.unlocked = u.unlocked /\ w.rows = u.rows /\ w.marks = u.marks
        /\ w.contact = u.contact /\ w.alias = u.alias /\ w.card = u.card
        /\ w.pager = u.pager /\ w.file = u.file /\ w.group = u.group /\ w.to = u.to
    BY <1>1, GoFields DEF ShownRight
  <1> HIDE DEF w
  <1>3. Matches(w, o, b, file)
    BY <1>1, <1>2 DEF ShownRight, Matches
  <1>4. Verified(w, b) /\ Aimed(w, who) /\ Named(w, b)
    BY <1>1, <1>2 DEF ShownRight, Verified, Aimed, Named
  <1> QED BY <1>2, <1>3, <1>4 DEF ShownRight, w

(* An open vault that gains contacts or verified ones, and a new chosen    *)
(* name for what is shown of it.                                           *)
LEMMA GrownRight ==
  ASSUME NEW u, NEW b, NEW c, NEW file, NEW file2, NEW who,
         ShownRight(u, TRUE, b, file, who),
         b.known \subseteq c.known, b.trusted \subseteq c.trusted
  PROVE  ShownRight(u, TRUE, c, file2, who)
BY DEF ShownRight, Matches, Verified, Named

(* Rows listed anew from the open vault.                                   *)
LEMMA RelistRight ==
  ASSUME NEW u, NEW b \in Book, NEW file, NEW who, ShownRight(u, TRUE, b, file, who)
  PROVE  ShownRight([u EXCEPT !.rows = b, !.marks = @ \cap b.known], TRUE, b, file, who)
  <1> DEFINE m == u.marks \cap b.known
             w == [u EXCEPT !.rows = b, !.marks = m]
  <1>1. u \in Model /\ m \in SUBSET Aliases /\ m \subseteq u.marks
    BY DEF ShownRight, Model
  <1>2. [u EXCEPT !.rows = b, !.marks = @ \cap b.known] = w
    OBVIOUS
  <1> HIDE DEF m
  <1>3. /\ w \in Model /\ w.screen = u.screen /\ w.group = u.group /\ w.to = u.to
        /\ w.unlocked = u.unlocked /\ w.rows = b /\ w.marks = m
        /\ w.contact = u.contact /\ w.alias = u.alias /\ w.card = u.card
    BY <1>1 DEF Model
  <1> HIDE DEF w
  <1>4. ShownRight(w, TRUE, b, file, who)
    BY <1>1, <1>3 DEF ShownRight, Matches, Verified, Aimed, Named
  <1> QED BY <1>2, <1>4

(* Pager and file do not matter while the vault is open.                   *)
LEMMA PagedRight ==
  ASSUME NEW u, NEW b, NEW file, NEW who, ShownRight(u, TRUE, b, file, who),
         NEW p \in {"", "block", "message"}
  PROVE  ShownRight([u EXCEPT !.pager = p], TRUE, b, file, who)
  <1> DEFINE w == [u EXCEPT !.pager = p]
  <1>1. /\ w \in Model /\ w.screen = u.screen /\ w.group = u.group /\ w.to = u.to
        /\ w.unlocked = u.unlocked /\ w.rows = u.rows /\ w.marks = u.marks
        /\ w.contact = u.contact /\ w.alias = u.alias /\ w.card = u.card
    BY DEF ShownRight, Model
  <1> HIDE DEF w
  <1>2. ShownRight(w, TRUE, b, file, who)
    BY <1>1 DEF ShownRight, Matches, Verified, Aimed, Named
  <1> QED BY <1>2 DEF w

LEMMA FileRight ==
  ASSUME NEW u, NEW b, NEW file, NEW who, ShownRight(u, TRUE, b, file, who),
         NEW f \in FileKind
  PROVE  ShownRight([u EXCEPT !.pager = "", !.file = f], TRUE, b, file, who)
  <1> DEFINE w == [u EXCEPT !.pager = "", !.file = f]
  <1>1. /\ w \in Model /\ w.screen = u.screen /\ w.group = u.group /\ w.to = u.to
        /\ w.unlocked = u.unlocked /\ w.rows = u.rows /\ w.marks = u.marks
        /\ w.contact = u.contact /\ w.alias = u.alias /\ w.card = u.card
    BY DEF ShownRight, Model
  <1> HIDE DEF w
  <1>2. ShownRight(w, TRUE, b, file, who)
    BY <1>1 DEF ShownRight, Matches, Verified, Aimed, Named
  <1> QED BY <1>2 DEF w

(* The home screen of an open vault.                                       *)
LEMMA HomeRight ==
  ASSUME NEW u \in Model, u.card => u.alias \in Aliases,
         NEW b \in Book, NEW file, NEW who
  PROVE  ShownRight(Go([u EXCEPT !.rows = b, !.marks = {}, !.unlocked = TRUE], "Home"),
                    TRUE, b, file, who)
  <1> DEFINE v == [u EXCEPT !.rows = b, !.marks = {}, !.unlocked = TRUE]
             w == Go(v, "Home")
  <1>1. /\ v \in Model /\ v.unlocked = TRUE /\ v.rows = b /\ v.marks = {}
        /\ v.alias = u.alias /\ v.card = u.card
    BY DEF Model
  <1> HIDE DEF v
  <1>2. "Home" \in ScreenNames \ (Writing \cup Outside)
    BY DEF Writing, ScreenNames, TextScreens, Outside
  <1>3. /\ w \in Model /\ w.screen = "Home" /\ w.unlocked = TRUE /\ w.rows = b
        /\ w.marks = {} /\ w.alias = u.alias /\ w.card = u.card
        /\ w.group = FALSE /\ w.to = {}
    BY <1>1, <1>2, GoFields
  <1> HIDE DEF w
  <1>4. ShownRight(w, TRUE, b, file, who)
    BY <1>2, <1>3 DEF ShownRight, Matches, Verified, Aimed, Named
  <1> QED BY <1>4 DEF v, w

(* Marks set or cleared on the home screen.                                *)
LEMMA MarksRight ==
  ASSUME NEW u, NEW b \in Book, NEW file, NEW who, ShownRight(u, TRUE, b, file, who),
         NEW m \in SUBSET b.trusted
  PROVE  ShownRight([u EXCEPT !.marks = m], TRUE, b, file, who)
  <1> DEFINE w == [u EXCEPT !.marks = m]
  <1>1. m \in SUBSET Aliases
    BY DEF Book
  <1>2. /\ w \in Model /\ w.screen = u.screen /\ w.group = u.group /\ w.to = u.to
        /\ w.unlocked = u.unlocked /\ w.rows = u.rows /\ w.marks = m
        /\ w.contact = u.contact /\ w.alias = u.alias /\ w.card = u.card
    BY <1>1 DEF ShownRight, Model
  <1> HIDE DEF w
  <1>3. ShownRight(w, TRUE, b, file, who)
    BY <1>2 DEF ShownRight, Matches, Verified, Aimed, Named
  <1> QED BY <1>3 DEF w

(* A name for the card to be read, or none because a message is.           *)
LEMMA CardRight ==
  ASSUME NEW u, NEW b, NEW file, NEW who, ShownRight(u, TRUE, b, file, who)
  PROVE  /\ ShownRight([u EXCEPT !.card = FALSE], TRUE, b, file, who)
         /\ \A a \in Aliases :
              ShownRight([u EXCEPT !.alias = a, !.card = TRUE], TRUE, b, file, who)
  <1>1. ShownRight([u EXCEPT !.card = FALSE], TRUE, b, file, who)
    <2> DEFINE w == [u EXCEPT !.card = FALSE]
    <2>1. /\ w \in Model /\ w.screen = u.screen /\ w.group = u.group /\ w.to = u.to
          /\ w.unlocked = u.unlocked /\ w.rows = u.rows /\ w.marks = u.marks
          /\ w.contact = u.contact /\ w.card = FALSE
      BY DEF ShownRight, Model
    <2> HIDE DEF w
    <2>2. ShownRight(w, TRUE, b, file, who)
      BY <2>1 DEF ShownRight, Matches, Verified, Aimed, Named
    <2> QED BY <2>2 DEF w
  <1>2. ASSUME NEW a \in Aliases
        PROVE  ShownRight([u EXCEPT !.alias = a, !.card = TRUE], TRUE, b, file, who)
    <2> DEFINE w == [u EXCEPT !.alias = a, !.card = TRUE]
    <2>1. /\ w \in Model /\ w.screen = u.screen /\ w.group = u.group /\ w.to = u.to
          /\ w.unlocked = u.unlocked /\ w.rows = u.rows /\ w.marks = u.marks
          /\ w.contact = u.contact /\ w.alias = a
      BY DEF ShownRight, Model
    <2> HIDE DEF w
    <2>2. ShownRight(w, TRUE, b, file, who)
      BY <2>1 DEF ShownRight, Matches, Verified, Aimed, Named
    <2> QED BY <2>2 DEF w
  <1> QED BY <1>1, <1>2

(* One of the vault's contacts, shown.                                     *)
LEMMA ContactRight ==
  ASSUME NEW u, NEW b \in Book, NEW file, NEW who, ShownRight(u, TRUE, b, file, who),
         NEW a \in b.known
  PROVE  ShownRight(Go([u EXCEPT !.contact = a], "Contact"), TRUE, b, file, who)
  <1> DEFINE v == [u EXCEPT !.contact = a]
             w == Go(v, "Contact")
  <1>1. /\ v \in Model /\ v.unlocked = u.unlocked /\ v.rows = u.rows
        /\ v.marks = u.marks /\ v.contact = a /\ v.alias = u.alias /\ v.card = u.card
    BY DEF ShownRight, Model, Book
  <1> HIDE DEF v
  <1>2. "Contact" \in ScreenNames \ (Writing \cup Outside)
    BY DEF Writing, ScreenNames, TextScreens, Outside
  <1>3. /\ w \in Model /\ w.screen = "Contact" /\ w.unlocked = u.unlocked
        /\ w.rows = u.rows /\ w.marks = u.marks /\ w.contact = a
        /\ w.alias = u.alias /\ w.card = u.card /\ w.group = FALSE /\ w.to = {}
    BY <1>1, <1>2, GoFields
  <1> HIDE DEF w
  <1>4. ShownRight(w, TRUE, b, file, who)
    BY <1>2, <1>3 DEF ShownRight, Matches, Verified, Aimed, Named
  <1> QED BY <1>4 DEF v, w

(* Starting to write, to a contact or to the marked ones.                  *)
LEMMA WriteContactRight ==
  ASSUME NEW u, NEW b \in Book, NEW file, NEW who, ShownRight(u, TRUE, b, file, who),
         u.screen = "Contact", NEW next \in Writing
  PROVE  ShownRight(Go(u, next), TRUE, b, file, {u.contact})
  <1> DEFINE w == Go(u, next)
  <1>1. next \in ScreenNames \ (Outside \cup {"Contact"}) /\ u.screen \notin Writing
    BY DEF Writing, ScreenNames, TextScreens, Outside
  <1>2. /\ w \in Model /\ w.screen = next /\ w.unlocked = u.unlocked
        /\ w.rows = u.rows /\ w.marks = u.marks /\ w.contact = u.contact
        /\ w.alias = u.alias /\ w.card = u.card /\ w.group = FALSE /\ w.to = {}
    BY <1>1, GoFields DEF ShownRight, Aimed
  <1> HIDE DEF w
  <1>3. Matches(w, TRUE, b, file) /\ Verified(w, b) /\ Named(w, b)
    BY <1>1, <1>2 DEF ShownRight, Matches, Verified, Named
  <1>4. Aimed(w, {u.contact})
    BY <1>2 DEF Aimed
  <1> QED BY <1>2, <1>3, <1>4 DEF ShownRight, w

LEMMA WriteGroupRight ==
  ASSUME NEW u, NEW b, NEW file, NEW who, ShownRight(u, TRUE, b, file, who)
  PROVE  ShownRight(Go([u EXCEPT !.group = TRUE, !.to = u.marks], "Compose"),
                    TRUE, b, file, u.marks)
  <1> DEFINE v == [u EXCEPT !.group = TRUE, !.to = u.marks]
             w == Go(v, "Compose")
  <1>1. /\ v \in Model /\ v.unlocked = u.unlocked /\ v.rows = u.rows
        /\ v.marks = u.marks /\ v.alias = u.alias /\ v.card = u.card
        /\ v.group = TRUE /\ v.to = u.marks
    BY DEF ShownRight, Model
  <1> HIDE DEF v
  <1>2. "Compose" \in ScreenNames /\ "Compose" \in Writing /\ "Compose" \notin Outside
    BY DEF Writing, ScreenNames, TextScreens, Outside
  <1>3. /\ w \in Model /\ w.screen = "Compose" /\ w.unlocked = u.unlocked
        /\ w.rows = u.rows /\ w.marks = u.marks
        /\ w.alias = u.alias /\ w.card = u.card /\ w.group = TRUE /\ w.to = u.marks
    <2>1. v \in Model
      BY <1>1
    <2>2. /\ w \in Model /\ w.screen = "Compose" /\ w.unlocked = v.unlocked
          /\ w.rows = v.rows /\ w.marks = v.marks
          /\ w.alias = v.alias /\ w.card = v.card /\ w.group = v.group /\ w.to = v.to
      BY <1>2, <2>1, GoFields
    <2> QED BY <1>1, <2>2
  <1> HIDE DEF w
  <1>4. Aimed(w, u.marks) /\ Matches(w, TRUE, b, file)
    BY <1>2, <1>3 DEF ShownRight, Matches, Aimed
  <1>5. Verified(w, b) /\ Named(w, b)
    BY <1>2, <1>3 DEF ShownRight, Verified, Named
  <1>6. ShownRight(w, TRUE, b, file, u.marks)
    BY <1>3, <1>4, <1>5 DEF ShownRight
  <1> QED BY <1>6 DEF v, w

-----------------------------------------------------------------------------
(* The steps.                                                              *)

LEMMA Opened ==
  ScreenInv => /\ ui \in Model /\ open \in BOOLEAN /\ store \in Book
               /\ open <=> ui.screen \notin Outside
               /\ ui.unlocked = open
BY DEF ScreenInv, ShownRight, HeldRight, Matches, Empty

LEMMA MishapType ==
  ASSUME mishaps \in 0 .. MaxMishap, Fine \/ Mishap
  PROVE  mishaps' \in 0 .. MaxMishap
BY ScreensAssumption DEF Fine, Mishap

(* A key that changes only the model.                                      *)
LEMMA KeyRight ==
  ASSUME ScreenInv, World, intent' \subseteq Aliases,
         ShownRight(ui', open, store, pending, intent')
  PROVE  ScreenInv'
BY DEF ScreenInv, World, HeldRight, SentToChosen

LEMMA TurnRight ==
  ASSUME ScreenInv, NEW w, Turn(w), ShownRight(w, open, store, pending, intent)
  PROVE  ScreenInv'
BY KeyRight DEF ScreenInv, HeldRight, Turn

LEMMA EscapeStep == ASSUME ScreenInv, Escape PROVE ScreenInv'
  <1> USE Opened
  <1>0. ShownRight(ui, open, store, pending, intent)
    BY DEF ScreenInv
  <1>1. CASE On({"FilePick"}) /\ Turn(Go(Clear(ui), "Compose"))
    <2>1. ShownRight(Go(Clear(ui), "Compose"), open, store, pending, intent)
      BY <1>0, <1>1, ClearRight, BetweenRight DEF On, Writing
    <2> QED BY <1>1, <2>1, TurnRight
  <1>2. CASE On(TextScreens \ {"FilePick"})
               /\ Turn(Go(Clear(ui), IF ui.unlocked THEN "Home" ELSE "Drive"))
    <2>1. CASE open
      <3>1. "Home" \in ScreenNames \ (Writing \cup {"Contact"}) /\ "Home" \notin Outside
        BY DEF ScreenNames, Writing, Outside
      <3>2. ShownRight(Go(Clear(ui), "Home"), open, store, pending, intent)
        BY <1>0, <2>1, <3>1, ClearRight, AwayRight
      <3> QED BY <1>2, <2>1, <3>2, TurnRight
    <2>2. CASE ~open
      <3>1. "Drive" \in ScreenNames \ (Writing \cup {"Contact"}) /\ "Drive" \in Outside
        BY DEF ScreenNames, Writing, Outside
      <3>2. ShownRight(Go(Clear(ui), "Drive"), open, store, pending, intent)
        BY <1>0, <2>2, <3>1, ClearRight, AwayRight
      <3> QED BY <1>2, <2>2, <3>2, TurnRight
    <2> QED BY <2>1, <2>2
  <1>3. CASE On({"Setup"}) /\ Turn(Go(ui, "Drive"))
    <2>1. /\ "Drive" \in ScreenNames \ (Writing \cup {"Contact"}) /\ "Drive" \in Outside
          /\ ui.screen \in Outside
      BY <1>3 DEF ScreenNames, Writing, Outside, On
    <2>2. ShownRight(Go(ui, "Drive"), open, store, pending, intent)
      BY <1>0, <2>1, AwayRight
    <2> QED BY <1>3, <2>2, TurnRight
  <1>4. CASE On({"Contact", "File"}) /\ Turn(Go(ui, "Home"))
    <2>1. /\ "Home" \in ScreenNames \ (Writing \cup {"Contact"}) /\ "Home" \notin Outside
          /\ ui.screen \notin Outside
      BY <1>4 DEF ScreenNames, Writing, Outside, On
    <2>2. ShownRight(Go(ui, "Home"), open, store, pending, intent)
      BY <1>0, <2>1, AwayRight
    <2> QED BY <1>4, <2>2, TurnRight
  <1>5. CASE On({"Block", "Message"}) /\ Turn(Closed(ui))
    <2>1. /\ "Home" \in ScreenNames \ (Writing \cup {"Contact"}) /\ "Home" \notin Outside
          /\ ui.screen \notin Outside
      BY <1>5 DEF ScreenNames, Writing, Outside, On
    <2>2. open = TRUE
      BY <2>1
    <2>3. ShownRight([ui EXCEPT !.pager = ""], TRUE, store, pending, intent)
      BY <1>0, <2>2, PagedRight
    <2>4. ShownRight(Closed(ui), TRUE, store, pending, intent)
      BY <2>1, <2>3, AwayRight DEF Closed
    <2> QED BY <1>5, <2>2, <2>4, TurnRight
  <1> QED BY <1>1, <1>2, <1>3, <1>4, <1>5 DEF Escape

LEMMA MenuStep ==
  ASSUME ScreenInv, Type \/ TypePath \/ AddAlias \/ ReadBlock \/ NameAlias \/ PickFile
  PROVE  ScreenInv'
  <1> USE Opened
  <1>0. ShownRight(ui, open, store, pending, intent)
    BY DEF ScreenInv
  <1>1. CASE Type
    <2>1. (~ui.text) \in BOOLEAN /\ [ui EXCEPT !.text = ~@] = [ui EXCEPT !.text = ~ui.text]
      OBVIOUS
    <2>2. ShownRight([ui EXCEPT !.text = ~@], open, store, pending, intent)
      BY <1>0, <2>1, TextRight
    <2> QED BY <1>1, <2>2, TurnRight DEF Type
  <1>2. CASE TypePath
    <2>1. /\ "DrivePath" \in ScreenNames \ (Writing \cup {"Contact"})
          /\ "DrivePath" \in Outside /\ ui.screen \in Outside
      BY <1>2 DEF TypePath, On, ScreenNames, Writing, Outside
    <2>2. ShownRight(Go(ui, "DrivePath"), open, store, pending, intent)
      BY <1>0, <2>1, AwayRight
    <2> QED BY <1>2, <2>2, TurnRight DEF TypePath
  <1>3. CASE AddAlias
    <2>1. /\ "Alias" \in ScreenNames \ (Writing \cup {"Contact"})
          /\ "Alias" \notin Outside /\ ui.screen \notin Outside
      BY <1>3 DEF AddAlias, On, ScreenNames, Writing, Outside, TextScreens
    <2>2. ShownRight(Go(ui, "Alias"), open, store, pending, intent)
      BY <1>0, <2>1, AwayRight
    <2> QED BY <1>3, <2>2, TurnRight DEF AddAlias
  <1>4. "Paste" \in ScreenNames \ (Writing \cup {"Contact"}) /\ "Paste" \notin Outside
    BY DEF ScreenNames, Writing, Outside, TextScreens
  <1>5. CASE ReadBlock
    <2>1. open = TRUE
      BY <1>5 DEF ReadBlock, On, Outside
    <2>2. ShownRight([ui EXCEPT !.card = FALSE], TRUE, store, pending, intent)
      BY <1>0, <2>1, CardRight
    <2>3. ShownRight(Go([ui EXCEPT !.card = FALSE], "Paste"), TRUE, store, pending, intent)
      BY <1>4, <2>2, AwayRight
    <2> QED BY <1>5, <2>1, <2>3, TurnRight DEF ReadBlock
  <1>6. CASE NameAlias
    <2>1. open = TRUE
      BY <1>6 DEF NameAlias, On, Outside
    <2>2. PICK a \in Aliases : Turn(Go([ui EXCEPT !.alias = a, !.card = TRUE], "Paste"))
      BY <1>6 DEF NameAlias
    <2>3. ShownRight([ui EXCEPT !.alias = a, !.card = TRUE], TRUE, store, pending, intent)
      BY <1>0, <2>1, CardRight
    <2>4. ShownRight(Go([ui EXCEPT !.alias = a, !.card = TRUE], "Paste"),
                     TRUE, store, pending, intent)
      BY <1>4, <2>3, AwayRight
    <2> QED BY <2>1, <2>2, <2>4, TurnRight
  <1>7. CASE PickFile
    <2>1. ShownRight(Go(ui, "FilePick"), open, store, pending, intent)
      BY <1>0, <1>7, BetweenRight DEF PickFile, On, Writing
    <2> QED BY <1>7, <2>1, TurnRight DEF PickFile
  <1> QED BY <1>1, <1>2, <1>3, <1>5, <1>6, <1>7

LEMMA ChooseStep ==
  ASSUME ScreenInv, Select \/ Mark \/ WriteGroup \/ WriteContact
  PROVE  ScreenInv'
  <1> USE Opened
  <1>1. open = TRUE
    BY DEF Select, Mark, WriteGroup, WriteContact, On, Outside
  <1>0. /\ ShownRight(ui, TRUE, store, pending, intent)
        /\ ui.rows.known \subseteq store.known /\ ui.rows.trusted \subseteq store.trusted
        /\ ui.marks \subseteq store.trusted
    BY <1>1 DEF ScreenInv, ShownRight, Verified, Named
  <1>2. CASE Select
    <2>1. PICK a \in store.known : Turn(Go([ui EXCEPT !.contact = a], "Contact"))
      BY <1>0, <1>2 DEF Select
    <2>2. ShownRight(Go([ui EXCEPT !.contact = a], "Contact"), TRUE, store, pending, intent)
      BY <1>0, ContactRight
    <2> QED BY <1>1, <2>1, <2>2, TurnRight
  <1>3. CASE Mark
    <2>1. PICK a \in store.trusted :
            Turn([ui EXCEPT !.marks = (@ \ {a}) \cup ({a} \ @)])
      BY <1>0, <1>3 DEF Mark
    <2> DEFINE m == (ui.marks \ {a}) \cup ({a} \ ui.marks)
    <2>2. m \in SUBSET store.trusted
      BY <1>0
    <2>3. Turn([ui EXCEPT !.marks = m])
      BY <2>1
    <2> HIDE DEF m
    <2>4. ShownRight([ui EXCEPT !.marks = m], TRUE, store, pending, intent)
      BY <1>0, <2>2, MarksRight
    <2> QED BY <1>1, <2>3, <2>4, TurnRight
  <1>4. CASE WriteGroup
    <2>1. ShownRight(ui', TRUE, store, pending, intent')
      BY <1>0, <1>4, WriteGroupRight DEF WriteGroup
    <2>2. intent' \subseteq Aliases /\ World
      BY <1>4 DEF WriteGroup, Model
    <2> QED BY <1>1, <2>1, <2>2, KeyRight
  <1>5. CASE WriteContact
    <2>1. PICK next \in Writing : ui' = Go(ui, next)
      BY <1>5 DEF WriteContact, Writing
    <2>2. ui.screen = "Contact" /\ intent' = {ui.contact} /\ World
      BY <1>5 DEF WriteContact, On
    <2>3. ShownRight(ui', TRUE, store, pending, intent')
      BY <1>0, <2>1, <2>2, WriteContactRight
    <2>4. intent' \subseteq Aliases
      BY <2>2 DEF ScreenInv, ShownRight, Named, Book
    <2> QED BY <1>1, <2>2, <2>3, <2>4, KeyRight
  <1> QED BY <1>2, <1>3, <1>4, <1>5

(* The vault is opened, made, or stays shut.                               *)
LEMMA OpenStep ==
  ASSUME ScreenInv, UsePath \/ CreateIdentity
  PROVE  ScreenInv'
  <1> USE Opened
  <1>1. /\ UNCHANGED <<pending, outbox, intent, sent, running>>
        /\ ui.screen \in Outside
    BY DEF UsePath, CreateIdentity, On, Outside
  <1>2. /\ ShownRight(ui, FALSE, store, pending, intent) /\ open = FALSE
        /\ store = NoBook /\ ui.card = FALSE
    BY <1>1 DEF ScreenInv, ShownRight, Matches, Empty
  <1>3. SUFFICES /\ ShownRight(ui', open', store', pending, intent)
                 /\ open' \in BOOLEAN /\ store' \in Book /\ Sane(store') /\ OneBook(disk')
                 /\ Fine \/ Mishap
    BY <1>1, MishapType DEF ScreenInv, HeldRight, SentToChosen
  <1>4. OneBook(disk) /\ OneBook({NoBook})
    BY NothingHeld, BookOnDisk DEF ScreenInv, HeldRight
  <1>5. /\ ShownRight(Clear(ui), FALSE, NoBook, pending, intent)
        /\ Clear(ui) \in Model /\ Clear(ui).card = FALSE
    BY <1>2, ClearRight DEF ShownRight
  <1>6. CASE UsePath
    <2>1. disk' = disk
      BY <1>6 DEF UsePath
    <2>2. CASE /\ disk # {} /\ Fine /\ open' = TRUE /\ store' \in disk
               /\ AfterUnlock(Clear(ui))
      <3>1. store' \in Book /\ Sane(store')
        BY <1>4, <2>2 DEF OneBook
      <3>2. ShownRight(ui', TRUE, store', pending, intent)
        BY <1>5, <2>2, <3>1, HomeRight DEF AfterUnlock, Home
      <3> QED BY <1>4, <2>1, <2>2, <3>1, <3>2
    <2>3. CASE disk = {} /\ Fine /\ ui' = Go(Clear(ui), "Setup") /\ UNCHANGED <<open, store>>
      <3>1. "Setup" \in ScreenNames \ (Writing \cup {"Contact"}) /\ "Setup" \in Outside
        BY DEF ScreenNames, Writing, Outside
      <3>2. ShownRight(Go(Clear(ui), "Setup"), FALSE, NoBook, pending, intent)
        BY <1>5, <3>1, AwayRight
      <3> QED BY <1>2, <1>4, <2>1, <2>3, <3>2, NothingHeld
    <2>4. CASE Mishap /\ ui' = Clear(ui) /\ open' = FALSE /\ store' = NoBook
      BY <1>4, <1>5, <2>1, <2>4, NothingHeld
    <2> QED BY <1>6, <2>2, <2>3, <2>4 DEF UsePath
  <1>7. CASE CreateIdentity
    <2>1. CASE /\ disk = {} /\ disk' = {NoBook} /\ Fine
               /\ open' = TRUE /\ store' = NoBook /\ AfterUnlock(ui)
      <3>1. ShownRight(ui', TRUE, NoBook, pending, intent)
        BY <1>2, <2>1, NothingHeld, HomeRight DEF AfterUnlock, Home
      <3> QED BY <1>4, <2>1, <3>1, NothingHeld
    <2>2. CASE Mishap /\ disk' \in {disk, {NoBook}} /\ UNCHANGED <<ui, open, store>>
      BY <1>2, <1>4, <2>2, NothingHeld
    <2> QED BY <1>7, <2>1, <2>2 DEF CreateIdentity
  <1> QED BY <1>6, <1>7

(* A lock, the end of the program, or its death.                           *)
LEMMA LeaveStep ==
  ASSUME ScreenInv, LeaveNothing, running' \in BOOLEAN,
         UNCHANGED <<disk, outbox, intent, sent, mishaps>>
  PROVE  ScreenInv'
  <1>1. ShownRight(ui', open', store', pending', intent')
    BY ForgottenRight DEF LeaveNothing
  <1>2. HeldRight'
    BY NothingHeld DEF LeaveNothing, ScreenInv, HeldRight, SentToChosen
  <1> QED BY <1>1, <1>2 DEF ScreenInv

-----------------------------------------------------------------------------
(* The operations on an open vault.                                        *)

(* What an operation leaves right, whether its save went through or not.   *)
LEMMA OperationRight ==
  ASSUME ScreenInv, open, Keeps, NEW new \in Book, Sane(new),
         store' = new, disk' \in {disk, {new}}, Fine \/ Mishap,
         pending' \in FileKind \cup {""},
         UNCHANGED sent \/ sent' = [to |-> intent, intent |-> intent],
         ShownRight(ui', TRUE, new, pending', intent)
  PROVE  ScreenInv'
  <1>1. OneBook(disk')
    BY BookOnDisk DEF ScreenInv, HeldRight
  <1>2. mishaps' \in 0 .. MaxMishap
    BY MishapType DEF ScreenInv, HeldRight
  <1>3. sent' \in [to : SUBSET Aliases, intent : SUBSET Aliases] /\ SentToChosen'
    <2>1. /\ intent \in SUBSET Aliases /\ SentToChosen
          /\ sent \in [to : SUBSET Aliases, intent : SUBSET Aliases]
      BY DEF ScreenInv, HeldRight
    <2>2. CASE sent' = [to |-> intent, intent |-> intent]
      BY <2>1, <2>2 DEF SentToChosen
    <2>3. CASE UNCHANGED sent
      BY <2>1, <2>3 DEF SentToChosen
    <2> QED BY <2>2, <2>3
  <1>4. open' = TRUE /\ outbox' = outbox /\ intent' = intent /\ running' = running
    BY DEF Keeps, ScreenInv, HeldRight
  <1>5. HeldRight'
    BY <1>1, <1>2, <1>3, <1>4 DEF ScreenInv, HeldRight
  <1> QED BY <1>4, <1>5 DEF ScreenInv

LEMMA ReadingStep ==
  ASSUME ScreenInv, ShowCard \/ Receive
  PROVE  ScreenInv'
  <1>1. /\ open = TRUE /\ Keeps /\ UNCHANGED sent
        /\ store \in Book /\ Sane(store) /\ ShownRight(ui, TRUE, store, pending, intent)
        /\ pending \in FileKind \cup {""}
    BY DEF ShowCard, Receive, Vaulted, ScreenInv, HeldRight
  <1>2. {"Block", "Message", "File"} \subseteq ScreenNames \ (Writing \cup {"Contact"})
        /\ {"Block", "Message", "File"} \cap Outside = {}
    BY DEF ScreenNames, Writing, Outside, TextScreens
  <1>3. store' = store /\ disk' \in {disk, {store}} /\ (Fine \/ Mishap)
    BY DEF ShowCard, Receive, Saved, Unsaved, Unmoved
  <1>4. SUFFICES pending' \in FileKind \cup {""} /\ ShownRight(ui', TRUE, store, pending', intent)
    BY <1>1, <1>3, OperationRight
  <1>5. CASE ShowCard
    <2>1. ShownRight([ui EXCEPT !.pager = "block"], TRUE, store, pending, intent)
      BY <1>1, PagedRight
    <2>2. ShownRight(Go([ui EXCEPT !.pager = "block"], "Block"), TRUE, store, pending, intent)
      BY <1>2, <2>1, AwayRight
    <2> QED BY <1>1, <1>5, <2>2 DEF ShowCard
  <1>6. CASE Receive
    <2> DEFINE r == Relist(Clear(ui))
    <2>1. ShownRight(Clear(ui), TRUE, store, pending, intent)
      BY <1>1, ClearRight
    <2>2. ShownRight(r, TRUE, store, pending, intent)
      BY <1>1, <1>3, <2>1, RelistRight DEF Relist
    <2> HIDE DEF r
    <2>3. CASE \E f \in FileKind :
                 /\ pending' = f
                 /\ ui' = Go([r EXCEPT !.pager = "", !.file = f], "File")
      <3>1. PICK f \in FileKind :
              pending' = f /\ ui' = Go([r EXCEPT !.pager = "", !.file = f], "File")
        BY <2>3
      <3>2. ShownRight(r, TRUE, store, f, intent)
        BY <2>2, GrownRight
      <3>3. ShownRight([r EXCEPT !.pager = "", !.file = f], TRUE, store, f, intent)
        BY <3>2, FileRight
      <3>4. ShownRight(Go([r EXCEPT !.pager = "", !.file = f], "File"), TRUE, store, f, intent)
        BY <1>2, <3>3, AwayRight
      <3> QED BY <3>1, <3>4
    <2>4. CASE UNCHANGED pending /\ ui' = Go([r EXCEPT !.pager = "message"], "Message")
      <3>1. ShownRight([r EXCEPT !.pager = "message"], TRUE, store, pending, intent)
        BY <2>2, PagedRight
      <3>2. ShownRight(Go([r EXCEPT !.pager = "message"], "Message"),
                       TRUE, store, pending, intent)
        BY <1>2, <3>1, AwayRight
      <3> QED BY <1>1, <2>4, <3>2
    <2>5. CASE UNCHANGED pending /\ ui' = Clear(ui)
      BY <1>1, <2>1, <2>5
    <2> QED BY <1>6, <2>3, <2>4, <2>5 DEF Receive, r
  <1> QED BY <1>5, <1>6

LEMMA ImportStep == ASSUME ScreenInv, ImportCard PROVE ScreenInv'
  <1>1. /\ open = TRUE /\ Keeps /\ UNCHANGED <<pending, sent>>
        /\ store \in Book /\ Sane(store) /\ ShownRight(ui, TRUE, store, pending, intent)
        /\ pending \in FileKind \cup {""} /\ ui.alias \in Aliases
    BY DEF ImportCard, Vaulted, ScreenInv, HeldRight, ShownRight, Named
  <1> DEFINE new == [store EXCEPT !.known = @ \cup {ui.alias}]
  <1>2. new \in Book /\ Sane(new)
    BY <1>1 DEF Book, Sane
  <1>3. \E b \in {store, new} :
          store' = b /\ disk' \in {disk, {b}} /\ (Fine \/ Mishap)
    BY DEF ImportCard, Saved, Unsaved, Unmoved
  <1> HIDE DEF new
  <1>4. /\ store' \in Book /\ Sane(store') /\ disk' \in {disk, {store'}}
        /\ Fine \/ Mishap
    BY <1>1, <1>2, <1>3
  <1>5. ShownRight(Clear(ui), TRUE, store, pending, intent)
    BY <1>1, ClearRight
  <1>6. Clear(ui) \in Model /\ (Clear(ui).card => Clear(ui).alias \in Aliases)
    BY <1>5 DEF ShownRight, Named
  <1>7. CASE ui' = Home(Clear(ui))
    <2>1. ShownRight(Home(Clear(ui)), TRUE, store', pending, intent)
      BY <1>4, <1>6, HomeRight DEF Home
    <2> QED BY <1>1, <1>4, <1>7, <2>1, OperationRight
  <1>8. CASE Unmoved /\ Fine /\ ui' = Clear(ui)
    BY <1>1, <1>5, <1>8, OperationRight DEF Unmoved
  <1> QED BY <1>7, <1>8 DEF ImportCard

LEMMA TrustStep == ASSUME ScreenInv, Trust PROVE ScreenInv'
  <1>1. /\ open = TRUE /\ Keeps /\ UNCHANGED <<pending, sent>>
        /\ store \in Book /\ Sane(store) /\ ShownRight(ui, TRUE, store, pending, intent)
        /\ pending \in FileKind \cup {""} /\ ui.contact \in store.known
    BY DEF Trust, Vaulted, On, ScreenInv, HeldRight, ShownRight, Named
  <1> DEFINE new == [store EXCEPT !.trusted = @ \cup {ui.contact}]
  <1>2. /\ new \in Book /\ Sane(new)
        /\ store.known \subseteq new.known /\ store.trusted \subseteq new.trusted
    BY <1>1 DEF Book, Sane
  <1>3. \E b \in {store, new} :
          store' = b /\ disk' \in {disk, {b}} /\ (Fine \/ Mishap)
    BY DEF Trust, Saved, Unsaved, Unmoved
  <1> HIDE DEF new
  <1>4. /\ store' \in Book /\ Sane(store') /\ disk' \in {disk, {store'}}
        /\ Fine \/ Mishap
        /\ store.known \subseteq store'.known /\ store.trusted \subseteq store'.trusted
    BY <1>1, <1>2, <1>3
  <1>5. ShownRight(ui, TRUE, store', pending, intent)
    BY <1>1, <1>4, GrownRight
  <1>6. ShownRight(Relist(ui), TRUE, store', pending, intent)
    BY <1>4, <1>5, RelistRight DEF Relist
  <1>7. ui' \in {ui, Relist(ui)}
    BY DEF Trust
  <1> QED BY <1>1, <1>4, <1>5, <1>6, <1>7, OperationRight

LEMMA SendStep == ASSUME ScreenInv, Send PROVE ScreenInv'
  <1>1. /\ open = TRUE /\ Keeps /\ UNCHANGED pending
        /\ store \in Book /\ Sane(store) /\ ShownRight(ui, TRUE, store, pending, intent)
        /\ pending \in FileKind \cup {""} /\ intent \in SUBSET Aliases
    BY DEF Send, Vaulted, ScreenInv, HeldRight
  <1>2. Recipients = intent
    BY <1>1 DEF Send, Vaulted, On, ShownRight, Aimed, Writing, Recipients
  <1>3. store' = store /\ disk' \in {disk, {store}} /\ (Fine \/ Mishap)
    BY DEF Send, Saved, Unsaved, Unmoved
  <1>4. ShownRight(Clear(ui), TRUE, store, pending, intent)
    BY <1>1, ClearRight
  <1> DEFINE r == Relist(Clear(ui))
  <1>5. ShownRight(r, TRUE, store, pending, intent)
    BY <1>1, <1>3, <1>4, RelistRight DEF Relist
  <1> HIDE DEF r
  <1>6. CASE /\ sent' = [to |-> Recipients, intent |-> intent]
             /\ ui' = Go([r EXCEPT !.pager = "block"], "Block")
    <2>1. "Block" \in ScreenNames \ (Writing \cup {"Contact"}) /\ "Block" \notin Outside
      BY DEF ScreenNames, Writing, Outside, TextScreens
    <2>2. ShownRight([r EXCEPT !.pager = "block"], TRUE, store, pending, intent)
      BY <1>5, PagedRight
    <2>3. ShownRight(Go([r EXCEPT !.pager = "block"], "Block"), TRUE, store, pending, intent)
      BY <2>1, <2>2, AwayRight
    <2> QED BY <1>1, <1>2, <1>3, <1>6, <2>3, OperationRight
  <1>7. CASE UNCHANGED sent /\ ui' = Clear(ui)
    BY <1>1, <1>3, <1>4, <1>7, OperationRight
  <1> QED BY <1>6, <1>7 DEF Send, r

LEMMA NeighbourStep == ASSUME ScreenInv, Neighbour PROVE ScreenInv'
  <1>1. /\ UNCHANGED <<ui, open, store, disk, pending, intent, sent, running>>
        /\ outbox' \in BOOLEAN /\ (Fine \/ Mishap)
    BY DEF Neighbour
  <1>2. mishaps' \in 0 .. MaxMishap
    BY <1>1, MishapType DEF ScreenInv, HeldRight
  <1> QED BY <1>1, <1>2 DEF ScreenInv, HeldRight, SentToChosen

LEMMA ScreenStep == ASSUME ScreenInv, ScreenNext PROVE ScreenInv'
  <1>1. CASE Lock
    <2>1. running' \in BOOLEAN
      BY <1>1 DEF Lock, ScreenInv, HeldRight
    <2> QED BY <1>1, <2>1, LeaveStep DEF Lock
  <1> QED BY <1>1, EscapeStep, MenuStep, ChooseStep, OpenStep, ReadingStep, ImportStep,
             TrustStep, SendStep, NeighbourStep
       DEF ScreenNext

LEMMA ScreensUntouched == ASSUME ScreenInv, ScreensStay PROVE ScreenInv'
BY DEF ScreenInv, HeldRight, SentToChosen, ScreensStay, screenVars

-----------------------------------------------------------------------------
(* The folder: the helper sleeps only once the program is gone.            *)

StagingInv == StagingTypeOK /\ (reaper = "waiting" => proc \in Gone)

LEMMA StagingStart == StagingInit => StagingInv
BY StagingAssumption DEF StagingInit, StagingInv, StagingTypeOK

(* Removing the folder leaves no file in it.                               *)
LEMMA Removed ==
  ASSUME StagingTypeOK, RemoveFolder
  PROVE  /\ folder' \in {"none", "made", "removed"}
         /\ files' \in 0 .. MaxFiles /\ (files' > 0 => folder' = "made")
BY StagingAssumption DEF StagingTypeOK, RemoveFolder

FolderStep ==
  \/ Prepare \/ StageFile \/ Leave \/ Kill \/ Cleanup \/ Return
  \/ Wake \/ Sweep \/ Tick \/ Dismiss \/ Teardown

LEMMA StagingStep == ASSUME StagingInv, FolderStep PROVE StagingInv'
  <1> USE StagingAssumption
  <1>1. CASE Prepare
    BY <1>1 DEF StagingInv, StagingTypeOK, Prepare, Gone
  <1>2. CASE StageFile
    BY <1>2 DEF StagingInv, StagingTypeOK, StageFile
  <1>3. CASE Leave \/ Kill
    BY <1>3 DEF StagingInv, StagingTypeOK, Leave, Kill, Gone
  <1>4. CASE Cleanup
    BY <1>4, Removed DEF StagingInv, StagingTypeOK, Cleanup, Gone
  <1>5. CASE Return
    <2>1. CASE reaper = "none"
      BY <1>5, <2>1, Removed DEF StagingInv, StagingTypeOK, Return, Gone
    <2>2. CASE reaper # "none"
      BY <1>5, <2>2 DEF StagingInv, StagingTypeOK, Return, Gone
    <2> QED BY <2>1, <2>2
  <1>6. CASE Wake
    <2>1. CASE Due
      BY <1>6, <2>1, Removed DEF StagingInv, StagingTypeOK, Wake
    <2>2. CASE ~Due
      BY <1>6, <2>2 DEF StagingInv, StagingTypeOK, Wake, Awake
    <2> QED BY <2>1, <2>2
  <1>7. CASE Sweep
    BY <1>7, Removed DEF StagingInv, StagingTypeOK, Sweep
  <1>8. CASE Tick
    BY <1>8 DEF StagingInv, StagingTypeOK, Tick
  <1>9. CASE Dismiss
    BY <1>9, Removed DEF StagingInv, StagingTypeOK, Dismiss
  <1>10. CASE Teardown
    BY <1>10 DEF StagingInv, StagingTypeOK, Teardown
  <1> QED BY <1>1, <1>2, <1>3, <1>4, <1>5, <1>6, <1>7, <1>8, <1>9, <1>10 DEF FolderStep

(* Who may take a file away.                                               *)
LEMMA FolderKept ==
  ASSUME StagingInv, FolderStep, files' < files
  PROVE  proc' # proc \/ Dismiss \/ (proc \in Gone /\ clock = Grace)
  <1>1. CASE Wake
    BY <1>1 DEF Wake, Awake, Due, RemoveFolder, StagingInv, StagingTypeOK
  <1>2. CASE Sweep
    BY <1>2 DEF Sweep, StagingInv
  <1>3. CASE StageFile
    BY <1>3 DEF StageFile, StagingInv, StagingTypeOK
  <1>4. CASE Prepare \/ Leave \/ Kill \/ Cleanup \/ Return \/ Dismiss
    BY <1>4 DEF Prepare, Leave, Kill, Cleanup, Return
  <1>5. CASE Tick \/ Teardown
    BY <1>5 DEF Tick, Teardown, StagingInv, StagingTypeOK
  <1> QED BY <1>1, <1>2, <1>3, <1>4, <1>5 DEF FolderStep

-----------------------------------------------------------------------------
(* The two together.                                                       *)

Inv == ScreenInv /\ StagingInv

LEMMA Parts ==
  ASSUME Next
  PROVE  /\ ScreenNext \/ ScreensStay \/ (LeaveNothing /\ running' = FALSE
              /\ UNCHANGED <<disk, outbox, intent, sent, mishaps>>)
         /\ FolderStep \/ FolderStays
BY DEF Next, Key, OpenFile, OpenReceived, QuitKey, Killed, Alone, Quit, FolderStep

LEMMA Invariant == Spec => []Inv
  <1>1. Init => Inv
    BY ScreenInit, StagingStart DEF Init, Inv
  <1>2. Inv /\ [Next]_vars => Inv'
    <2> SUFFICES ASSUME Inv, [Next]_vars PROVE Inv'
      OBVIOUS
    <2>1. ASSUME FolderStays PROVE StagingInv'
      BY <2>1 DEF Inv, StagingInv, StagingTypeOK, FolderStays, stagingVars
    <2>2. CASE Next
      <3>1. ScreenInv'
        BY <2>2, Parts, ScreenStep, ScreensUntouched, LeaveStep DEF Inv
      <3>2. StagingInv'
        BY <2>1, <2>2, Parts, StagingStep DEF Inv
      <3> QED BY <3>1, <3>2 DEF Inv
    <2>3. CASE UNCHANGED vars
      <3>1. ScreensStay /\ FolderStays
        BY <2>3 DEF vars, ScreensStay, FolderStays
      <3> QED BY <2>1, <3>1, ScreensUntouched DEF Inv
    <2> QED BY <2>2, <2>3
  <1> QED BY <1>1, <1>2, PTL DEF Spec

(* Every variable of the screens and of the folder keeps its type.         *)
THEOREM TypeCorrect == Spec => []TypeOK
  <1>1. Inv => TypeOK
    BY ScreenType DEF Inv, StagingInv, TypeOK
  <1> QED BY <1>1, Invariant, PTL

(* However the vault is closed, by key, by the timer, on a suspend or with *)
(* the process, no row, mark, recipient, page or received file is left     *)
(* (ui.cpp, lock; ui_model.cpp, Model::forget).                            *)
THEOREM NothingLeft == Spec => []LockLeavesNothing
  <1>1. Inv => LockLeavesNothing
    BY ScreenImplies DEF Inv
  <1> QED BY <1>1, Invariant, PTL

(* A screen that works on a vault has one: the loop's guard never drops a  *)
(* key, after any failed open, save or creation (ui.cpp, run).             *)
THEOREM VaultBehindScreens == Spec => []VaultWhereNeeded
  <1>1. Inv => VaultWhereNeeded
    BY ScreenImplies DEF Inv
  <1> QED BY <1>1, Invariant, PTL

(* A message or file is encrypted for whom the user chose when starting to *)
(* write it (ui.cpp, resolve_group_recipients; ui_model.cpp, Model::go).   *)
THEOREM SentAsMeant == Spec => []SentToChosen
  <1>1. Inv => SentToChosen
    BY ScreenImplies DEF Inv
  <1> QED BY <1>1, Invariant, PTL

(* Marks, recipients and the ticks on the rows stand for contacts verified *)
(* in the open vault (ui_model.cpp, toggle_mark and show_contacts).        *)
THEOREM OnlyVerified == Spec => []MarkedAreVerified
  <1>1. Inv => MarkedAreVerified
    BY ScreenImplies DEF Inv
  <1> QED BY <1>1, Invariant, PTL

(* A staged file stays for its reader until the program's own exit, the    *)
(* user's dialog, or the end of the grace period (file.cpp, the reaper).   *)
THEOREM StagedFileStays == Spec => KeptUntilDue
  <1>1. Inv /\ [Next]_vars =>
          [files' < files => \/ proc' # proc \/ Dismiss
                             \/ proc \in Gone /\ clock = Grace]_stagingVars
    <2> SUFFICES ASSUME Inv, [Next]_vars, ~UNCHANGED stagingVars, files' < files
                 PROVE  proc' # proc \/ Dismiss \/ (proc \in Gone /\ clock = Grace)
      OBVIOUS
    <2>1. FolderStep
      BY Parts DEF FolderStays, vars, stagingVars
    <2> QED BY <2>1, FolderKept DEF Inv
  <1> QED BY <1>1, Invariant, PTL DEF Spec, KeptUntilDue
=============================================================================
