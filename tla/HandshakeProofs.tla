--------------------------- MODULE HandshakeProofs ---------------------------
(***************************************************************************)
(* Theorems about Handshake, for every number of openings, resets,         *)
(* rotations and suites and every size of the history: type correctness,   *)
(* the replay protection, that a suite never goes down, and that           *)
(* simultaneous openings leave the contacts in one session.                *)
(***************************************************************************)
EXTENDS Handshake, FiniteSetTheorems, TLAPS

(* The other of two contacts.                                              *)
LEMMA PeerIsOther ==
  ASSUME NEW p \in Party PROVE Peer(p) \in Party /\ Peer(p) # p
  <1>1. ASSUME \A q \in Party : q = p PROVE FALSE
    <2>1. Party = {p}
      BY <1>1
    <2> QED BY <2>1, FS_Singleton, HandshakeAssumption
  <1> QED BY <1>1 DEF Peer

LEMMA NewestIsSuite == Newest \in Suites
BY HandshakeAssumption DEF Newest

LEMMA CardType ==
  ASSUME NEW k \in Store, NEW suite \in Suites PROVE CardOf(k, suite) \in Card
BY DEF CardOf, Card, Store

-----------------------------------------------------------------------------
(* Types.                                                                  *)

LEMMA TypeInit == Init => TypeOK
  <1> SUFFICES ASSUME Init PROVE TypeOK
    OBVIOUS
  <1> DEFINE first == [spks |-> {1}, nextSpk |-> 2,
                       otpks |-> 1 .. Prekeys, nextOtpk |-> Prekeys + 1]
  <1>1. first \in Store
    BY HandshakeAssumption DEF Store
  <1>2. PICK suite \in [Party -> Suites] :
          /\ contact = [p \in Party |->
               [card |-> CardOf(first, suite[p]), minimum |-> suite[p],
                verified |-> TRUE]]
          /\ cards = [p \in Party |-> {CardOf(first, suite[Peer(p)])}]
    BY DEF Init
  <1>3. \A s \in Suites : CardOf(first, s) \in Card
    BY <1>1, CardType
  <1>4. contact \in [Party -> Contact]
    BY <1>2, <1>3 DEF Contact
  <1>5. cards \in [Party -> SUBSET Card]
    BY <1>2, <1>3, PeerIsOther
  <1>6. prekeys \in [Party -> Store]
    BY <1>1 DEF Init
  <1>7. /\ session \in [Party -> SUBSET SessionId]
        /\ \A p \in Party : \A x, y \in session[p] : x = y
        /\ history \in [Party -> SUBSET Accepted]
        /\ openings \subseteq Opening /\ follows \subseteq Follow
        /\ {resets, rotations, others} \subseteq Nat
    BY DEF Init
  <1>8. accepted \in [Party -> Seq(Opening)]
    BY DEF Init
  <1> QED BY <1>4, <1>5, <1>6, <1>7, <1>8 DEF TypeOK

(* Replacing a party's session leaves it with one.                         *)
LEMMA OneSession ==
  ASSUME TypeOK, NEW p \in Party, NEW s \in SessionId,
         session' = [session EXCEPT ![p] = {s}]
  PROVE  /\ session' \in [Party -> SUBSET SessionId]
         /\ \A q \in Party : \A x, y \in session'[q] : x = y
BY DEF TypeOK

(* An accepted opening leaves a well-typed store, contact and history.     *)
LEMMA PrunedType ==
  ASSUME TypeOK, NEW p \in Party PROVE Pruned(p) \subseteq history[p]
BY DEF Pruned

LEMMA SpentType ==
  ASSUME NEW k \in Store, NEW used PROVE Spent(k, used) \in Store
BY DEF Spent, Store

LEMMA RotatedType ==
  ASSUME NEW k \in Store PROVE Rotated(k) \in Store
  <1> DEFINE kept == {i \in k.spks \cup {k.nextSpk} : i + 2 > k.nextSpk}
  <1>1. kept \subseteq Nat /\ k.nextSpk + 1 \in Nat \ {0}
    BY DEF Store
  <1>2. Rotated(k) = [k EXCEPT !.spks = kept, !.nextSpk = k.nextSpk + 1]
    BY DEF Rotated, Store
  <1> HIDE DEF kept
  <1> QED BY <1>1, <1>2 DEF Store

LEMMA TypeStep == TypeOK /\ [Next]_vars => TypeOK'
  <1> SUFFICES ASSUME TypeOK, [Next]_vars PROVE TypeOK'
    OBVIOUS
  <1>1. ASSUME NEW p \in Party, Open(p) PROVE TypeOK'
    <2> DEFINE c == contact[p].card
    <2>1. PICK id \in 1 .. MaxOpen, otpk \in SUBSET c.otpks :
            /\ openings' = openings \cup
                 {[id |-> id, from |-> p, spk |-> c.spk, otpk |-> otpk, suite |-> c.suite]}
            /\ contact' = [contact EXCEPT ![p].card.otpks = @ \ otpk]
            /\ session' = [session EXCEPT ![p] =
                 {[id |-> id, suite |-> c.suite, confirmed |-> FALSE]}]
      BY <1>1 DEF Open
    <2>2. contact[p] \in Contact /\ c \in Card
      BY DEF TypeOK, Contact
    <2>3. id \in Nat /\ c.spk \in Nat /\ c.suite \in Suites /\ otpk \in SUBSET Nat
      BY <2>2, HandshakeAssumption DEF Card
    <2>4. openings' \subseteq Opening
      BY <2>1, <2>3 DEF TypeOK, Opening
    <2>5. contact' \in [Party -> Contact]
      BY <2>1, <2>2 DEF TypeOK, Contact, Card
    <2>6. /\ session' \in [Party -> SUBSET SessionId]
          /\ \A q \in Party : \A x, y \in session'[q] : x = y
      <3>1. [id |-> id, suite |-> c.suite, confirmed |-> FALSE] \in SessionId
        BY <2>3 DEF SessionId
      <3> QED BY <2>1, <3>1, OneSession
    <2> QED BY <1>1, <2>4, <2>5, <2>6 DEF Open, TypeOK
  <1>2. ASSUME NEW p \in Party, SendFollow(p) PROVE TypeOK'
    BY <1>2 DEF SendFollow, TypeOK, Follow, SessionId
  <1>3. ASSUME NEW p \in Party, NEW o \in openings, Accept(p, o) PROVE TypeOK'
    <2>1. o \in Opening /\ contact[p] \in Contact /\ prekeys[p] \in Store
      BY DEF TypeOK
    <2>2. o.id \in Nat /\ o.spk \in Nat /\ o.from \in Party /\ o.suite \in Suites
      BY <2>1 DEF Opening
    <2>3. history' \in [Party -> SUBSET Accepted]
      BY <1>3, <2>2, PrunedType DEF Accept, TypeOK, Accepted
    <2>4. /\ session' \in [Party -> SUBSET SessionId]
          /\ \A q \in Party : \A x, y \in session'[q] : x = y
      <3>1. [id |-> o.id, suite |-> o.suite, confirmed |-> TRUE] \in SessionId
        BY <2>2 DEF SessionId
      <3>2. session' = [session EXCEPT ![p] =
                          {[id |-> o.id, suite |-> o.suite, confirmed |-> TRUE]}]
        BY <1>3 DEF Accept, Established
      <3> QED BY <3>1, <3>2, OneSession
    <2>5. prekeys' \in [Party -> Store]
      BY <1>3, <2>1, SpentType DEF Accept, TypeOK
    <2>6. contact' \in [Party -> Contact]
      BY <1>3, <2>1, <2>2 DEF Accept, TypeOK, Contact
    <2>7. accepted' \in [Party -> Seq(Opening)]
      BY <1>3, <2>1 DEF Accept, TypeOK
    <2> QED BY <1>3, <2>3, <2>4, <2>5, <2>6, <2>7 DEF Accept, TypeOK
  <1>4. ASSUME NEW p \in Party, NEW f \in follows, Confirm(p, f) PROVE TypeOK'
    <2>1. PICK s \in session[p] :
            session' = [session EXCEPT ![p] = {[s EXCEPT !.confirmed = TRUE]}]
      BY <1>4 DEF Confirm
    <2>2. [s EXCEPT !.confirmed = TRUE] \in SessionId
      <3>1. s \in SessionId
        BY DEF TypeOK
      <3> QED BY <3>1 DEF SessionId
    <2>3. /\ session' \in [Party -> SUBSET SessionId]
          /\ \A q \in Party : \A x, y \in session'[q] : x = y
      BY <2>1, <2>2, OneSession
    <2> QED BY <1>4, <2>3 DEF Confirm, TypeOK
  <1>5. ASSUME NEW p \in Party, ResetSession(p) PROVE TypeOK'
    BY <1>5 DEF ResetSession, TypeOK
  <1>6. ASSUME NEW p \in Party, AddContact(p) PROVE TypeOK'
    <2>1. PICK c \in cards[Peer(p)] :
            contact' = [contact EXCEPT ![p] =
              [card |-> c, minimum |-> c.suite, verified |-> FALSE]]
      BY <1>6 DEF AddContact
    <2>2. c \in Card
      BY PeerIsOther DEF TypeOK
    <2>3. [card |-> c, minimum |-> c.suite, verified |-> FALSE] \in Contact
      BY <2>2 DEF Card, Contact
    <2>4. contact' \in [Party -> Contact]
      BY <2>1, <2>3 DEF TypeOK
    <2> QED BY <1>6, <2>4 DEF AddContact, TypeOK
  <1>7. ASSUME NEW p \in Party, Trust(p) PROVE TypeOK'
    <2>1. contact' \in [Party -> Contact]
      <3>1. [contact[p] EXCEPT !.verified = TRUE] \in Contact
        BY DEF TypeOK, Contact
      <3>2. contact' = [contact EXCEPT ![p] = [contact[p] EXCEPT !.verified = TRUE]]
        BY <1>7, Zenon DEF Trust
      <3> QED BY <3>1, <3>2 DEF TypeOK
    <2> QED BY <1>7, <2>1 DEF Trust, TypeOK
  <1>8. ASSUME NEW p \in Party, ExportCard(p) PROVE TypeOK'
    <2>1. CardOf(prekeys[p], Newest) \in Card
      BY CardType, NewestIsSuite DEF TypeOK
    <2> QED BY <1>8, <2>1 DEF ExportCard, TypeOK
  <1>9. ASSUME NEW p \in Party, RotateSignedPrekey(p) PROVE TypeOK'
    <2>1. Rotated(prekeys[p]) \in Store
      BY RotatedType DEF TypeOK
    <2>2. prekeys' \in [Party -> Store]
      BY <1>9, <2>1 DEF RotateSignedPrekey, TypeOK
    <2> QED BY <1>9, <2>2 DEF RotateSignedPrekey, TypeOK
  <1>10. ASSUME NEW p \in Party, Replenish(p) PROVE TypeOK'
    BY <1>10 DEF Replenish, TypeOK, Store
  <1>11. ASSUME NEW p \in Party, AcceptOther(p) PROVE TypeOK'
    <2>1. PICK k \in prekeys[p].spks, otpk \in prekeys[p].otpks :
            /\ history' = [history EXCEPT ![p] =
                 Pruned(p) \cup {[by |-> "other", id |-> others, spk |-> k]}]
            /\ prekeys' = [prekeys EXCEPT ![p] = Spent(@, {otpk})]
      BY <1>11 DEF AcceptOther
    <2>2. k \in Nat /\ others \in Nat
      BY DEF TypeOK, Store
    <2>3. history' \in [Party -> SUBSET Accepted]
      BY <2>1, <2>2, PrunedType DEF TypeOK, Accepted
    <2>4. prekeys' \in [Party -> Store]
      BY <2>1, SpentType DEF TypeOK
    <2> QED BY <1>11, <2>3, <2>4 DEF AcceptOther, TypeOK
  <1>12. CASE UNCHANGED vars
    BY <1>12 DEF vars, TypeOK
  <1> QED BY <1>1, <1>2, <1>3, <1>4, <1>5, <1>6, <1>7, <1>8, <1>9, <1>10, <1>11,
             <1>12 DEF Next

(* Whatever the two contacts and the others do, every state is well typed. *)
THEOREM TypeCorrect == Spec => []TypeOK
BY TypeInit, TypeStep, PTL DEF Spec

-----------------------------------------------------------------------------
(* The replay history and the one-time prekeys.                            *)

(* Every id names one opening.                                             *)
Unique == \A o, x \in openings : o.id = x.id => o = x

(* The prekeys a party still has are older than its next ones.             *)
Numbered ==
  \A p \in Party :
    /\ \A k \in prekeys[p].spks : k < prekeys[p].nextSpk
    /\ \A k \in prekeys[p].otpks : k < prekeys[p].nextOtpk

(* What a party has accepted: an opening that was sent, which its history  *)
(* knows or whose signed prekey is gone for good, and whose one-time       *)
(* prekeys are gone for good.                                              *)
Remembered(p, o) ==
  /\ o \in openings
  /\ o.spk < prekeys[p].nextSpk
  /\ \/ [by |-> o.from, id |-> o.id, spk |-> o.spk] \in history[p]
     \/ o.spk \notin prekeys[p].spks
  /\ \A k \in o.otpk : k < prekeys[p].nextOtpk /\ k \notin prekeys[p].otpks

ReplayInv ==
  /\ TypeOK
  /\ Unique
  /\ Numbered
  /\ \A p \in Party : \A i \in DOMAIN accepted[p] : Remembered(p, accepted[p][i])
  /\ AcceptedOnce
  /\ OneTimeUsedOnce

LEMMA ReplayInit == Init => ReplayInv
  <1> SUFFICES ASSUME Init PROVE ReplayInv
    OBVIOUS
  <1>1. TypeOK
    BY TypeInit
  <1>2. \A p \in Party : DOMAIN accepted[p] = {}
    BY DEF Init
  <1>3. Unique
    BY DEF Init, Unique
  <1>4. Numbered
    BY HandshakeAssumption DEF Init, Numbered
  <1> QED BY <1>1, <1>2, <1>3, <1>4 DEF ReplayInv, AcceptedOnce, OneTimeUsedOnce

(* What a step may do to a party's prekeys and history: new numbers are    *)
(* fresh, and a record is dropped only when its signed prekey was gone.    *)
Keeps(p) ==
  /\ \A k \in prekeys'[p].spks : k \in prekeys[p].spks \/ k >= prekeys[p].nextSpk
  /\ \A k \in prekeys'[p].otpks : k \in prekeys[p].otpks \/ k >= prekeys[p].nextOtpk
  /\ prekeys'[p].nextSpk >= prekeys[p].nextSpk
  /\ prekeys'[p].nextOtpk >= prekeys[p].nextOtpk
  /\ \A h \in history[p] : h \in history'[p] \/ h.spk \notin prekeys[p].spks
  /\ \A k \in prekeys'[p].spks : k < prekeys'[p].nextSpk
  /\ \A k \in prekeys'[p].otpks : k < prekeys'[p].nextOtpk

LEMMA KeepsStep ==
  ASSUME TypeOK, Numbered, [Next]_vars, NEW q \in Party PROVE Keeps(q)
  <1>0. /\ prekeys[q] \in Store /\ prekeys[q].spks \subseteq Nat
        /\ prekeys[q].otpks \subseteq Nat
        /\ prekeys[q].nextSpk \in Nat /\ prekeys[q].nextOtpk \in Nat
    BY DEF TypeOK, Store
  <1>1. CASE UNCHANGED <<prekeys, history>>
    BY <1>0, <1>1 DEF Keeps, Numbered
  <1>2. ASSUME NEW p \in Party, NEW used, NEW h,
               prekeys' = [prekeys EXCEPT ![p] = Spent(@, used)],
               history' = [history EXCEPT ![p] = Pruned(p) \cup {h}]
        PROVE  Keeps(q)
    <2>1. \A x \in history[q] : x \in history'[q] \/ x.spk \notin prekeys[q].spks
      BY <1>2 DEF Pruned, TypeOK
    <2>2. /\ prekeys'[q].spks = prekeys[q].spks
          /\ prekeys'[q].otpks \subseteq prekeys[q].otpks
          /\ prekeys'[q].nextSpk = prekeys[q].nextSpk
          /\ prekeys'[q].nextOtpk = prekeys[q].nextOtpk
      BY <1>0, <1>2 DEF Spent, Store, TypeOK
    <2> QED BY <1>0, <2>1, <2>2 DEF Keeps, Numbered
  <1>3. ASSUME NEW p \in Party, NEW o \in openings, Accept(p, o) PROVE Keeps(q)
    BY <1>2, <1>3 DEF Accept
  <1>4. ASSUME NEW p \in Party, AcceptOther(p) PROVE Keeps(q)
    BY <1>2, <1>4 DEF AcceptOther
  <1>5. ASSUME NEW p \in Party, RotateSignedPrekey(p) PROVE Keeps(q)
    <2>1. CASE q = p
      <3>1. prekeys'[q] = Rotated(prekeys[q]) /\ history' = history
        BY <1>5, <2>1 DEF RotateSignedPrekey, TypeOK
      <3>2. /\ prekeys'[q].spks \subseteq prekeys[q].spks \cup {prekeys[q].nextSpk}
            /\ prekeys'[q].otpks = prekeys[q].otpks
            /\ prekeys'[q].nextSpk = prekeys[q].nextSpk + 1
            /\ prekeys'[q].nextOtpk = prekeys[q].nextOtpk
        BY <1>0, <3>1 DEF Rotated, Store
      <3> QED BY <1>0, <3>1, <3>2 DEF Keeps, Numbered
    <2>2. CASE q # p
      <3>1. prekeys'[q] = prekeys[q] /\ history' = history
        BY <1>5, <2>2 DEF RotateSignedPrekey, TypeOK
      <3> QED BY <1>0, <3>1 DEF Keeps, Numbered
    <2> QED BY <2>1, <2>2
  <1>6. ASSUME NEW p \in Party, Replenish(p) PROVE Keeps(q)
    <2>1. /\ prekeys'[q].spks = prekeys[q].spks /\ history' = history
          /\ prekeys'[q].otpks \subseteq prekeys[q].otpks \cup {prekeys[q].nextOtpk}
          /\ prekeys'[q].nextSpk = prekeys[q].nextSpk
          /\ \/ prekeys'[q].nextOtpk = prekeys[q].nextOtpk + 1
             \/ prekeys'[q] = prekeys[q]
      BY <1>0, <1>6 DEF Replenish, TypeOK, Store
    <2> QED BY <1>0, <2>1 DEF Keeps, Numbered
  <1>7. ASSUME NEW p \in Party,
               \/ Open(p) \/ SendFollow(p) \/ (\E f \in follows : Confirm(p, f))
               \/ ResetSession(p) \/ AddContact(p) \/ Trust(p) \/ ExportCard(p)
        PROVE  UNCHANGED <<prekeys, history>>
    BY <1>7 DEF Open, SendFollow, Confirm, ResetSession, AddContact, Trust, ExportCard
  <1> QED BY <1>1, <1>3, <1>4, <1>5, <1>6, <1>7 DEF Next, vars

(* An opening a party remembers stays remembered.                          *)
LEMMA StaysRemembered ==
  ASSUME TypeOK, TypeOK', NEW p \in Party, Keeps(p), openings \subseteq openings',
         NEW o, Remembered(p, o)
  PROVE  Remembered(p, o)'
  <1>1. o \in Opening /\ o.spk \in Nat /\ o.otpk \subseteq Nat
    BY DEF Remembered, TypeOK, Opening
  <1>2. /\ prekeys[p].nextSpk \in Nat /\ prekeys[p].nextOtpk \in Nat
    BY DEF TypeOK, Store
  <1> DEFINE r == [by |-> o.from, id |-> o.id, spk |-> o.spk]
  <1>3. r \in history'[p] \/ o.spk \notin prekeys'[p].spks
    <2>1. CASE r \in history[p]
      <3>1. r \in history'[p] \/ o.spk \notin prekeys[p].spks
        BY <2>1 DEF Keeps
      <3> QED BY <1>1, <1>2, <3>1 DEF Keeps, Remembered
    <2>2. CASE o.spk \notin prekeys[p].spks
      BY <1>1, <1>2, <2>2 DEF Keeps, Remembered
    <2> QED BY <2>1, <2>2 DEF Remembered
  <1>4. o \in openings' /\ o.spk < prekeys'[p].nextSpk
    <2>1. prekeys'[p].nextSpk >= prekeys[p].nextSpk /\ o.spk < prekeys[p].nextSpk
      BY DEF Keeps, Remembered
    <2>2. prekeys'[p].nextSpk \in Nat
      BY DEF TypeOK, Store
    <2> QED BY <1>1, <1>2, <2>1, <2>2 DEF Remembered
  <1>5. \A k \in o.otpk : k < prekeys'[p].nextOtpk /\ k \notin prekeys'[p].otpks
    <2>1. prekeys'[p].nextOtpk \in Nat
      BY DEF TypeOK, Store
    <2> QED BY <1>1, <1>2, <2>1 DEF Keeps, Remembered
  <1> QED BY <1>3, <1>4, <1>5 DEF Remembered

(* Sessions are opened with fresh ids, and openings are never unsent.      *)
LEMMA UniqueStep ==
  ASSUME TypeOK, Unique, [Next]_vars PROVE Unique' /\ openings \subseteq openings'
  <1>1. ASSUME NEW p \in Party, Open(p)
        PROVE  Unique' /\ openings \subseteq openings'
    <2> DEFINE c == contact[p].card
    <2>1. PICK id \in 1 .. MaxOpen, otpk \in SUBSET c.otpks :
            /\ \A o \in openings : o.id # id
            /\ openings' = openings \cup
                 {[id |-> id, from |-> p, spk |-> c.spk, otpk |-> otpk, suite |-> c.suite]}
      BY <1>1 DEF Open
    <2> QED BY <2>1 DEF Unique
  <1>2. CASE UNCHANGED openings
    BY <1>2 DEF Unique
  <1>3. ASSUME NEW p \in Party, ~Open(p),
               \/ SendFollow(p) \/ (\E f \in follows : Confirm(p, f))
               \/ (\E o \in openings : Accept(p, o)) \/ AcceptOther(p)
               \/ ResetSession(p) \/ AddContact(p) \/ Trust(p) \/ ExportCard(p)
               \/ RotateSignedPrekey(p) \/ Replenish(p)
        PROVE  UNCHANGED openings
    BY <1>3 DEF SendFollow, Confirm, Accept, AcceptOther, ResetSession, AddContact,
       Trust, ExportCard, RotateSignedPrekey, Replenish
  <1> QED BY <1>1, <1>2, <1>3 DEF Next, vars

LEMMA ReplayStep == ReplayInv /\ [Next]_vars => ReplayInv'
  <1> SUFFICES ASSUME ReplayInv, [Next]_vars PROVE ReplayInv'
    OBVIOUS
  <1>1. TypeOK /\ Unique /\ Numbered
    BY DEF ReplayInv
  <1>2. TypeOK' /\ Unique' /\ openings \subseteq openings'
    BY <1>1, TypeStep, UniqueStep
  <1>3. \A p \in Party : Keeps(p)
    BY <1>1, KeepsStep
  <1>4. Numbered'
    BY <1>3 DEF Keeps, Numbered
  <1>5. ASSUME NEW p \in Party, NEW i \in DOMAIN accepted[p],
               NEW o, o = accepted[p][i]
        PROVE  Remembered(p, o)'
    BY <1>1, <1>2, <1>3, <1>5, StaysRemembered DEF ReplayInv
  <1>6. CASE UNCHANGED accepted
    <2>1. \A p \in Party : \A i \in DOMAIN accepted'[p] : Remembered(p, accepted[p][i])'
      BY <1>5, <1>6
    <2>2. AcceptedOnce' /\ OneTimeUsedOnce'
      BY <1>6 DEF ReplayInv, AcceptedOnce, OneTimeUsedOnce
    <2> QED BY <1>2, <1>4, <2>1, <2>2 DEF ReplayInv
  <1>7. ASSUME NEW p \in Party, NEW o \in openings, Accept(p, o) PROVE ReplayInv'
    <2> DEFINE n == Len(accepted[p])
    <2>1. /\ accepted[p] \in Seq(Opening) /\ o \in Opening /\ n \in Nat
          /\ prekeys[p] \in Store
      BY <1>1 DEF TypeOK
    <2>2. accepted' = [accepted EXCEPT ![p] = Append(@, o)]
      BY <1>7 DEF Accept
    <2>3. /\ DOMAIN accepted'[p] = 1 .. n + 1
          /\ accepted'[p][n + 1] = o
          /\ \A i \in 1 .. n : accepted'[p][i] = accepted[p][i]
          /\ DOMAIN accepted[p] = 1 .. n
      BY <1>1, <2>1, <2>2 DEF TypeOK
    <2>4. \A q \in Party : q # p => accepted'[q] = accepted[q]
      BY <1>1, <2>2 DEF TypeOK
    <2>5. Remembered(p, o)'
      <3>1. o.spk \in prekeys[p].spks /\ o.otpk \subseteq prekeys[p].otpks
        BY <1>7 DEF Accept, Acceptable
      <3>2. prekeys'[p] = Spent(prekeys[p], o.otpk)
        BY <1>1, <1>7 DEF Accept, TypeOK
      <3>3. /\ prekeys'[p].nextSpk = prekeys[p].nextSpk
            /\ prekeys'[p].nextOtpk = prekeys[p].nextOtpk
            /\ prekeys'[p].otpks = prekeys[p].otpks \ o.otpk
        BY <2>1, <3>2 DEF Spent, Store
      <3>4. [by |-> o.from, id |-> o.id, spk |-> o.spk] \in history'[p]
        BY <1>1, <1>7 DEF Accept, TypeOK
      <3>5. o \in openings'
        BY <1>2
      <3> QED BY <1>1, <3>1, <3>3, <3>4, <3>5 DEF Remembered, Numbered
    (* o is none of those accepted before, and shares no prekey with them. *)
    <2>6. ASSUME NEW i \in 1 .. n
          PROVE  accepted[p][i].id # o.id /\ accepted[p][i].otpk \cap o.otpk = {}
      <3> DEFINE x == accepted[p][i]
      <3>1. Remembered(p, x)
        BY <2>3 DEF ReplayInv
      <3>2. /\ ~AlreadyAccepted(p, o) /\ o.spk \in prekeys[p].spks
            /\ o.otpk \subseteq prekeys[p].otpks
        BY <1>7 DEF Accept, Acceptable
      <3> HIDE DEF x
      <3>3. x.id # o.id
        <4>1. SUFFICES ASSUME x = o PROVE FALSE
          BY <1>1, <3>1 DEF Unique, Remembered
        <4> QED BY <3>1, <3>2, <4>1 DEF Remembered, AlreadyAccepted
      <3>4. x.otpk \cap o.otpk = {}
        BY <3>1, <3>2 DEF Remembered
      <3> QED BY <3>3, <3>4 DEF x
    <2>7. \A q \in Party : \A i \in DOMAIN accepted'[q] : Remembered(q, accepted[q][i])'
      <3> SUFFICES ASSUME NEW q \in Party, NEW i \in DOMAIN accepted'[q]
                   PROVE  Remembered(q, accepted[q][i])'
        OBVIOUS
      <3>1. CASE q = p /\ i = n + 1
        BY <2>3, <2>5, <3>1
      <3>2. CASE q = p /\ i # n + 1
        <4>1. i \in 1 .. n
          BY <2>1, <2>3, <3>2
        <4> QED BY <1>5, <2>3, <3>2, <4>1
      <3>3. CASE q # p
        BY <1>5, <2>4, <3>3
      <3> QED BY <3>1, <3>2, <3>3
    <2>8. AcceptedOnce'
      <3> SUFFICES ASSUME NEW q \in Party, NEW i \in DOMAIN accepted'[q],
                          NEW j \in DOMAIN accepted'[q],
                          accepted'[q][i].id = accepted'[q][j].id
                   PROVE  i = j
        BY DEF AcceptedOnce
      <3>1. CASE q # p
        BY <2>4, <3>1 DEF ReplayInv, AcceptedOnce
      <3>2. CASE q = p
        <4>1. i \in 1 .. n \/ i = n + 1
          BY <2>1, <2>3, <3>2
        <4>2. j \in 1 .. n \/ j = n + 1
          BY <2>1, <2>3, <3>2
        <4>3. CASE i = n + 1 /\ j = n + 1
          BY <4>3
        <4>4. CASE i \in 1 .. n /\ j \in 1 .. n
          BY <2>3, <3>2, <4>4 DEF ReplayInv, AcceptedOnce
        <4>5. CASE i \in 1 .. n /\ j = n + 1
          BY <2>3, <2>6, <3>2, <4>5
        <4>6. CASE i = n + 1 /\ j \in 1 .. n
          BY <2>3, <2>6, <3>2, <4>6
        <4> QED BY <4>1, <4>2, <4>3, <4>4, <4>5, <4>6
      <3> QED BY <3>1, <3>2
    <2>9. OneTimeUsedOnce'
      <3> SUFFICES ASSUME NEW q \in Party, NEW i \in DOMAIN accepted'[q],
                          NEW j \in DOMAIN accepted'[q],
                          accepted'[q][i].otpk \cap accepted'[q][j].otpk # {}
                   PROVE  i = j
        BY DEF OneTimeUsedOnce
      <3>1. CASE q # p
        BY <2>4, <3>1 DEF ReplayInv, OneTimeUsedOnce
      <3>2. CASE q = p
        <4>1. i \in 1 .. n \/ i = n + 1
          BY <2>1, <2>3, <3>2
        <4>2. j \in 1 .. n \/ j = n + 1
          BY <2>1, <2>3, <3>2
        <4> QED BY <2>3, <2>6, <3>2, <4>1, <4>2 DEF ReplayInv, OneTimeUsedOnce
      <3> QED BY <3>1, <3>2
    <2> QED BY <1>2, <1>4, <2>7, <2>8, <2>9 DEF ReplayInv
  <1>8. ASSUME NEW p \in Party,
               \/ Open(p) \/ SendFollow(p) \/ (\E f \in follows : Confirm(p, f))
               \/ ResetSession(p) \/ AddContact(p) \/ Trust(p) \/ ExportCard(p)
               \/ RotateSignedPrekey(p) \/ Replenish(p) \/ AcceptOther(p)
        PROVE  UNCHANGED accepted
    BY <1>8 DEF Open, SendFollow, Confirm, ResetSession, AddContact, Trust,
       ExportCard, RotateSignedPrekey, Replenish, AcceptOther
  <1> QED BY <1>6, <1>7, <1>8 DEF Next, vars

(* Replay protection: an opening is accepted at most once, although the    *)
(* history is pruned and sessions are reset without bound.                 *)
THEOREM NoReplay == Spec => []AcceptedOnce
  <1>1. ReplayInv => AcceptedOnce
    BY DEF ReplayInv
  <1> QED BY <1>1, ReplayInit, ReplayStep, PTL DEF Spec

(* A one-time prekey serves one opening, although cards that name it stay  *)
(* around for ever.                                                        *)
THEOREM OneTimeIsOneTime == Spec => []OneTimeUsedOnce
  <1>1. ReplayInv => OneTimeUsedOnce
    BY DEF ReplayInv
  <1> QED BY <1>1, ReplayInit, ReplayStep, PTL DEF Spec

-----------------------------------------------------------------------------
(* Suites.                                                                 *)

(* A session is at least at the suite its contact is held to.              *)
Held == \A p \in Party : \A s \in session[p] : s.suite >= contact[p].minimum

LEMMA HeldInit == Init => Held
BY DEF Init, Held

LEMMA HeldStep ==
  ASSUME TypeOK, Held, [Next]_vars
  PROVE  \A p \in Party :
           /\ contact'[p].minimum >= contact[p].minimum
           /\ \A s \in session'[p] : s.suite >= contact'[p].minimum
  <1> SUFFICES ASSUME NEW q \in Party
               PROVE  /\ contact'[q].minimum >= contact[q].minimum
                      /\ \A s \in session'[q] : s.suite >= contact'[q].minimum
    OBVIOUS
  <1>0. /\ contact[q] \in Contact /\ contact[q].minimum \in Nat
        /\ session[q] \subseteq SessionId
        /\ \A s \in session[q] : s.suite >= contact[q].minimum
    BY HandshakeAssumption DEF TypeOK, Contact, Held
  <1>1. ASSUME NEW p \in Party, Open(p)
        PROVE  /\ contact'[q].minimum = contact[q].minimum
               /\ \A s \in session'[q] : s.suite >= contact[q].minimum
    <2>1. PICK id, otpk :
            /\ contact' = [contact EXCEPT ![p].card.otpks = @ \ otpk]
            /\ session' = [session EXCEPT ![p] =
                 {[id |-> id, suite |-> contact[p].card.suite, confirmed |-> FALSE]}]
      BY <1>1 DEF Open
    <2>2. contact[p].card.suite >= contact[p].minimum
      BY <1>1 DEF Open, Permitted
    <2> QED BY <1>0, <2>1, <2>2 DEF TypeOK, Contact
  <1>2. ASSUME NEW p \in Party, NEW o \in openings, Accept(p, o)
        PROVE  /\ contact'[q].minimum >= contact[q].minimum
               /\ \A s \in session'[q] : s.suite >= contact'[q].minimum
    <2>1. o.suite >= contact[p].minimum /\ o.suite \in Nat
      BY <1>2, HandshakeAssumption DEF Accept, Acceptable, Permitted, TypeOK, Opening
    <2>2. /\ contact' = [contact EXCEPT ![p].minimum = o.suite]
          /\ session' = [session EXCEPT ![p] =
                          {[id |-> o.id, suite |-> o.suite, confirmed |-> TRUE]}]
      BY <1>2 DEF Accept, Established
    <2> QED BY <1>0, <2>1, <2>2 DEF TypeOK, Contact
  <1>3. ASSUME NEW p \in Party, NEW f \in follows, Confirm(p, f)
        PROVE  /\ contact' = contact
               /\ \A s \in session'[q] : s.suite >= contact[q].minimum
    <2>1. PICK s \in session[p] :
            session' = [session EXCEPT ![p] = {[s EXCEPT !.confirmed = TRUE]}]
      BY <1>3 DEF Confirm
    <2>2. s \in SessionId
      BY DEF TypeOK
    <2>3. [s EXCEPT !.confirmed = TRUE].suite = s.suite
      BY <2>2 DEF SessionId
    <2>4. contact' = contact
      BY <1>3 DEF Confirm
    <2> QED BY <1>0, <2>1, <2>3, <2>4 DEF TypeOK, Held
  <1>4. ASSUME NEW p \in Party, AddContact(p)
        PROVE  /\ contact'[q].minimum >= contact[q].minimum
               /\ \A s \in session'[q] : s.suite >= contact'[q].minimum
    <2>1. PICK c \in cards[Peer(p)] :
            /\ c.suite >= contact[p].minimum
            /\ contact' = [contact EXCEPT ![p] =
                 [card |-> c, minimum |-> c.suite, verified |-> FALSE]]
      BY <1>4 DEF AddContact, Permitted
    <2>2. session' = [session EXCEPT ![p] = {}]
      BY <1>4 DEF AddContact
    <2> QED BY <1>0, <2>1, <2>2 DEF TypeOK
  <1>5. ASSUME NEW p \in Party, ResetSession(p) \/ Trust(p)
        PROVE  contact'[q].minimum = contact[q].minimum /\ session'[q] \subseteq session[q]
    <2>1. CASE ResetSession(p)
      BY <1>0, <2>1 DEF ResetSession, TypeOK
    <2>2. CASE Trust(p)
      BY <1>0, <2>2 DEF Trust, TypeOK, Contact
    <2> QED BY <1>5, <2>1, <2>2
  <1>6. ASSUME NEW p \in Party,
               \/ SendFollow(p) \/ ExportCard(p) \/ RotateSignedPrekey(p)
               \/ Replenish(p) \/ AcceptOther(p)
        PROVE  UNCHANGED <<contact, session>>
    BY <1>6 DEF SendFollow, ExportCard, RotateSignedPrekey, Replenish, AcceptOther
  <1>7. CASE UNCHANGED <<contact, session>>
    BY <1>0, <1>7
  <1> QED BY <1>0, <1>1, <1>2, <1>3, <1>4, <1>5, <1>6, <1>7 DEF Next, vars

(* No step lowers the suite a contact is held to, nor leaves a session     *)
(* below it: not an old card, not an old opening, not a reset.             *)
THEOREM SuitesNeverFall == Spec => NoDowngrade
  <1>1. TypeOK /\ Held /\ [Next]_vars => Held'
    BY HeldStep DEF Held
  <1>2. TypeOK /\ Held /\ [Next]_vars =>
          [\A p \in Party :
             /\ contact'[p].minimum >= contact[p].minimum
             /\ \A s \in session'[p] : s.suite >= contact'[p].minimum]_vars
    BY HeldStep
  <1> QED BY <1>1, <1>2, HeldInit, TypeCorrect, PTL DEF Spec, NoDowngrade

-----------------------------------------------------------------------------
(* Simultaneous openings.  While no session was thrown away, a party opens *)
(* at most once, and gives its own session up only for a smaller one.      *)

Own(p, i)    == \E o \in openings : o.from = p /\ o.id = i
InWith(p, i) == \E t \in session[p] : t.id = i /\ t.confirmed

OneEach == \A o, x \in openings : o.from = x.from => o = x
Begun   == \A o \in openings : session[o.from] # {}

(* A party is in the session it opened, or in a confirmed one of its       *)
(* peer's, which outranked any it had opened.                              *)
Ranked ==
  \A p \in Party : \A s \in session[p] : \E o \in openings :
    /\ o.id = s.id
    /\ \/ o.from = p
       \/ s.confirmed /\ \A x \in openings : x.from = p => o.id < x.id

(* Whoever sends later blocks of a session it did not open stays in it.    *)
Answers == \A f \in follows : Own(f.from, f.id) \/ InWith(f.from, f.id)

(* The initiator's session is confirmed only once its peer is in it.       *)
Shared ==
  \A p, q \in Party : \A s \in session[p] :
    p # q /\ s.confirmed /\ Own(p, s.id) => InWith(q, s.id)

Settled == OneEach /\ Begun /\ Ranked /\ Answers /\ Shared
AgreeInv == TypeOK /\ Unique /\ (resets = 0 => Settled)

LEMMA TwoParties ==
  ASSUME NEW p \in Party, NEW q \in Party, p # q, NEW r \in Party
  PROVE  r = p \/ r = q
  <1> SUFFICES ASSUME r # p, r # q PROVE FALSE
    OBVIOUS
  <1>1. IsFiniteSet({p}) /\ Cardinality({p}) = 1
    BY FS_Singleton
  <1>2. IsFiniteSet({p} \cup {q}) /\ Cardinality({p} \cup {q}) = 2
    BY <1>1, FS_AddElement
  <1>3. Cardinality(({p} \cup {q}) \cup {r}) = 3
    BY <1>2, FS_AddElement
  <1>4. ({p} \cup {q}) \cup {r} \in SUBSET Party
    OBVIOUS
  <1>5. Cardinality(({p} \cup {q}) \cup {r}) <= Cardinality(Party)
    BY <1>4, FS_Subset, HandshakeAssumption
  <1> QED BY <1>3, <1>5, HandshakeAssumption

LEMMA AgreeInit == Init => AgreeInv
  <1> SUFFICES ASSUME Init PROVE AgreeInv
    OBVIOUS
  <1>1. openings = {} /\ follows = {} /\ \A p \in Party : session[p] = {}
    BY DEF Init
  <1>2. Settled
    BY <1>1 DEF Settled, OneEach, Begun, Ranked, Answers, Shared
  <1> QED BY <1>1, <1>2, TypeInit DEF AgreeInv, Unique

LEMMA OpenAgrees ==
  ASSUME TypeOK, Unique, Settled, Unique', NEW p \in Party, Open(p)
  PROVE  Settled'
  <1> DEFINE c == contact[p].card
  <1>1. PICK id \in 1 .. MaxOpen, otpk \in SUBSET c.otpks :
          /\ \A o \in openings : o.id # id
          /\ openings' = openings \cup
               {[id |-> id, from |-> p, spk |-> c.spk, otpk |-> otpk, suite |-> c.suite]}
          /\ session' = [session EXCEPT ![p] =
               {[id |-> id, suite |-> c.suite, confirmed |-> FALSE]}]
    BY DEF Open
  <1> DEFINE o == [id |-> id, from |-> p, spk |-> c.spk, otpk |-> otpk, suite |-> c.suite]
             s == [id |-> id, suite |-> c.suite, confirmed |-> FALSE]
  <1>2. o.id = id /\ o.from = p /\ s.id = id /\ s.confirmed = FALSE
    OBVIOUS
  <1>3. /\ openings' = openings \cup {o} /\ follows' = follows
        /\ \A q \in Party : session'[q] = IF q = p THEN {s} ELSE session[q]
    BY <1>1 DEF Open, TypeOK
  <1>4. session[p] = {} /\ \A x \in openings : x.from \in Party
    BY DEF Open, TypeOK, Opening
  <1> HIDE DEF o, s
  <1>5. \A x \in openings : x.from # p
    BY <1>4 DEF Settled, Begun
  <1>6. OneEach'
    BY <1>2, <1>3, <1>5 DEF Settled, OneEach
  <1>7. Begun'
    BY <1>2, <1>3, <1>4 DEF Settled, Begun
  <1>8. Ranked'
    <2> SUFFICES ASSUME NEW q \in Party, NEW r \in session'[q]
                 PROVE  \E x \in openings' :
                          /\ x.id = r.id
                          /\ \/ x.from = q
                             \/ /\ r.confirmed
                                /\ \A y \in openings' : y.from = q => x.id < y.id
      BY DEF Ranked
    <2>1. CASE q = p
      BY <1>2, <1>3, <2>1
    <2>2. CASE q # p
      BY <1>2, <1>3, <2>2 DEF Settled, Ranked
    <2> QED BY <2>1, <2>2
  <1>9. \A q \in Party : \A i : InWith(q, i) => InWith(q, i)'
    BY <1>3, <1>4 DEF InWith
  <1>10. \A q \in Party : \A i : i # id => (Own(q, i)' <=> Own(q, i))
    BY <1>2, <1>3 DEF Own
  <1>11. Answers'
    <2>1. \A q \in Party : \A i : Own(q, i) => Own(q, i)'
      BY <1>3 DEF Own
    <2>2. \A f \in follows : f.from \in Party
      BY DEF TypeOK, Follow
    <2> QED BY <1>3, <1>9, <2>1, <2>2 DEF Settled, Answers
  <1>12. Shared'
    <2> SUFFICES ASSUME NEW q \in Party, NEW r \in Party, NEW t \in session'[q],
                        q # r, t.confirmed, Own(q, t.id)'
                 PROVE  InWith(r, t.id)'
      BY DEF Shared
    <2>1. q # p /\ t \in session[q]
      BY <1>2, <1>3
    <2>2. t.id # id
      BY <1>1, <2>1 DEF Settled, Ranked
    <2> QED BY <1>9, <1>10, <2>1, <2>2 DEF Settled, Shared
  <1> QED BY <1>6, <1>7, <1>8, <1>11, <1>12 DEF Settled

LEMMA AcceptAgrees ==
  ASSUME TypeOK, Unique, Settled, NEW p \in Party, NEW o \in openings, Accept(p, o)
  PROVE  Settled'
  <1> DEFINE s == [id |-> o.id, suite |-> o.suite, confirmed |-> TRUE]
  <1>1. s.id = o.id /\ s.confirmed = TRUE
    OBVIOUS
  <1>2. /\ \A q \in Party : session'[q] = IF q = p THEN {s} ELSE session[q]
        /\ UNCHANGED <<openings, follows>> /\ o.from # p
    BY DEF Accept, Established, TypeOK
  <1>3. \A r \in session[p] : ~r.confirmed /\ ~(r.id < o.id)
    BY DEF Accept, Acceptable, StandsAgainst
  <1>4. openings \subseteq Opening /\ \A x \in openings : x.id \in Nat /\ x.from \in Party
    BY DEF TypeOK, Opening
  <1> HIDE DEF s
  <1>5. ASSUME NEW x \in openings, x.from = p PROVE o.id < x.id
    <2>1. PICK r \in session[p] : TRUE
      BY <1>5 DEF Settled, Begun
    <2>2. PICK y \in openings : y.id = r.id /\ y.from = p
      BY <1>3, <2>1 DEF Settled, Ranked
    <2>3. x = y /\ ~(x.id < o.id)
      BY <1>3, <1>5, <2>1, <2>2 DEF Settled, OneEach
    <2>4. x.id # o.id
      BY <1>2, <1>5 DEF Unique
    <2> QED BY <1>4, <2>3, <2>4
  <1>6. Begun'
    BY <1>2, <1>4 DEF Settled, Begun
  <1>7. Ranked'
    BY <1>1, <1>2, <1>5 DEF Settled, Ranked
  <1>8. \A q \in Party : \A i : InWith(q, i) => InWith(q, i)'
    BY <1>2, <1>3 DEF InWith
  <1>9. \A q \in Party : \A i : Own(q, i)' <=> Own(q, i)
    BY <1>2 DEF Own
  <1>10. Answers'
    <2>1. \A f \in follows : f.from \in Party
      BY DEF TypeOK, Follow
    <2> QED BY <1>2, <1>8, <1>9, <2>1 DEF Settled, Answers
  <1>11. Shared'
    <2> SUFFICES ASSUME NEW q \in Party, NEW r \in Party, NEW t \in session'[q],
                        q # r, t.confirmed, Own(q, t.id)'
                 PROVE  InWith(r, t.id)'
      BY DEF Shared
    <2>1. CASE q = p
      <3>1. Own(p, o.id)
        BY <1>1, <1>2, <1>9, <2>1
      <3> QED BY <1>2, <3>1 DEF Own, Unique
    <2>2. CASE q # p
      BY <1>2, <1>8, <1>9, <2>2 DEF Settled, Shared
    <2> QED BY <2>1, <2>2
  <1>12. OneEach'
    BY <1>2 DEF Settled, OneEach
  <1> QED BY <1>6, <1>7, <1>10, <1>11, <1>12 DEF Settled

LEMMA ConfirmAgrees ==
  ASSUME TypeOK, Unique, Settled, NEW p \in Party, NEW f \in follows, Confirm(p, f)
  PROVE  Settled'
  <1>1. PICK s \in session[p] :
          s.id = f.id /\ session' = [session EXCEPT ![p] = {[s EXCEPT !.confirmed = TRUE]}]
    BY DEF Confirm
  <1> DEFINE t == [s EXCEPT !.confirmed = TRUE]
  <1>2. s \in SessionId /\ session[p] = {s} /\ f.from \in Party
    BY DEF TypeOK, Follow
  <1>3. t.id = s.id /\ t.confirmed = TRUE
    BY <1>2 DEF SessionId
  <1>4. /\ \A q \in Party : session'[q] = IF q = p THEN {t} ELSE session[q]
        /\ UNCHANGED <<openings, follows>> /\ f.from # p
    BY <1>1 DEF Confirm, TypeOK
  <1>5. \A x \in openings : x.from \in Party
    BY DEF TypeOK, Opening
  <1> HIDE DEF t
  <1>6. Begun'
    BY <1>4, <1>5 DEF Settled, Begun
  <1>7. Ranked'
    BY <1>2, <1>3, <1>4 DEF Settled, Ranked
  <1>8. \A q \in Party : \A i : InWith(q, i) => InWith(q, i)'
    BY <1>2, <1>3, <1>4 DEF InWith
  <1>9. \A q \in Party : \A i : Own(q, i)' <=> Own(q, i)
    BY <1>4 DEF Own
  <1>10. Answers'
    <2>1. \A x \in follows : x.from \in Party
      BY DEF TypeOK, Follow
    <2> QED BY <1>4, <1>8, <1>9, <2>1 DEF Settled, Answers
  <1>11. Shared'
    <2> SUFFICES ASSUME NEW q \in Party, NEW r \in Party, NEW u \in session'[q],
                        q # r, u.confirmed, Own(q, u.id)'
                 PROVE  InWith(r, u.id)'
      BY DEF Shared
    <2>1. CASE q = p
      <3>1. u.id = f.id /\ Own(p, f.id)
        BY <1>1, <1>3, <1>4, <1>9, <2>1
      <3>2. ~Own(f.from, f.id)
        BY <1>4, <3>1 DEF Own, Unique
      <3>3. r = f.from
        BY <1>2, <1>4, <2>1, TwoParties
      <3> QED BY <1>8, <3>1, <3>2, <3>3 DEF Settled, Answers
    <2>2. CASE q # p
      BY <1>4, <1>8, <1>9, <2>2 DEF Settled, Shared
    <2> QED BY <2>1, <2>2
  <1>12. OneEach'
    BY <1>4 DEF Settled, OneEach
  <1> QED BY <1>6, <1>7, <1>10, <1>11, <1>12 DEF Settled

LEMMA FollowAgrees ==
  ASSUME TypeOK, Settled, NEW p \in Party, SendFollow(p)
  PROVE  Settled'
  <1>1. PICK s \in session[p] : follows' = follows \cup {[from |-> p, id |-> s.id]}
    BY DEF SendFollow
  <1>2. UNCHANGED <<session, openings>>
    BY DEF SendFollow
  <1>3. Own(p, s.id) \/ InWith(p, s.id)
    BY DEF Settled, Ranked, Own, InWith
  <1>4. Answers'
    BY <1>1, <1>2, <1>3 DEF Settled, Answers, Own, InWith
  <1> QED BY <1>2, <1>4 DEF Settled, OneEach, Begun, Ranked, Shared, Own, InWith

LEMMA AgreeStep == AgreeInv /\ [Next]_vars => AgreeInv'
  <1> SUFFICES ASSUME AgreeInv, [Next]_vars PROVE AgreeInv'
    OBVIOUS
  <1>0. TypeOK /\ Unique /\ TypeOK' /\ Unique' /\ resets \in Nat
    BY TypeStep, UniqueStep DEF AgreeInv, TypeOK
  <1> SUFFICES ASSUME resets' = 0 PROVE Settled'
    BY <1>0 DEF AgreeInv
  <1>1. ASSUME NEW p \in Party PROVE ~ResetSession(p) /\ ~AddContact(p)
    BY <1>0 DEF ResetSession, AddContact
  <1>2. resets = 0
    BY <1>0, <1>1 DEF Next, vars, Open, SendFollow, Accept, Confirm, Trust,
       ExportCard, RotateSignedPrekey, Replenish, AcceptOther
  <1>3. Settled
    BY <1>2 DEF AgreeInv
  <1>4. CASE UNCHANGED <<session, openings, follows>>
    BY <1>3, <1>4 DEF Settled, OneEach, Begun, Ranked, Answers, Shared, Own, InWith
  <1>5. ASSUME NEW p \in Party,
               \/ Trust(p) \/ ExportCard(p) \/ RotateSignedPrekey(p)
               \/ Replenish(p) \/ AcceptOther(p)
        PROVE  UNCHANGED <<session, openings, follows>>
    BY <1>5 DEF Trust, ExportCard, RotateSignedPrekey, Replenish, AcceptOther
  <1> QED BY <1>0, <1>1, <1>3, <1>4, <1>5, OpenAgrees, AcceptAgrees, ConfirmAgrees,
             FollowAgrees DEF Next, vars

(* Simultaneous openings, in whatever order they and later blocks arrive,  *)
(* never leave the two contacts confirmed in two sessions: the tie-break   *)
(* makes one of the openings outrank the other for both.                   *)
THEOREM ConfirmedPartiesAgree == Spec => []ConfirmedAgree
  <1>1. AgreeInv => ConfirmedAgree
    <2> SUFFICES ASSUME TypeOK, Unique, Settled,
                        NEW p \in Party, NEW q \in Party,
                        NEW s \in session[p], NEW t \in session[q],
                        s.confirmed, t.confirmed, p # q
                 PROVE  s.id = t.id
      BY DEF AgreeInv, ConfirmedAgree, TypeOK
    <2>1. PICK o \in openings :
            /\ o.id = s.id
            /\ o.from = p \/ \A x \in openings : x.from = p => o.id < x.id
      BY DEF Settled, Ranked
    <2>2. PICK w \in openings :
            /\ w.id = t.id
            /\ w.from = q \/ \A x \in openings : x.from = q => w.id < x.id
      BY DEF Settled, Ranked
    <2>3. CASE o.from = p
      <3>1. InWith(q, s.id)
        BY <2>1, <2>3 DEF Settled, Shared, Own
      <3> QED BY <3>1 DEF InWith, TypeOK
    <2>4. CASE w.from = q
      <3>1. InWith(p, t.id)
        BY <2>2, <2>4 DEF Settled, Shared, Own
      <3> QED BY <3>1 DEF InWith, TypeOK
    <2>5. CASE o.from # p /\ w.from # q
      <3>1. o.id \in Nat /\ w.id \in Nat /\ o.from \in Party /\ w.from \in Party
        BY DEF TypeOK, Opening
      <3>2. o.from = q /\ w.from = p
        BY <2>5, <3>1, TwoParties
      <3>3. o.id < w.id /\ w.id < o.id
        BY <2>1, <2>2, <2>5, <3>2
      <3> QED BY <3>1, <3>3
    <2> QED BY <2>3, <2>4, <2>5
  <1> QED BY <1>1, AgreeInit, AgreeStep, PTL DEF Spec
=============================================================================
