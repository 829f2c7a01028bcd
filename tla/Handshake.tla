------------------------------ MODULE Handshake -----------------------------
(***************************************************************************)
(* How two contacts come to share a session, and lose it again: contact    *)
(* cards, openings and the session table of src/src/session.cpp, the       *)
(* prekeys of src/src/app.cpp and the replay history of src/src/store.cpp. *)
(* Blocks and cards are carried by hand: lost, repeated, out of order.     *)
(*                                                                         *)
(* Both kinds of one-time prekey (X25519 and ML-KEM) are looked up,        *)
(* refused and consumed alike and are modelled as one pool.  A session     *)
(* stands for the ratchet it holds (DoubleRatchet): a follow-up opens at   *)
(* the peer exactly when the peer is in the same session.  Session ids are *)
(* hashes: they are distinct, and ordered by chance.                       *)
(***************************************************************************)
EXTENDS Naturals, Sequences, FiniteSets

CONSTANTS
  Party,        \* the two contacts
  Suites,       \* protocol suites, ordered as suite_at_least orders them
  MaxHistory,   \* kMaxAcceptedHandshakes
  Prekeys,      \* one-time prekeys on a party's first card
  MaxOpen,      \* bound: openings sent
  MaxReset,     \* bound: sessions reset and cards imported again
  MaxRotate,    \* bound: signed prekeys rotated
  MaxCard,      \* bound: cards of a party, the first one included
  MaxOther      \* bound: one-time prekeys added, or used by other contacts

ASSUME HandshakeAssumption ==
  /\ IsFiniteSet(Party) /\ Cardinality(Party) = 2 /\ "other" \notin Party
  /\ Suites \subseteq Nat /\ \E s \in Suites : \A t \in Suites : t <= s
  /\ {MaxHistory, Prekeys, MaxOpen, MaxReset, MaxRotate, MaxCard,
      MaxOther} \subseteq Nat

Peer(p) == CHOOSE q \in Party : q # p

VARIABLES
  contact,    \* the store::Contact a party keeps of the other
  session,    \* the store::Session with it, if any
  prekeys,    \* the party's own prekeys
  history,    \* accepted_handshakes
  cards,      \* cards each party has exported
  openings,   \* openings sent
  follows,    \* later blocks sent
  accepted,   \* the openings each party has accepted, in order
  resets, rotations, others

vars == <<contact, session, prekeys, history, cards, openings, follows,
          accepted, resets, rotations, others>>

Card    == [spk : Nat, otpks : SUBSET Nat, suite : Suites]
Contact == [card : Card, minimum : Suites, verified : BOOLEAN]
Store   == [spks : SUBSET Nat, nextSpk : Nat \ {0}, otpks : SUBSET Nat,
            nextOtpk : Nat]
Opening == [id : Nat, from : Party, spk : Nat, otpk : SUBSET Nat, suite : Suites]
SessionId == [id : Nat, suite : Suites, confirmed : BOOLEAN]
(* `by` tells apart the initiator; for others `id` only numbers them.      *)
Accepted == [by : Party \cup {"other"}, id : Nat, spk : Nat]
Follow   == [from : Party, id : Nat]

TypeOK ==
  /\ contact \in [Party -> Contact]
  /\ session \in [Party -> SUBSET SessionId]
  /\ \A p \in Party : \A x, y \in session[p] : x = y
  /\ prekeys \in [Party -> Store]
  /\ history \in [Party -> SUBSET Accepted]
  /\ cards \in [Party -> SUBSET Card]
  /\ openings \subseteq Opening
  /\ follows \subseteq Follow
  /\ accepted \in [Party -> Seq(Opening)]
  /\ {resets, rotations, others} \subseteq Nat

Newest == CHOOSE s \in Suites : \A t \in Suites : t <= s

(* export_hybrid_card: the newest signed prekey and every one-time prekey. *)
CardOf(k, suite) ==
  [spk |-> k.nextSpk - 1, otpks |-> k.otpks, suite |-> suite]

(* cmd_init's prekeys; each party has imported and verified a first card   *)
(* of the other, which an older build may have exported.                   *)
Init ==
  LET first == [spks |-> {1}, nextSpk |-> 2,
                otpks |-> 1 .. Prekeys, nextOtpk |-> Prekeys + 1]
  IN /\ \E suite \in [Party -> Suites] :
          /\ contact = [p \in Party |->
               [card |-> CardOf(first, suite[p]), minimum |-> suite[p],
                verified |-> TRUE]]
          /\ cards = [p \in Party |-> {CardOf(first, suite[Peer(p)])}]
     /\ prekeys = [p \in Party |-> first]
     /\ session = [p \in Party |-> {}]
     /\ history = [p \in Party |-> {}]
     /\ openings = {} /\ follows = {}
     /\ accepted = [p \in Party |-> <<>>]
     /\ resets = 0 /\ rotations = 0 /\ others = 0

(* Mutant of Permitted: the suite a contact is held to is not looked at.   *)
AnySuite(p, suite) == suite \in Suites

(* suite_at_least: p keeps to the suite it once had with the contact.      *)
Permitted(p, suite) == suite >= contact[p].minimum

-----------------------------------------------------------------------------
(* session::send.                                                          *)

(* Without a session: x3dh::initiate on the stored card, which loses the   *)
(* one-time prekey it picks.                                               *)
Open(p) ==
  LET c == contact[p].card
  IN /\ session[p] = {}
     /\ contact[p].verified
     /\ Permitted(p, c.suite)
     /\ \E id \in 1 .. MaxOpen, otpk \in SUBSET c.otpks :
          /\ \A o \in openings : o.id # id
          /\ Cardinality(otpk) = IF c.otpks = {} THEN 0 ELSE 1
          /\ openings' = openings \cup
               {[id |-> id, from |-> p, spk |-> c.spk, otpk |-> otpk, suite |-> c.suite]}
          /\ contact' = [contact EXCEPT ![p].card.otpks = @ \ otpk]
          /\ session' = [session EXCEPT ![p] =
               {[id |-> id, suite |-> c.suite, confirmed |-> FALSE]}]
     /\ UNCHANGED <<prekeys, history, cards, follows, accepted, resets,
                    rotations, others>>

(* With one: a later block of that session.                                *)
SendFollow(p) ==
  /\ contact[p].verified
  /\ \E s \in session[p] :
       /\ Permitted(p, s.suite)
       /\ [from |-> p, id |-> s.id] \notin follows
       /\ follows' = follows \cup {[from |-> p, id |-> s.id]}
  /\ UNCHANGED <<contact, session, prekeys, history, cards, openings, accepted,
                 resets, rotations, others>>

-----------------------------------------------------------------------------
(* session::receive.                                                       *)

(* Mutant of AlreadyAccepted: only the current session is consulted.       *)
InSession(p, o) == \E s \in session[p] : s.id = o.id

(* handshake_already_accepted.                                             *)
AlreadyAccepted(p, o) == \E h \in history[p] : h.by = o.from /\ h.id = o.id

(* prune_old_handshakes, run when the history is full: a record whose      *)
(* signed prekey is gone protects nothing.                                 *)
Pruned(p) ==
  IF Cardinality(history[p]) < MaxHistory THEN history[p]
  ELSE {h \in history[p] : h.spk \in prekeys[p].spks}

(* Mutant of StandsAgainst: simultaneous openings refuse each other.       *)
StandsAgainstAny(s, o) == s.confirmed \/ s.id # o.id

(* Mutant of StandsAgainst: simultaneous openings both win.                *)
StandsConfirmed(s, o) == s.confirmed

(* A session p already has outranks an opening once it is confirmed, or if *)
(* its own opening has the smaller id.                                     *)
StandsAgainst(s, o) == s.confirmed \/ s.id < o.id

(* An opening that names prekeys the party still has and that its session  *)
(* does not stand against.                                                 *)
Acceptable(p, o) ==
  /\ contact[p].verified
  /\ Permitted(p, o.suite)
  /\ ~AlreadyAccepted(p, o)
  /\ Cardinality(Pruned(p)) < MaxHistory
  /\ o.spk \in prekeys[p].spks
  /\ o.otpk \subseteq prekeys[p].otpks
  /\ \A s \in session[p] : ~StandsAgainst(s, o)

(* Mutant of Established: the party's own unconfirmed session stays.       *)
EstablishedToo(p, o) ==
  session[p] \cup {[id |-> o.id, suite |-> o.suite, confirmed |-> TRUE]}

(* The session p has after accepting o: it replaces any other.             *)
Established(p, o) == {[id |-> o.id, suite |-> o.suite, confirmed |-> TRUE]}

(* Mutant of Spent: the one-time prekey is used and kept.                  *)
Unspent(k, otpks) == k

(* The one-time prekeys an accepted opening names are erased.              *)
Spent(k, otpks) == [k EXCEPT !.otpks = @ \ otpks]

Accept(p, o) ==
  /\ o.from # p
  /\ Acceptable(p, o)
  /\ history' = [history EXCEPT ![p] =
       Pruned(p) \cup {[by |-> o.from, id |-> o.id, spk |-> o.spk]}]
  /\ session' = [session EXCEPT ![p] = Established(p, o)]
  /\ prekeys' = [prekeys EXCEPT ![p] = Spent(@, o.otpk)]
  /\ contact' = [contact EXCEPT ![p].minimum = o.suite]
  /\ accepted' = [accepted EXCEPT ![p] = Append(@, o)]
  /\ UNCHANGED <<cards, openings, follows, resets, rotations, others>>

(* A later block confirms the session it belongs to.                       *)
Confirm(p, f) ==
  /\ f.from # p
  /\ contact[p].verified
  /\ \E s \in session[p] :
       /\ s.id = f.id
       /\ Permitted(p, s.suite)
       /\ session' = [session EXCEPT ![p] = {[s EXCEPT !.confirmed = TRUE]}]
  /\ UNCHANGED <<contact, prekeys, history, cards, openings, follows, accepted,
                 resets, rotations, others>>

-----------------------------------------------------------------------------
(* Other commands.                                                         *)

(* cmd_reset_session.                                                      *)
ResetSession(p) ==
  /\ resets < MaxReset /\ resets' = resets + 1
  /\ session[p] # {}
  /\ session' = [session EXCEPT ![p] = {}]
  /\ UNCHANGED <<contact, prekeys, history, cards, openings, follows, accepted,
                 rotations, others>>

(* cmd_add_contact on a saved contact, with any card the peer exported.    *)
AddContact(p) ==
  /\ resets < MaxReset /\ resets' = resets + 1
  /\ \E c \in cards[Peer(p)] :
       /\ Permitted(p, c.suite)
       /\ contact' = [contact EXCEPT ![p] =
            [card |-> c, minimum |-> c.suite, verified |-> FALSE]]
  /\ session' = [session EXCEPT ![p] = {}]
  /\ UNCHANGED <<prekeys, history, cards, openings, follows, accepted,
                 rotations, others>>

(* cmd_trust.                                                              *)
Trust(p) ==
  /\ ~contact[p].verified
  /\ contact' = [contact EXCEPT ![p].verified = TRUE]
  /\ UNCHANGED <<session, prekeys, history, cards, openings, follows, accepted,
                 resets, rotations, others>>

(* cmd_card: export what the vault has now; this build advertises its      *)
(* newest suite.                                                           *)
ExportCard(p) ==
  /\ cards' = [cards EXCEPT ![p] = @ \cup {CardOf(prekeys[p], Newest)}]
  /\ cards' # cards /\ Cardinality(cards'[p]) <= MaxCard
  /\ UNCHANGED <<contact, session, prekeys, history, openings, follows,
                 accepted, resets, rotations, others>>

(* rotate_signed_prekey keeps the newest two.                              *)
Rotated(k) ==
  [k EXCEPT !.spks = {i \in @ \cup {k.nextSpk} : i + 2 > k.nextSpk},
            !.nextSpk = @ + 1]

RotateSignedPrekey(p) ==
  /\ rotations < MaxRotate /\ rotations' = rotations + 1
  /\ prekeys' = [prekeys EXCEPT ![p] = Rotated(@)]
  /\ UNCHANGED <<contact, session, history, cards, openings, follows, accepted,
                 resets, others>>

(* replenish_one_time_prekeys.                                             *)
Replenish(p) ==
  /\ others < MaxOther /\ others' = others + 1
  /\ prekeys' = [prekeys EXCEPT ![p].otpks = @ \cup {prekeys[p].nextOtpk},
                                ![p].nextOtpk = @ + 1]
  /\ UNCHANGED <<contact, session, history, cards, openings, follows, accepted,
                 resets, rotations>>

(* Another contact who holds the same card is accepted first.              *)
AcceptOther(p) ==
  /\ others < MaxOther /\ others' = others + 1
  /\ Cardinality(Pruned(p)) < MaxHistory
  /\ \E k \in prekeys[p].spks, otpk \in prekeys[p].otpks :
       /\ history' = [history EXCEPT ![p] =
            Pruned(p) \cup {[by |-> "other", id |-> others, spk |-> k]}]
       /\ prekeys' = [prekeys EXCEPT ![p] = Spent(@, {otpk})]
  /\ UNCHANGED <<contact, session, cards, openings, follows, accepted, resets,
                 rotations>>

Next ==
  \E p \in Party :
    \/ Open(p) \/ SendFollow(p)
    \/ \E o \in openings : Accept(p, o)
    \/ \E f \in follows : Confirm(p, f)
    \/ ResetSession(p) \/ AddContact(p) \/ Trust(p) \/ ExportCard(p)
    \/ RotateSignedPrekey(p) \/ Replenish(p) \/ AcceptOther(p)

Spec == Init /\ [][Next]_vars

(* Every opening and every later block is pasted in the end, as long as it *)
(* would be taken.                                                         *)
FairSpec ==
  /\ Spec
  /\ \A p \in Party :
       /\ WF_vars(\E o \in openings : Accept(p, o))
       /\ WF_vars(\E f \in follows : Confirm(p, f))

-----------------------------------------------------------------------------
(* Properties.                                                             *)

(* An opening is accepted once, whatever is reset, imported again, rotated *)
(* or pruned from the history in between.                                  *)
AcceptedOnce ==
  \A p \in Party : \A i, j \in DOMAIN accepted[p] :
    accepted[p][i].id = accepted[p][j].id => i = j

(* A one-time prekey serves one accepted opening.                          *)
OneTimeUsedOnce ==
  \A p \in Party : \A i, j \in DOMAIN accepted[p] :
    accepted[p][i].otpk \cap accepted[p][j].otpk # {} => i = j

(* Two parties that both hold the other's confirmation hold the same       *)
(* session, as long as nobody has thrown one away: simultaneous openings   *)
(* do not leave them in two.                                               *)
ConfirmedAgree ==
  resets = 0 =>
    \A p, q \in Party : \A s \in session[p], t \in session[q] :
      s.confirmed /\ t.confirmed => s.id = t.id

(* A session never falls below the suite its contact is held to, and that  *)
(* suite never goes down.                                                  *)
NoDowngrade ==
  [][\A p \in Party :
       /\ contact'[p].minimum >= contact[p].minimum
       /\ \A s \in session'[p] : s.suite >= contact'[p].minimum]_vars

(* Two parties that both have a session come to share one.                 *)
SameSession ==
  \A p, q \in Party : \A s \in session[p], t \in session[q] : s.id = t.id
Converges == []<>SameSession
=============================================================================
