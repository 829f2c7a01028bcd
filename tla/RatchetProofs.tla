----------------------------- MODULE RatchetProofs ---------------------------
(***************************************************************************)
(* Theorems about DoubleRatchet, for any number of messages, any size of   *)
(* the cache of skipped keys and any delays: type correctness, the bound   *)
(* of the cache, that no message key is used for two blocks, that a block  *)
(* is read once, that the keys of blocks that were sent, read or given up  *)
(* are gone, and that a block can be read whenever it arrives.             *)
(***************************************************************************)
EXTENDS DoubleRatchet, FiniteSetTheorems, TLAPS

(* A session as TypeOK wants it.                                           *)
Good(s) ==
  /\ s \in Session
  /\ IsFiniteSet(s.skipped)
  /\ \A x, y \in s.dhr : x = y
  /\ \A x, y \in s.cks : x = y
  /\ \A x, y \in s.ckr : x = y

Fits(s) == Cardinality(s.skipped) <= MaxSkip

(* t sends its next block under the key s would use.                       *)
SendsAs(t, s) == t.dhs = s.dhs /\ t.ns = s.ns /\ t.cks = s.cks

(* The sending chain that the fresh key pair makes with dh.                *)
SendsAnew(t, dh, fresh) ==
  /\ t.dhs = fresh
  /\ \E r \in Chain : t.cks = {Append(r, {fresh, dh})}

LEMMA GoodSessions ==
  TypeOK <=> /\ session \in [Party -> Session]
             /\ \A p \in Party : Good(session[p])
             /\ sent \subseteq Message /\ IsFiniteSet(sent)
             /\ reads \in [1 .. MaxMsg -> Nat]
             /\ {keys, weeks} \subseteq Nat
             /\ expired \subseteq Nat
BY DEF TypeOK, Good

-----------------------------------------------------------------------------
(* The steps of decryption.                                                *)

LEMMA UnexpiredIsLess ==
  ASSUME NEW s, Good(s)
  PROVE  /\ Good(Unexpired(s))
         /\ Unexpired(s).skipped \subseteq s.skipped
         /\ Cardinality(Unexpired(s).skipped) <= Cardinality(s.skipped)
         /\ Unexpired(s).dhs = s.dhs /\ Unexpired(s).ns = s.ns
         /\ Unexpired(s).cks = s.cks
  <1> DEFINE kept == {k \in s.skipped : ~k.old}
  <1>1. Unexpired(s) = [s EXCEPT !.skipped = kept]
    BY DEF Unexpired, Good, Session
  <1>2. IsFiniteSet(kept) /\ Cardinality(kept) <= Cardinality(s.skipped)
    BY FS_Subset DEF Good
  <1>3. kept \subseteq s.skipped
    OBVIOUS
  <1> HIDE DEF kept
  <1> QED BY <1>1, <1>2, <1>3 DEF Good, Session

(* The keys skip_message_keys adds: one for each number in the gap.        *)
NewKeys(s, until) ==
  {[dh |-> d, n |-> i, key |-> <<c, i>>, old |-> FALSE] :
     d \in s.dhr, c \in s.ckr, i \in s.nr .. (until - 1)}

LEMMA NewKeysAre ==
  ASSUME NEW s, NEW until, NEW k
  PROVE  k \in NewKeys(s, until) <=>
           \E d \in s.dhr, c \in s.ckr, i \in s.nr .. (until - 1) :
             k = [dh |-> d, n |-> i, key |-> <<c, i>>, old |-> FALSE]
BY DEF NewKeys

LEMMA NewKeysFit ==
  ASSUME NEW s, Good(s), NEW until \in Nat, until >= s.nr
  PROVE  /\ NewKeys(s, until) \subseteq Skipped
         /\ IsFiniteSet(NewKeys(s, until))
         /\ Cardinality(NewKeys(s, until)) <= until - s.nr
  <1>0. s.nr \in Nat /\ s.dhr \subseteq Nat /\ s.ckr \subseteq Chain
    BY DEF Good, Session
  <1>1. NewKeys(s, until) \subseteq Skipped
    <2> SUFFICES ASSUME NEW d \in s.dhr, NEW c \in s.ckr, NEW i \in s.nr .. (until - 1)
                 PROVE  [dh |-> d, n |-> i, key |-> <<c, i>>, old |-> FALSE] \in Skipped
      BY DEF NewKeys
    <2>1. d \in Nat /\ i \in Nat
      BY <1>0
    <2>2. <<c, i>> \in Key
      BY <1>0, <2>1 DEF Key
    <2> QED BY <2>1, <2>2 DEF Skipped
  <1>2. CASE s.dhr = {} \/ s.ckr = {}
    <2>1. NewKeys(s, until) = {}
      BY <1>2 DEF NewKeys
    <2> QED BY <1>0, <1>1, <2>1, FS_EmptySet
  <1>3. ASSUME NEW d \in s.dhr, NEW c \in s.ckr
        PROVE  /\ IsFiniteSet(NewKeys(s, until))
               /\ Cardinality(NewKeys(s, until)) <= until - s.nr
    <2> DEFINE gap == s.nr .. (until - 1)
               f == [i \in gap |-> [dh |-> d, n |-> i, key |-> <<c, i>>, old |-> FALSE]]
    <2>1. s.dhr = {d} /\ s.ckr = {c}
      BY <1>3 DEF Good
    <2>2. ASSUME NEW i \in gap
          PROVE  f[i] \in NewKeys(s, until)
      <3>1. f[i] = [dh |-> d, n |-> i, key |-> <<c, i>>, old |-> FALSE]
        BY <2>2
      <3> HIDE DEF f
      <3> QED BY <2>2, <3>1, NewKeysAre
    <2>3. ASSUME NEW k \in NewKeys(s, until)
          PROVE  \E i \in gap : f[i] = k
      <3>1. PICK x \in s.dhr, y \in s.ckr, i \in gap :
              k = [dh |-> x, n |-> i, key |-> <<y, i>>, old |-> FALSE]
        BY <2>3, NewKeysAre
      <3>2. x = d /\ y = c
        BY <2>1
      <3> QED BY <3>1, <3>2
    <2> DEFINE new == NewKeys(s, until)
    <2>5. f \in Surjection(gap, new)
      <3>1. f \in [gap -> new]
        <4>1. \A i \in gap : f[i] \in new
          BY <2>2
        <4>2. f = [i \in gap |-> f[i]]
          OBVIOUS
        <4> HIDE DEF new, gap, f
        <4> QED BY <4>1, <4>2
      <3> QED BY <2>3, <3>1 DEF Surjection
    <2>4. IsFiniteSet(gap) /\ Cardinality(gap) = until - s.nr
      <3>1. s.nr \in Int /\ until - 1 \in Int
        BY <1>0
      <3>2. /\ IsFiniteSet(gap)
            /\ Cardinality(gap) = IF s.nr > until - 1 THEN 0 ELSE (until - 1) - s.nr + 1
        BY <3>1, FS_Interval
      <3> QED BY <1>0, <3>2
    <2> HIDE DEF f, gap
    <2>6. IsFiniteSet(new) /\ Cardinality(new) <= Cardinality(gap)
      BY <2>4, <2>5, FS_Surjection
    <2> QED BY <2>4, <2>6
  <1> QED BY <1>1, <1>2, <1>3

LEMMA SkipFits ==
  ASSUME NEW s, Good(s), NEW until \in Nat
  PROVE  LET t == SkipMessageKeys(s, until)
         IN  /\ Good(t)
             /\ Fits(s) /\ ~TooMany(s, until) => Fits(t)
             /\ t.dhs = s.dhs /\ t.ns = s.ns /\ t.cks = s.cks
  <1>0. s.nr \in Nat
    BY DEF Good, Session
  <1>1. CASE s.ckr = {} \/ until < s.nr
    BY <1>1 DEF SkipMessageKeys
  <1>2. CASE s.ckr # {} /\ until >= s.nr
    <2> DEFINE new == NewKeys(s, until)
               all == s.skipped \cup new
    <2>1. SkipMessageKeys(s, until) = [s EXCEPT !.skipped = all, !.nr = until]
      BY <1>0, <1>2 DEF SkipMessageKeys, NewKeys, Good, Session
    <2>2. /\ new \subseteq Skipped /\ IsFiniteSet(new)
          /\ Cardinality(new) <= until - s.nr
      BY <1>2, NewKeysFit
    <2>3. /\ IsFiniteSet(all) /\ Cardinality(all) \in Nat
          /\ Cardinality(all) <= Cardinality(s.skipped) + Cardinality(new)
      <3>1. /\ IsFiniteSet(all)
            /\ Cardinality(all) = Cardinality(s.skipped) + Cardinality(new)
                                    - Cardinality(s.skipped \cap new)
        BY <2>2, FS_Union DEF Good
      <3>2. IsFiniteSet(s.skipped \cap new)
        BY <2>2, FS_Subset
      <3>3. /\ Cardinality(s.skipped \cap new) \in Nat /\ Cardinality(all) \in Nat
            /\ Cardinality(s.skipped) \in Nat /\ Cardinality(new) \in Nat
        BY <2>2, <3>1, <3>2, FS_CardinalityType DEF Good
      <3> HIDE DEF all, new
      <3> QED BY <3>1, <3>3
    <2>4. Cardinality(new) \in Nat /\ Cardinality(s.skipped) \in Nat
      BY <2>2, FS_CardinalityType DEF Good
    <2>5. all \subseteq Skipped
      BY <2>2 DEF Good, Session
    <2> HIDE DEF all, new
    <2>6. ~TooMany(s, until) => Cardinality(all) <= MaxSkip
      BY <1>0, <1>2, <2>2, <2>3, <2>4, BoundsAssumption DEF TooMany
    <2> QED BY <2>1, <2>3, <2>5, <2>6 DEF Good, Session, Fits
  <1> QED BY <1>0, <1>1, <1>2

(* A week on the cache: as many keys as before, all of them old.           *)
LEMMA AgedFits ==
  ASSUME NEW s, Good(s)
  PROVE  LET t == [s EXCEPT !.skipped = {[k EXCEPT !.old = TRUE] : k \in @}]
         IN  /\ Good(t)
             /\ Fits(s) => Fits(t)
             /\ t.dhs = s.dhs /\ t.ns = s.ns /\ t.cks = s.cks
  <1> DEFINE aged == {[k EXCEPT !.old = TRUE] : k \in s.skipped}
             f == [k \in s.skipped |-> [k EXCEPT !.old = TRUE]]
             t == [s EXCEPT !.skipped = aged]
  <1>1. s.skipped \subseteq Skipped /\ IsFiniteSet(s.skipped)
    BY DEF Good, Session
  <1>2. aged \subseteq Skipped
    BY <1>1 DEF Skipped
  <1>3. f \in Surjection(s.skipped, aged)
    BY DEF Surjection
  <1> HIDE DEF aged, f
  <1>4. IsFiniteSet(aged) /\ Cardinality(aged) <= Cardinality(s.skipped)
    BY <1>1, <1>3, FS_Surjection
  <1>5. Cardinality(aged) \in Nat /\ Cardinality(s.skipped) \in Nat
    BY <1>1, <1>4, FS_CardinalityType
  <1>6. Good(t) /\ t.skipped = aged /\ t.dhs = s.dhs /\ t.ns = s.ns /\ t.cks = s.cks
    BY <1>2, <1>4 DEF Good, Session
  <1>7. t = [s EXCEPT !.skipped = {[k EXCEPT !.old = TRUE] : k \in @}]
    BY DEF Good, Session, aged
  <1>8. Fits(s) => Fits(t)
    BY <1>4, <1>5, <1>6, BoundsAssumption DEF Fits
  <1> HIDE DEF t
  <1> QED BY <1>6, <1>7, <1>8

LEMMA DhRatchetGood ==
  ASSUME NEW s, Good(s), NEW dh \in Nat, NEW fresh \in Nat
  PROVE  LET t == DhRatchet(s, dh, fresh)
         IN  /\ Good(t)
             /\ t.skipped = s.skipped
             /\ SendsAnew(t, dh, fresh)
  <1> DEFINE recv == Append(s.root, {s.dhs, dh})
             send == Append(recv, {fresh, dh})
  <1>1. recv \in Chain /\ send \in Chain
    BY DEF Good, Session, Chain
  <1>2. DhRatchet(s, dh, fresh) =
          [s EXCEPT !.pn = s.ns, !.ns = 0, !.nr = 0, !.dhr = {dh}, !.dhs = fresh,
                    !.ckr = {recv}, !.cks = {send}, !.root = send]
    BY DEF DhRatchet
  <1>3. \E r \in Chain : {send} = {Append(r, {fresh, dh})}
    BY <1>1
  <1> DEFINE t == [root |-> send, dhs |-> fresh, dhr |-> {dh}, cks |-> {send},
                   ckr |-> {recv}, ns |-> 0, nr |-> 0, pn |-> s.ns,
                   skipped |-> s.skipped]
  <1> HIDE DEF recv, send
  <1>4. DhRatchet(s, dh, fresh) = t
    BY <1>2 DEF Good, Session
  <1>5. t \in Session
    BY <1>1 DEF Good, Session
  <1>6. Good(t)
    BY <1>5 DEF Good
  <1>7. t.skipped = s.skipped /\ t.dhs = fresh /\ t.cks = {send}
    OBVIOUS
  <1> HIDE DEF t
  <1> QED BY <1>3, <1>4, <1>6, <1>7, Zenon DEF SendsAnew

LEMMA CaughtUpGood ==
  ASSUME NEW s, Good(s), NEW m \in Message, keys \in Nat
  PROVE  LET t == CaughtUp(s, m)
         IN  /\ Good(t)
             /\ Fits(s) /\ (m.dh \notin s.dhr => ~TooMany(s, m.pn)) => Fits(t)
             /\ SendsAs(t, s) \/ SendsAnew(t, m.dh, keys)
  <1>0. m.dh \in Nat /\ m.pn \in Nat
    BY DEF Message
  <1>1. CASE m.dh \in s.dhr
    BY <1>1 DEF CaughtUp, SendsAs
  <1>2. CASE m.dh \notin s.dhr
    <2> DEFINE u == SkipMessageKeys(s, m.pn)
               t == DhRatchet(u, m.dh, keys)
    <2>1. CaughtUp(s, m) = t
      BY <1>2 DEF CaughtUp
    <2>2. Good(u) /\ (Fits(s) /\ ~TooMany(s, m.pn) => Fits(u))
      BY <1>0, SkipFits
    <2> HIDE DEF u
    <2>3. Good(t) /\ t.skipped = u.skipped /\ SendsAnew(t, m.dh, keys)
      BY <1>0, <2>2, DhRatchetGood
    <2> HIDE DEF t
    <2> QED BY <1>2, <2>1, <2>2, <2>3 DEF Fits
  <1> QED BY <1>1, <1>2

LEMMA DecryptedGood ==
  ASSUME NEW s, Good(s), NEW m \in Message, keys \in Nat
  PROVE  LET t == Decrypted(s, m)
         IN  /\ Good(t)
             /\ Fits(s) /\ Decrypts(s, m) => Fits(t)
             /\ SendsAs(t, s) \/ SendsAnew(t, m.dh, keys)
  <1> DEFINE l == Unexpired(s)
             c == CaughtUp(l, m)
             u == SkipMessageKeys(c, m.n)
  <1>0. m.n \in Nat
    BY DEF Message
  <1>1. /\ Good(l) /\ SendsAs(l, s)
        /\ Cardinality(l.skipped) <= Cardinality(s.skipped)
    BY UnexpiredIsLess DEF SendsAs
  <1>2. Fits(s) => Fits(l)
    <2>1. Cardinality(l.skipped) \in Nat /\ Cardinality(s.skipped) \in Nat
      BY <1>1, FS_CardinalityType DEF Good
    <2> HIDE DEF l
    <2> QED BY <1>1, <2>1, BoundsAssumption DEF Fits
  <1>3. CASE Cached(l, m) # {}
    <2> DEFINE rest == l.skipped \ Cached(l, m)
    <2>1. Decrypted(s, m) = [l EXCEPT !.skipped = rest]
      BY <1>1, <1>3 DEF Decrypted, Good, Session
    <2>2. IsFiniteSet(rest) /\ Cardinality(rest) <= Cardinality(l.skipped)
      BY <1>1, FS_Subset DEF Good
    <2>3. Cardinality(rest) \in Nat /\ Cardinality(l.skipped) \in Nat
      BY <1>1, <2>2, FS_CardinalityType DEF Good
    <2>4. rest \subseteq l.skipped
      OBVIOUS
    <2> HIDE DEF rest, l
    <2> DEFINE t == [l EXCEPT !.skipped = rest]
    <2>5. Good(t) /\ SendsAs(t, l) /\ t.skipped = rest
      BY <1>1, <2>2, <2>4 DEF Good, Session, SendsAs
    <2>6. Fits(l) => Fits(t)
      BY <2>2, <2>3, <2>5, BoundsAssumption DEF Fits
    <2> HIDE DEF t
    <2> QED BY <1>1, <1>2, <2>1, <2>5, <2>6 DEF SendsAs, t
  <1>4. CASE Cached(l, m) = {}
    <2>1. Decrypts(s, m) => /\ m.dh \notin l.dhr => ~TooMany(l, m.pn)
                            /\ ~TooMany(c, m.n)
      BY <1>4 DEF Decrypts
    <2>2. Decrypted(s, m) = [u EXCEPT !.nr = @ + 1]
      BY <1>4 DEF Decrypted
    <2> HIDE DEF l
    <2>3. /\ Good(c)
          /\ Fits(l) /\ (m.dh \notin l.dhr => ~TooMany(l, m.pn)) => Fits(c)
          /\ SendsAs(c, l) \/ SendsAnew(c, m.dh, keys)
      BY <1>1, CaughtUpGood
    <2> HIDE DEF c
    <2>4. /\ Good(u) /\ (Fits(c) /\ ~TooMany(c, m.n) => Fits(u))
          /\ SendsAs(u, c)
      BY <1>0, <2>3, SkipFits DEF SendsAs
    <2> HIDE DEF u
    <2> DEFINE t == [u EXCEPT !.nr = @ + 1]
    <2>5. Good(t) /\ SendsAs(t, u) /\ t.skipped = u.skipped
      BY <2>4 DEF Good, Session, SendsAs
    <2> HIDE DEF t
    <2>6. SendsAs(t, s) \/ SendsAnew(t, m.dh, keys)
      BY <1>1, <2>3, <2>4, <2>5 DEF SendsAs, SendsAnew
    <2>7. Fits(s) /\ Decrypts(s, m) => Fits(t)
      BY <1>2, <2>1, <2>3, <2>4, <2>5 DEF Fits
    <2>8. Decrypted(s, m) = t
      BY <2>2 DEF t
    <2> QED BY <2>5, <2>6, <2>7, <2>8
  <1> QED BY <1>3, <1>4

-----------------------------------------------------------------------------
(* The actions on well-formed states.                                      *)

LEMMA PartyGood ==
  ASSUME TypeOK, NEW p \in Party
  PROVE  Good(session[p]) /\ session[p] \in Session /\ keys \in Nat
BY GoodSessions

LEMMA StaleIds ==
  ASSUME sent \subseteq Message, NEW s
  PROVE  Stale(s) \subseteq Nat
BY DEF Stale, Message

LEMMA InitType == Init => TypeOK
  <1> SUFFICES ASSUME Init PROVE TypeOK
    OBVIOUS
  <1>1. {0, 1} \in SUBSET Nat /\ <<{0, 1}>> \in Chain /\ <<>> \in Chain
    BY DEF Chain
  <1>2. ASSUME NEW p \in Party PROVE Good(session[p])
    <2>1. IsFiniteSet(session[p].skipped)
      BY FS_EmptySet DEF Init
    <2>2. session[p] \in Session
      BY <1>1 DEF Init, Session
    <2>3. /\ \A x, y \in session[p].dhr : x = y
          /\ \A x, y \in session[p].cks : x = y
          /\ \A x, y \in session[p].ckr : x = y
      BY DEF Init
    <2> QED BY <2>1, <2>2, <2>3 DEF Good
  <1>3. session \in [Party -> Session]
    <2>1. session = [p \in Party |-> session[p]]
      BY DEF Init
    <2> QED BY <1>2, <2>1 DEF Good
  <1> QED BY <1>2, <1>3, GoodSessions, FS_EmptySet DEF Init

LEMMA EncryptGood ==
  ASSUME TypeOK, NEW p \in Party, Encrypt(p)
  PROVE  /\ TypeOK'
         /\ \A q \in Party : Fits(session[q]) => Fits(session'[q])
  <1> DEFINE s == session[p]
             t == [s EXCEPT !.ns = @ + 1]
  <1>1. PICK c \in s.cks :
          sent' = sent \cup {[id |-> Cardinality(sent) + 1, from |-> p,
                              opening |-> sent = {}, dh |-> s.dhs, pn |-> s.pn,
                              n |-> s.ns, key |-> <<c, s.ns>>]}
    BY DEF Encrypt
  <1>2. Good(s) /\ s \in Session
    BY PartyGood
  <1>3. Good(t) /\ t.skipped = s.skipped
    BY <1>2 DEF Good, Session
  <1>4. session' = [session EXCEPT ![p] = t]
    BY DEF Encrypt
  <1>5. Cardinality(sent) \in Nat
    BY GoodSessions, FS_CardinalityType
  <1>6. sent' \subseteq Message /\ IsFiniteSet(sent')
    <2>1. <<c, s.ns>> \in Key
      BY <1>2 DEF Session, Key
    <2>2. s.dhs \in Nat /\ s.pn \in Nat /\ s.ns \in Nat
      BY <1>2 DEF Session
    <2>3. [id |-> Cardinality(sent) + 1, from |-> p, opening |-> sent = {},
           dh |-> s.dhs, pn |-> s.pn, n |-> s.ns, key |-> <<c, s.ns>>] \in Message
      BY <1>5, <2>1, <2>2 DEF Message
    <2> QED BY <1>1, <2>3, GoodSessions, FS_AddElement
  <1> HIDE DEF s, t
  <1>7. \A q \in Party : session'[q] = IF q = p THEN t ELSE session[q]
    BY <1>4, GoodSessions
  <1>8. session' \in [Party -> Session] /\ \A q \in Party : Good(session'[q])
    BY <1>3, <1>4, <1>7, GoodSessions DEF Good
  <1>9. TypeOK'
    BY <1>6, <1>8, GoodSessions DEF Encrypt, TypeOK, Good
  <1> QED BY <1>3, <1>7, <1>9 DEF Fits, s

LEMMA DecryptGood ==
  ASSUME TypeOK, NEW p \in Party, NEW m \in sent, Decrypt(p, m)
  PROVE  /\ TypeOK'
         /\ \A q \in Party : Fits(session[q]) => Fits(session'[q])
  <1> DEFINE s == session[p]
             t == Decrypted(s, m)
  <1>1. Good(s) /\ m \in Message /\ keys \in Nat /\ sent \subseteq Message
    BY PartyGood, GoodSessions
  <1>2. Good(t) /\ (Fits(s) => Fits(t))
    BY <1>1, DecryptedGood DEF Decrypt
  <1>3. Stale(s) \subseteq Nat
    BY <1>1, StaleIds
  <1>4. /\ session' = [session EXCEPT ![p] = t]
        /\ keys' \in {keys, keys + 1}
        /\ reads' = [reads EXCEPT ![m.id] = @ + 1]
        /\ expired' = expired \cup Stale(s)
        /\ sent' = sent /\ weeks' = weeks
    BY DEF Decrypt
  <1> HIDE DEF s, t
  <1>5. \A q \in Party : session'[q] = IF q = p THEN t ELSE session[q]
    BY <1>4, GoodSessions
  <1>6. session' \in [Party -> Session] /\ \A q \in Party : Good(session'[q])
    BY <1>2, <1>4, <1>5, GoodSessions DEF Good
  <1>7. reads' \in [1 .. MaxMsg -> Nat] /\ expired' \subseteq Nat /\ keys' \in Nat
    <2>1. reads \in [1 .. MaxMsg -> Nat] /\ expired \subseteq Nat
      BY GoodSessions
    <2>2. reads' \in [1 .. MaxMsg -> Nat]
      <3> DEFINE ids == 1 .. MaxMsg
      <3>1. reads \in [ids -> Nat]
        BY <2>1
      <3> HIDE DEF ids
      <3>2. [reads EXCEPT ![m.id] = @ + 1] \in [ids -> Nat]
        <4> DEFINE r == [reads EXCEPT ![m.id] = @ + 1]
        <4>1. r = [i \in ids |-> IF i = m.id THEN reads[i] + 1 ELSE reads[i]]
          BY <3>1
        <4>2. \A i \in ids : reads[i] \in Nat
          BY <3>1
        <4> HIDE DEF r
        <4>3. r \in [ids -> Nat]
          BY <4>1, <4>2
        <4> QED BY <4>3 DEF r
      <3> QED BY <1>4, <3>2 DEF ids
    <2>3. expired' \subseteq Nat
      BY <1>3, <1>4, <2>1
    <2>4. keys' \in Nat
      BY <1>1, <1>4
    <2> QED BY <2>2, <2>3, <2>4
  <1>8. TypeOK'
    BY <1>4, <1>6, <1>7 DEF TypeOK, Good
  <1> QED BY <1>2, <1>5, <1>8 DEF s

LEMMA ExpireGood ==
  ASSUME TypeOK, NEW p \in Party, ExpireSkippedKeys(p)
  PROVE  /\ TypeOK'
         /\ \A q \in Party : Fits(session[q]) => Fits(session'[q])
         /\ \A q \in Party : SendsAs(session'[q], session[q])
  <1> DEFINE s == session[p]
             t == Unexpired(s)
  <1>1. Good(s) /\ sent \subseteq Message
    BY PartyGood, GoodSessions
  <1>2. /\ Good(t) /\ SendsAs(t, s)
        /\ Cardinality(t.skipped) <= Cardinality(s.skipped)
    BY <1>1, UnexpiredIsLess DEF SendsAs
  <1>3. Stale(s) \subseteq Nat
    BY <1>1, StaleIds
  <1>4. /\ session' = [session EXCEPT ![p] = t]
        /\ expired' = expired \cup Stale(s)
        /\ UNCHANGED <<keys, sent, reads, weeks>>
    BY DEF ExpireSkippedKeys
  <1> HIDE DEF s, t
  <1>5. \A q \in Party : session'[q] = IF q = p THEN t ELSE session[q]
    BY <1>4, GoodSessions
  <1>6. session' \in [Party -> Session] /\ \A q \in Party : Good(session'[q])
    BY <1>2, <1>4, <1>5, GoodSessions DEF Good
  <1>7. TypeOK'
    BY <1>3, <1>4, <1>6, GoodSessions DEF TypeOK, Good
  <1>8. Fits(s) => Fits(t)
    <2>1. Cardinality(t.skipped) \in Nat /\ Cardinality(s.skipped) \in Nat
      BY <1>1, <1>2, FS_CardinalityType DEF Good
    <2> QED BY <1>2, <2>1, BoundsAssumption DEF Fits
  <1> QED BY <1>2, <1>5, <1>7, <1>8 DEF s, SendsAs

LEMMA WeekGood ==
  ASSUME TypeOK, Week
  PROVE  /\ TypeOK'
         /\ \A q \in Party : Fits(session[q]) => Fits(session'[q])
         /\ \A q \in Party : SendsAs(session'[q], session[q])
  <1> DEFINE t(q) ==
        [session[q] EXCEPT !.skipped = {[k EXCEPT !.old = TRUE] : k \in @}]
  <1>1. session' = [q \in Party |-> t(q)]
    BY DEF Week
  <1>2. ASSUME NEW q \in Party
        PROVE  /\ Good(t(q)) /\ (Fits(session[q]) => Fits(t(q)))
               /\ SendsAs(t(q), session[q])
    BY PartyGood, AgedFits DEF SendsAs
  <1> HIDE DEF t
  <1>3. session' \in [Party -> Session] /\ \A q \in Party : Good(session'[q])
    BY <1>1, <1>2 DEF Good
  <1>4. TypeOK'
    <2>1. weeks' \in Nat /\ UNCHANGED <<keys, sent, reads, expired>>
      BY GoodSessions DEF Week
    <2> QED BY <1>3, <2>1 DEF TypeOK, Good
  <1> QED BY <1>1, <1>2, <1>4

-----------------------------------------------------------------------------
(* Every reachable state is well-formed: each party keeps at most one      *)
(* receiving and one sending chain, whatever is decrypted in which order.  *)
THEOREM TypeCorrect == Spec => []TypeOK
  <1>1. TypeOK /\ [Next]_vars => TypeOK'
    <2> SUFFICES ASSUME TypeOK, [Next]_vars PROVE TypeOK'
      OBVIOUS
    <2>1. CASE \E p \in Party : Encrypt(p)
      BY <2>1, EncryptGood
    <2>2. CASE \E p \in Party : ExpireSkippedKeys(p)
      BY <2>2, ExpireGood
    <2>3. CASE \E p \in Party, m \in sent : Decrypt(p, m)
      BY <2>3, DecryptGood
    <2>4. CASE Week
      BY <2>4, WeekGood
    <2>5. CASE UNCHANGED vars
      BY <2>5 DEF TypeOK, vars
    <2> QED BY <2>1, <2>2, <2>3, <2>4, <2>5 DEF Next
  <1> QED BY <1>1, InitType, PTL DEF Spec

(* The cache of skipped keys holds at most kMaxSkip keys, over all chains  *)
(* and however many gaps there are: a block that would exceed it is        *)
(* refused before any key is derived.                                      *)
THEOREM CacheIsBounded == Spec => []SkippedBounded
  <1> DEFINE AllFit == \A p \in Party : Fits(session[p])
  <1>1. Init => AllFit
    BY FS_EmptySet, BoundsAssumption DEF Init, Fits
  <1>2. TypeOK /\ AllFit /\ [Next]_vars => AllFit'
    <2> SUFFICES ASSUME TypeOK, AllFit, [Next]_vars PROVE AllFit'
      OBVIOUS
    <2> USE DEF Fits
    <2>1. CASE \E p \in Party : Encrypt(p)
      BY <2>1, EncryptGood
    <2>2. CASE \E p \in Party : ExpireSkippedKeys(p)
      BY <2>2, ExpireGood
    <2>3. CASE \E p \in Party, m \in sent : Decrypt(p, m)
      BY <2>3, DecryptGood
    <2>4. CASE Week
      BY <2>4, WeekGood
    <2>5. CASE UNCHANGED vars
      BY <2>5 DEF vars
    <2> QED BY <2>1, <2>2, <2>3, <2>4, <2>5 DEF Next
  <1>3. AllFit => SkippedBounded
    BY DEF SkippedBounded, Fits
  <1> QED BY <1>1, <1>2, <1>3, TypeCorrect, PTL DEF Spec

-----------------------------------------------------------------------------
(* Message keys.                                                           *)

(* The chain c ends in an output of the key pair d, the younger of the two *)
(* pairs that made it.                                                     *)
EndsIn(c, d) == c # <<>> /\ \E x \in 0 .. (d - 1) : c[Len(c)] = {d, x}

(* A chain that is sent on belongs to the party's current key pair alone.  *)
OwnChains ==
  /\ \A p, q \in Party : session[p].dhs = session[q].dhs => p = q
  /\ \A p \in Party : session[p].dhs < keys
  /\ \A p \in Party : \A c \in session[p].cks : EndsIn(c, session[p].dhs)

(* A block's key is made by the key pair and the number in its header.     *)
HeaderNamesKey ==
  \A m \in sent : m.dh < keys /\ EndsIn(m.key[1], m.dh) /\ m.key[2] = m.n

(* The numbers below `ns` are those used with the current key pair.        *)
Counted ==
  \A m \in sent, p \in Party : m.dh = session[p].dhs => m.n < session[p].ns

HeadersUnique == \A a, b \in sent : a.dh = b.dh /\ a.n = b.n => a = b

KeysInv == TypeOK /\ OwnChains /\ HeaderNamesKey /\ Counted /\ HeadersUnique

LEMMA EndsInOne ==
  ASSUME NEW c, NEW d \in Nat, NEW e \in Nat, EndsIn(c, d), EndsIn(c, e)
  PROVE  d = e
  <1>1. PICK x \in 0 .. (d - 1) : c[Len(c)] = {d, x}
    BY DEF EndsIn
  <1>2. PICK y \in 0 .. (e - 1) : c[Len(c)] = {e, y}
    BY DEF EndsIn
  <1>3. x < d /\ y < e /\ {d, x} = {e, y}
    BY <1>1, <1>2
  <1> QED BY <1>3

LEMMA AppendEndsIn ==
  ASSUME NEW r \in Chain, NEW d \in Nat, NEW x \in Nat, x < d
  PROVE  EndsIn(Append(r, {d, x}), d)
  <1> DEFINE c == Append(r, {d, x})
  <1>1. {d, x} \in SUBSET Nat
    OBVIOUS
  <1>2. c \in Chain /\ Len(c) = Len(r) + 1 /\ c[Len(c)] = {d, x} /\ Len(r) \in Nat
    BY <1>1 DEF Chain
  <1>3. c # <<>>
    BY <1>2
  <1>4. x \in 0 .. (d - 1)
    OBVIOUS
  <1> HIDE DEF c
  <1> QED BY <1>2, <1>3, <1>4 DEF EndsIn, c

LEMMA InitKeys == Init => KeysInv
  <1> SUFFICES ASSUME Init PROVE KeysInv
    OBVIOUS
  <1>1. TypeOK
    BY InitType
  <1>2. OwnChains
    <2>1. \A p, q \in Party : session[p].dhs = session[q].dhs => p = q
      BY DEF Init, Party
    <2>2. \A p \in Party : session[p].dhs < keys
      BY DEF Init
    <2>3. ASSUME NEW p \in Party, NEW c \in session[p].cks
          PROVE  EndsIn(c, session[p].dhs)
      <3>1. c = <<{0, 1}>> /\ session[p].dhs = 1
        BY <2>3 DEF Init, Party
      <3>2. c # <<>> /\ c[Len(c)] = {1, 0}
        BY <3>1
      <3> QED BY <3>1, <3>2 DEF EndsIn
    <2> QED BY <2>1, <2>2, <2>3 DEF OwnChains
  <1>3. HeaderNamesKey /\ Counted /\ HeadersUnique
    BY DEF Init, HeaderNamesKey, Counted, HeadersUnique
  <1> QED BY <1>1, <1>2, <1>3 DEF KeysInv

(* A step that sends nothing and changes no key pair.                      *)
LEMMA SameKeys ==
  ASSUME KeysInv, TypeOK', sent' = sent, keys' \in Nat, keys' >= keys,
         \A p \in Party : SendsAs(session'[p], session[p])
  PROVE  KeysInv'
  <1>1. keys \in Nat /\ sent \subseteq Message /\ \A p \in Party : session[p].dhs \in Nat
    BY GoodSessions DEF KeysInv, Session
  <1>2. OwnChains'
    BY <1>1 DEF KeysInv, OwnChains, SendsAs
  <1>3. HeaderNamesKey'
    BY <1>1 DEF KeysInv, HeaderNamesKey, Message
  <1>4. Counted' /\ HeadersUnique'
    BY DEF KeysInv, Counted, HeadersUnique, SendsAs
  <1> QED BY <1>2, <1>3, <1>4 DEF KeysInv

LEMMA EncryptKeys ==
  ASSUME KeysInv, NEW p \in Party, Encrypt(p)
  PROVE  KeysInv'
  <1> DEFINE s == session[p]
  <1>0. TypeOK /\ TypeOK'
    BY EncryptGood DEF KeysInv
  <1>1. /\ s \in Session /\ keys \in Nat /\ sent \subseteq Message
        /\ \A q \in Party : session[q] \in Session
    BY <1>0, PartyGood, GoodSessions
  <1>2. PICK c \in s.cks :
          sent' = sent \cup {[id |-> Cardinality(sent) + 1, from |-> p,
                              opening |-> sent = {}, dh |-> s.dhs, pn |-> s.pn,
                              n |-> s.ns, key |-> <<c, s.ns>>]}
    BY DEF Encrypt
  <1> DEFINE new == [id |-> Cardinality(sent) + 1, from |-> p,
                     opening |-> sent = {}, dh |-> s.dhs, pn |-> s.pn,
                     n |-> s.ns, key |-> <<c, s.ns>>]
  <1>3. /\ sent' = sent \cup {new}
        /\ new.dh = s.dhs /\ new.n = s.ns /\ new.key = <<c, s.ns>>
    BY <1>2
  <1> HIDE DEF new
  <1>4. /\ session' = [session EXCEPT ![p] = [s EXCEPT !.ns = @ + 1]]
        /\ keys' = keys
    BY DEF Encrypt
  <1>5. \A q \in Party :
          /\ session'[q].dhs = session[q].dhs /\ session'[q].cks = session[q].cks
          /\ session'[q].ns = IF q = p THEN s.ns + 1 ELSE session[q].ns
    BY <1>0, <1>1, <1>4, GoodSessions DEF Session
  <1>6. OwnChains'
    BY <1>4, <1>5 DEF KeysInv, OwnChains
  <1>7. HeaderNamesKey'
    <2>1. new.dh < keys /\ EndsIn(new.key[1], new.dh) /\ new.key[2] = new.n
      BY <1>3 DEF KeysInv, OwnChains
    <2> QED BY <1>3, <1>4, <2>1 DEF KeysInv, HeaderNamesKey
  <1>8. Counted'
    <2> SUFFICES ASSUME NEW m \in sent', NEW q \in Party, m.dh = session'[q].dhs
                 PROVE  m.n < session'[q].ns
      BY DEF Counted
    <2>1. CASE m \in sent
      <3>1. m.n < session[q].ns /\ m.n \in Nat /\ session[q].ns \in Nat
        BY <1>1, <1>5, <2>1 DEF KeysInv, Counted, Message, Session
      <3> QED BY <1>5, <3>1
    <2>2. CASE m = new
      <3>1. q = p
        BY <1>3, <1>5, <2>2 DEF KeysInv, OwnChains
      <3>2. s.ns \in Nat
        BY <1>1 DEF Session
      <3> QED BY <1>3, <1>5, <2>2, <3>1, <3>2
    <2> QED BY <1>3, <2>1, <2>2
  <1>9. HeadersUnique'
    <2>1. \A m \in sent : m.dh = s.dhs => m.n < s.ns /\ m.n \in Nat /\ s.ns \in Nat
      BY <1>1 DEF KeysInv, Counted, Message, Session
    <2>2. \A m \in sent : ~(m.dh = new.dh /\ m.n = new.n)
      BY <1>3, <2>1
    <2> QED BY <1>3, <2>2 DEF KeysInv, HeadersUnique
  <1> QED BY <1>0, <1>6, <1>7, <1>8, <1>9 DEF KeysInv

LEMMA DecryptKeys ==
  ASSUME KeysInv, NEW p \in Party, NEW m \in sent, Decrypt(p, m)
  PROVE  KeysInv'
  <1> DEFINE s == session[p]
             t == Decrypted(s, m)
  <1>0. TypeOK /\ TypeOK'
    BY DecryptGood DEF KeysInv
  <1>1. /\ Good(s) /\ keys \in Nat /\ sent \subseteq Message /\ m \in Message
        /\ \A q \in Party : session[q] \in Session
    BY <1>0, PartyGood, GoodSessions
  <1>2. SendsAs(t, s) \/ SendsAnew(t, m.dh, keys)
    BY <1>1, DecryptedGood
  <1>3. /\ session' = [session EXCEPT ![p] = t]
        /\ keys' = IF t.dhs = keys THEN keys + 1 ELSE keys
        /\ sent' = sent
    BY DEF Decrypt
  <1> HIDE DEF t
  <1>4. \A q \in Party : session'[q] = IF q = p THEN t ELSE session[q]
    BY <1>0, <1>3, GoodSessions
  <1>5. CASE SendsAs(t, s)
    <2>1. \A q \in Party : SendsAs(session'[q], session[q])
      BY <1>4, <1>5 DEF SendsAs
    <2>2. keys' \in Nat /\ keys' >= keys
      BY <1>1, <1>3
    <2> QED BY <1>0, <1>3, <2>1, <2>2, SameKeys
  <1>6. CASE SendsAnew(t, m.dh, keys)
    <2>1. /\ keys' = keys + 1 /\ t.dhs = keys
          /\ m.dh \in Nat /\ m.dh < keys
      BY <1>1, <1>3, <1>6 DEF SendsAnew, KeysInv, HeaderNamesKey, Message
    <2>2. \A q \in Party : session[q].dhs < keys /\ session[q].dhs \in Nat
      BY <1>1 DEF KeysInv, OwnChains, Session
    <2>3. \A c \in t.cks : EndsIn(c, keys)
      BY <1>1, <1>6, <2>1, AppendEndsIn DEF SendsAnew
    <2>4. OwnChains'
      <3>1. ASSUME NEW q \in Party, NEW r \in Party, session'[q].dhs = session'[r].dhs
            PROVE  q = r
        <4>1. \A x \in Party : session'[x].dhs = IF x = p THEN keys ELSE session[x].dhs
          BY <1>4, <2>1
        <4> QED BY <1>1, <2>2, <3>1, <4>1 DEF KeysInv, OwnChains
      <3>2. \A q \in Party : session'[q].dhs < keys'
        BY <1>1, <1>4, <2>1, <2>2
      <3>3. \A q \in Party : \A c \in session'[q].cks : EndsIn(c, session'[q].dhs)
        BY <1>4, <2>1, <2>3 DEF KeysInv, OwnChains
      <3> QED BY <3>1, <3>2, <3>3 DEF OwnChains
    <2>5. \A x \in sent : x.dh < keys /\ x.dh \in Nat
      BY <1>1 DEF KeysInv, HeaderNamesKey, Message
    <2>6. HeaderNamesKey'
      BY <1>1, <1>3, <2>1, <2>5 DEF KeysInv, HeaderNamesKey
    <2>7. Counted'
      <3> SUFFICES ASSUME NEW x \in sent, NEW q \in Party, x.dh = session'[q].dhs
                   PROVE  x.n < session'[q].ns
        BY <1>3 DEF Counted
      <3>1. q # p
        BY <1>1, <1>4, <2>1, <2>5
      <3> QED BY <1>4, <3>1 DEF KeysInv, Counted
    <2>8. HeadersUnique'
      BY <1>3 DEF KeysInv, HeadersUnique
    <2> QED BY <1>0, <2>4, <2>6, <2>7, <2>8 DEF KeysInv
  <1> QED BY <1>2, <1>5, <1>6

LEMMA KeysKept == Spec => []KeysInv
  <1>1. KeysInv /\ [Next]_vars => KeysInv'
    <2> SUFFICES ASSUME KeysInv, [Next]_vars PROVE KeysInv'
      OBVIOUS
    <2>0. TypeOK /\ keys \in Nat
      BY GoodSessions DEF KeysInv
    <2>1. CASE \E p \in Party : Encrypt(p)
      BY <2>1, EncryptKeys
    <2>2. CASE \E p \in Party : ExpireSkippedKeys(p)
      <3>1. sent' = sent /\ keys' = keys
        BY <2>2 DEF ExpireSkippedKeys
      <3> QED BY <2>0, <2>2, <3>1, ExpireGood, SameKeys
    <2>3. CASE \E p \in Party, m \in sent : Decrypt(p, m)
      BY <2>3, DecryptKeys
    <2>4. CASE Week
      <3>1. sent' = sent /\ keys' = keys
        BY <2>4 DEF Week
      <3> QED BY <2>0, <2>4, <3>1, WeekGood, SameKeys
    <2>5. CASE UNCHANGED vars
      BY <2>5 DEF KeysInv, TypeOK, OwnChains, HeaderNamesKey, Counted,
                  HeadersUnique, vars
    <2> QED BY <2>1, <2>2, <2>3, <2>4, <2>5 DEF Next
  <1> QED BY <1>1, InitKeys, PTL DEF Spec

LEMMA OneKeyEach == KeysInv => KeysUnique
  <1> SUFFICES ASSUME KeysInv, NEW a \in sent, NEW b \in sent, a.key = b.key
               PROVE  a = b
    BY DEF KeysUnique
  <1>1. a.dh \in Nat /\ b.dh \in Nat
    BY GoodSessions DEF KeysInv, Message
  <1>2. EndsIn(a.key[1], a.dh) /\ EndsIn(a.key[1], b.dh) /\ a.n = b.n
    BY DEF KeysInv, HeaderNamesKey
  <1>3. a.dh = b.dh
    BY <1>1, <1>2, EndsInOne
  <1> QED BY <1>2, <1>3 DEF KeysInv, HeadersUnique

(* No message key seals two blocks, in either direction and across any     *)
(* number of ratchet steps.                                                *)
THEOREM KeysNeverReused == Spec => []KeysUnique
BY OneKeyEach, KeysKept, PTL

-----------------------------------------------------------------------------
(* Keys that are gone.                                                     *)

Other(p) == IF p = "alice" THEN "bob" ELSE "alice"

(* Chains get longer with every ratchet step, and the two directions take  *)
(* turns: a party's sending chains are all odd, or all even, in length.    *)
Turn(p) == IF p = "alice" THEN 1 ELSE 0

(* No chain is longer than the root it came from; a cached key is of the   *)
(* other direction, below the counter of its chain, and cached once.       *)
Tidy(s, turn) ==
  /\ Len(s.root) % 2 = turn
  /\ \A c \in s.cks : Len(c) <= Len(s.root) /\ Len(c) % 2 = turn
  /\ \A c \in s.ckr : Len(c) <= Len(s.root) /\ Len(c) % 2 = 1 - turn
  /\ \A k \in s.skipped :
       /\ Len(k.key[1]) <= Len(s.root) /\ Len(k.key[1]) % 2 = 1 - turn
       /\ k.n = k.key[2] /\ (k.key[1] \in s.ckr => k.n < s.nr)
  /\ \A j, k \in s.skipped : j.key = k.key => j = k

(* A key s can no longer receive with, and one it can no longer send with. *)
Spent(s, key) ==
  /\ \A k \in s.skipped : k.key # key
  /\ Len(key[1]) <= Len(s.root)
  /\ key[1] \in s.ckr => key[2] < s.nr

Past(s, key) == Len(key[1]) <= Len(s.root) /\ (key[1] \in s.cks => key[2] < s.ns)

(* What is spent or past stays so from s to t.                             *)
Onward(s, t) ==
  \A key \in Key : (Spent(s, key) => Spent(t, key)) /\ (Past(s, key) => Past(t, key))

LEMMA OnwardTwice ==
  ASSUME NEW s, NEW t, NEW u, Onward(s, t), Onward(t, u)
  PROVE  Onward(s, u)
BY DEF Onward

LEMMA Alternates ==
  ASSUME NEW n \in Nat, NEW turn \in {0, 1}, n % 2 = turn
  PROVE  (n + 1) % 2 = 1 - turn /\ (n + 2) % 2 = turn
OBVIOUS

LEMMA RootLength ==
  ASSUME NEW s, Good(s)
  PROVE  /\ Len(s.root) \in Nat /\ s.root \in Chain
         /\ \A c \in s.cks \cup s.ckr : Len(c) \in Nat
         /\ \A k \in s.skipped : k \in Skipped /\ k.key \in Key /\ Len(k.key[1]) \in Nat
         /\ s.nr \in Nat /\ s.ns \in Nat
BY DEF Good, Session, Chain, Skipped, Key

(* A cache that has only lost keys.                                        *)
LEMMA Fewer ==
  ASSUME NEW s, Good(s), NEW turn \in {0, 1}, Tidy(s, turn), NEW rest \in SUBSET s.skipped
  PROVE  LET t == [s EXCEPT !.skipped = rest]
         IN  Tidy(t, turn) /\ Onward(s, t)
  <1> DEFINE t == [s EXCEPT !.skipped = rest]
  <1>1. /\ t.root = s.root /\ t.cks = s.cks /\ t.ckr = s.ckr
        /\ t.nr = s.nr /\ t.ns = s.ns /\ t.skipped = rest
    BY DEF Good, Session
  <1> HIDE DEF t
  <1>2. Tidy(t, turn)
    BY <1>1 DEF Tidy
  <1>3. Onward(s, t)
    BY <1>1 DEF Onward, Spent, Past
  <1> QED BY <1>2, <1>3 DEF t

LEMMA UnexpiredTidy ==
  ASSUME NEW s, Good(s), NEW turn \in {0, 1}, Tidy(s, turn)
  PROVE  LET t == Unexpired(s)
         IN  /\ Tidy(t, turn) /\ Onward(s, t)
             /\ \A k \in s.skipped : k.old => Spent(t, k.key)
  <1> DEFINE rest == {k \in s.skipped : ~k.old}
             t == [s EXCEPT !.skipped = rest]
  <1>1. Unexpired(s) = t
    BY DEF Unexpired, Good, Session
  <1>2. Tidy(t, turn) /\ Onward(s, t)
    BY Fewer
  <1>3. t.skipped = rest /\ t.root = s.root /\ t.ckr = s.ckr /\ t.nr = s.nr
    BY DEF Good, Session
  <1> HIDE DEF t
  <1>4. ASSUME NEW k \in s.skipped, k.old PROVE Spent(t, k.key)
    <2>1. \A j \in t.skipped : j.key # k.key
      BY <1>3, <1>4 DEF Tidy
    <2>2. Len(k.key[1]) <= Len(s.root) /\ (k.key[1] \in s.ckr => k.key[2] < s.nr)
      BY DEF Tidy
    <2> QED BY <1>3, <2>1, <2>2 DEF Spent
  <1> QED BY <1>1, <1>2, <1>4

LEMMA SkipTidy ==
  ASSUME NEW s, Good(s), NEW turn \in {0, 1}, Tidy(s, turn), NEW until \in Nat
  PROVE  LET t == SkipMessageKeys(s, until)
         IN  Tidy(t, turn) /\ Onward(s, t) /\ t.root = s.root
  <1>0. /\ s.nr \in Nat /\ s.ckr \subseteq Chain
        /\ \A c, d \in s.ckr : c = d
    BY DEF Good, Session
  <1>1. CASE s.ckr = {} \/ until < s.nr
    <2>1. SkipMessageKeys(s, until) = s
      BY <1>1 DEF SkipMessageKeys
    <2>2. Onward(s, s)
      BY DEF Onward
    <2> QED BY <2>1, <2>2
  <1>2. CASE s.ckr # {} /\ until >= s.nr
    <2> DEFINE new == NewKeys(s, until)
               all == s.skipped \cup new
               t == [s EXCEPT !.skipped = all, !.nr = until]
    <2>1. SkipMessageKeys(s, until) = t
      BY <1>0, <1>2 DEF SkipMessageKeys, NewKeys, Good, Session
    <2>2. /\ t.root = s.root /\ t.cks = s.cks /\ t.ckr = s.ckr
          /\ t.nr = until /\ t.ns = s.ns /\ t.skipped = all
      BY DEF Good, Session
    <2>3. ASSUME NEW k \in new
          PROVE  /\ k.key[1] \in s.ckr /\ k.n = k.key[2] /\ k.n \in Nat
                 /\ s.nr <= k.n /\ k.n < until /\ k.dh \in s.dhr /\ k.old = FALSE
                 /\ k.key = <<k.key[1], k.n>> /\ k.key \in Key
                 /\ k = [dh |-> k.dh, n |-> k.n, key |-> k.key, old |-> FALSE]
      <3>1. PICK d \in s.dhr, c \in s.ckr, i \in s.nr .. (until - 1) :
              k = [dh |-> d, n |-> i, key |-> <<c, i>>, old |-> FALSE]
        BY <2>3, NewKeysAre
      <3>2. k.dh = d /\ k.n = i /\ k.key = <<c, i>> /\ k.old = FALSE
        BY <3>1
      <3>3. i \in Nat /\ s.nr <= i /\ i < until /\ c \in Chain
        BY <1>0
      <3>4. <<c, i>> \in Key
        BY <3>3 DEF Key
      <3> QED BY <3>1, <3>2, <3>3, <3>4
    <2> HIDE DEF new, t
    <2>4. ASSUME NEW j \in all, NEW k \in all, j.key = k.key PROVE j = k
      <3>1. CASE j \in s.skipped /\ k \in s.skipped
        BY <2>4, <3>1 DEF Tidy
      <3>2. CASE j \in new /\ k \in new
        <4>1. j.dh = k.dh
          BY <2>3, <3>2 DEF Good
        <4>2. j.n = j.key[2] /\ k.n = k.key[2]
          BY <2>3, <3>2
        <4>3. /\ j = [dh |-> j.dh, n |-> j.n, key |-> j.key, old |-> FALSE]
              /\ k = [dh |-> k.dh, n |-> k.n, key |-> k.key, old |-> FALSE]
          BY <2>3, <3>2, Zenon
        <4>4. j.n = k.n
          BY <2>4, <4>2
        <4> QED BY <2>4, <4>1, <4>3, <4>4, Zenon
      <3>3. ASSUME NEW x \in s.skipped, NEW y \in new PROVE x.key # y.key
        <4>1. x.key[1] \in s.ckr => x.key[2] < s.nr
          BY DEF Tidy
        <4>2. y.key[1] \in s.ckr /\ y.key[2] \in Nat /\ s.nr <= y.key[2]
          BY <2>3
        <4> QED BY <1>0, <4>1, <4>2
      <3> QED BY <2>4, <3>1, <3>2, <3>3
    <2>5. ASSUME NEW k \in all
          PROVE  /\ Len(k.key[1]) <= Len(s.root) /\ Len(k.key[1]) % 2 = 1 - turn
                 /\ k.n = k.key[2] /\ (k.key[1] \in s.ckr => k.n < until)
      <3>1. CASE k \in new
        BY <2>3, <3>1 DEF Tidy
      <3>2. CASE k \in s.skipped
        <4>1. k.n \in Nat
          BY <3>2, RootLength DEF Skipped
        <4>2. /\ Len(k.key[1]) <= Len(s.root) /\ Len(k.key[1]) % 2 = 1 - turn
              /\ k.n = k.key[2] /\ (k.key[1] \in s.ckr => k.n < s.nr)
          BY <3>2 DEF Tidy
        <4>3. k.n < s.nr => k.n < until
          BY <1>0, <1>2, <4>1
        <4> QED BY <4>2, <4>3
      <3> QED BY <3>1, <3>2
    <2>6. Tidy(t, turn)
      <3> HIDE DEF all
      <3> QED BY <2>2, <2>4, <2>5 DEF Tidy
    <2>7. ASSUME NEW key \in Key, Spent(s, key) PROVE Spent(t, key)
      <3>1. ASSUME NEW k \in new PROVE k.key # key
        <4>1. k.key[1] \in s.ckr /\ k.key[2] \in Nat /\ s.nr <= k.key[2]
          BY <2>3
        <4>2. key[1] \in s.ckr => key[2] < s.nr
          BY <2>7 DEF Spent
        <4> QED BY <1>0, <4>1, <4>2
      <3>2. key[2] \in Nat
        BY DEF Key
      <3> QED BY <1>0, <1>2, <2>2, <2>7, <3>1, <3>2 DEF Spent
    <2>8. ASSUME NEW key \in Key, Past(s, key) PROVE Past(t, key)
      BY <2>2, <2>8 DEF Past
    <2> QED BY <2>1, <2>2, <2>6, <2>7, <2>8 DEF Onward
  <1> QED BY <1>0, <1>1, <1>2

LEMMA RatchetTidy ==
  ASSUME NEW s, Good(s), NEW turn \in {0, 1}, Tidy(s, turn), NEW dh \in Nat, NEW fresh \in Nat
  PROVE  LET t == DhRatchet(s, dh, fresh)
         IN  Tidy(t, turn) /\ Onward(s, t)
  <1> DEFINE recv == Append(s.root, {s.dhs, dh})
             send == Append(recv, {fresh, dh})
             t == DhRatchet(s, dh, fresh)
  <1>1. /\ recv \in Chain /\ Len(recv) = Len(s.root) + 1
        /\ send \in Chain /\ Len(send) = Len(s.root) + 2
    BY DEF Good, Session, Chain
  <1>2. /\ t.root = send /\ t.cks = {send} /\ t.ckr = {recv}
        /\ t.nr = 0 /\ t.ns = 0 /\ t.skipped = s.skipped
    BY DEF DhRatchet, Good, Session
  <1> HIDE DEF t, recv, send
  <1>3. Len(s.root) \in Nat /\ Len(s.root) % 2 = turn
    BY RootLength DEF Tidy
  <1>4. (Len(s.root) + 1) % 2 = 1 - turn /\ (Len(s.root) + 2) % 2 = turn
    BY <1>3, Alternates
  <1>5. ASSUME NEW k \in s.skipped
        PROVE  Len(k.key[1]) < Len(recv) /\ Len(k.key[1]) <= Len(send)
    <2>1. Len(k.key[1]) \in Nat /\ Len(k.key[1]) <= Len(s.root)
      BY RootLength DEF Tidy
    <2> QED BY <1>1, <1>3, <2>1
  <1>6. Tidy(t, turn)
    <2>1. \A k \in t.skipped :
            /\ Len(k.key[1]) <= Len(t.root) /\ Len(k.key[1]) % 2 = 1 - turn
            /\ k.n = k.key[2] /\ k.key[1] \notin t.ckr
      <3>1. \A k \in s.skipped : k.key[1] # recv
        BY <1>1, <1>3, <1>5
      <3> QED BY <1>2, <1>5, <3>1 DEF Tidy
    <2>2. \A j, k \in t.skipped : j.key = k.key => j = k
      BY <1>2 DEF Tidy
    <2>3. /\ \A c \in t.cks : Len(c) <= Len(t.root) /\ Len(c) % 2 = turn
          /\ \A c \in t.ckr : Len(c) <= Len(t.root) /\ Len(c) % 2 = 1 - turn
          /\ Len(t.root) % 2 = turn
      <3>1. Len(recv) <= Len(send)
        BY <1>1, <1>3
      <3>2. Len(recv) % 2 = 1 - turn /\ Len(send) % 2 = turn
        BY <1>1, <1>4
      <3>3. Len(send) <= Len(send)
        BY <1>1, <1>3
      <3> QED BY <1>2, <3>1, <3>2, <3>3, Zenon
    <2> QED BY <2>1, <2>2, <2>3 DEF Tidy
  <1>7. ASSUME NEW key \in Key, Len(key[1]) <= Len(s.root)
        PROVE  Len(key[1]) <= Len(t.root) /\ key[1] \notin t.ckr /\ key[1] \notin t.cks
    <2>1. Len(key[1]) \in Nat
      BY DEF Key, Chain
    <2> QED BY <1>1, <1>2, <1>3, <1>7, <2>1
  <1>8. Onward(s, t)
    BY <1>2, <1>7 DEF Onward, Spent, Past
  <1> QED BY <1>6, <1>8 DEF t

LEMMA CaughtUpTidy ==
  ASSUME NEW s, Good(s), NEW turn \in {0, 1}, Tidy(s, turn), NEW m \in Message, keys \in Nat
  PROVE  LET t == CaughtUp(s, m)
         IN  Tidy(t, turn) /\ Onward(s, t)
  <1>0. m.dh \in Nat /\ m.pn \in Nat
    BY DEF Message
  <1>1. CASE m.dh \in s.dhr
    BY <1>1 DEF CaughtUp, Onward
  <1>2. CASE m.dh \notin s.dhr
    <2> DEFINE u == SkipMessageKeys(s, m.pn)
               t == DhRatchet(u, m.dh, keys)
    <2>1. CaughtUp(s, m) = t
      BY <1>2 DEF CaughtUp
    <2>2. Good(u) /\ Tidy(u, turn) /\ Onward(s, u)
      BY <1>0, SkipFits, SkipTidy
    <2> HIDE DEF u
    <2>3. Tidy(t, turn) /\ Onward(u, t)
      BY <1>0, <2>2, RatchetTidy
    <2> QED BY <2>1, <2>2, <2>3, OnwardTwice
  <1> QED BY <1>1, <1>2

(* Decryption needs a key that is not spent, and spends it.                *)
LEMMA DecryptedTidy ==
  ASSUME NEW s, Good(s), NEW turn \in {0, 1}, Tidy(s, turn),
         NEW m \in Message, m.n = m.key[2], keys \in Nat, Decrypts(s, m)
  PROVE  LET t == Decrypted(s, m)
         IN  /\ Tidy(t, turn) /\ Onward(Unexpired(s), t) /\ Onward(s, t)
             /\ ~Spent(s, m.key) /\ Spent(t, m.key)
  <1> DEFINE l == Unexpired(s)
             c == CaughtUp(l, m)
             u == SkipMessageKeys(c, m.n)
             t == Decrypted(s, m)
  <1>0. m.n \in Nat /\ m.key \in Key
    BY DEF Message
  <1>1. Good(l) /\ Tidy(l, turn) /\ Onward(s, l)
    BY UnexpiredIsLess, UnexpiredTidy
  <1>2. CASE Cached(l, m) # {}
    <2> DEFINE rest == l.skipped \ Cached(l, m)
    <2>1. t = [l EXCEPT !.skipped = rest]
      BY <1>1, <1>2 DEF Decrypted, Good, Session
    <2>2. PICK k \in l.skipped : k.dh = m.dh /\ k.n = m.n /\ k.key = m.key
      BY <1>2 DEF Decrypts, Cached
    <2> HIDE DEF l
    <2>3. Tidy(t, turn) /\ Onward(l, t)
      BY <1>1, <2>1, Fewer
    <2>4. t.skipped = rest /\ t.root = l.root /\ t.ckr = l.ckr /\ t.nr = l.nr
      BY <1>1, <2>1 DEF Good, Session
    <2>5. \A j \in t.skipped : j.key # m.key
      BY <1>1, <2>2, <2>4 DEF Tidy, Cached
    <2>6. Spent(t, m.key) /\ ~Spent(l, m.key)
      BY <1>1, <2>2, <2>4, <2>5 DEF Tidy, Spent
    <2> QED BY <1>0, <1>1, <2>3, <2>6, OnwardTwice DEF Onward, l
  <1>3. CASE Cached(l, m) = {}
    <2>1. m.key \in u.ckr \X {u.nr}
      BY <1>3 DEF Decrypts
    <2>2. t = [u EXCEPT !.nr = @ + 1]
      BY <1>3 DEF Decrypted
    <2> HIDE DEF l
    <2>3. Good(c) /\ Tidy(c, turn) /\ Onward(l, c)
      BY <1>1, CaughtUpGood, CaughtUpTidy
    <2> HIDE DEF c
    <2>4. Good(u) /\ Tidy(u, turn) /\ Onward(c, u)
      BY <1>0, <2>3, SkipFits, SkipTidy
    <2> HIDE DEF u, t
    <2>5. u.nr \in Nat /\ m.key[1] \in u.ckr /\ m.key[2] = u.nr
      BY <2>1, <2>4 DEF Good, Session
    <2>6. /\ t.skipped = u.skipped /\ t.root = u.root /\ t.ckr = u.ckr
          /\ t.cks = u.cks /\ t.nr = u.nr + 1 /\ t.ns = u.ns
      BY <2>2, <2>4 DEF Good, Session
    <2>7. ASSUME NEW k \in u.skipped, k.key[1] \in u.ckr
          PROVE  k.n < u.nr /\ k.n < u.nr + 1 /\ k.n = k.key[2]
      <3>1. k.n \in Nat
        BY <2>4, RootLength DEF Skipped
      <3>2. k.n < u.nr /\ k.n = k.key[2]
        BY <2>4, <2>7 DEF Tidy
      <3> QED BY <2>5, <3>1, <3>2
    <2>8. Tidy(t, turn)
      BY <2>4, <2>6, <2>7 DEF Tidy
    <2>9. Onward(u, t)
      <3>1. \A key \in Key : key[2] \in Nat
        BY DEF Key
      <3>2. ASSUME NEW key \in Key, Spent(u, key) PROVE Spent(t, key)
        BY <2>5, <2>6, <3>1, <3>2 DEF Spent
      <3>3. ASSUME NEW key \in Key, Past(u, key) PROVE Past(t, key)
        BY <2>6, <3>3 DEF Past
      <3> QED BY <3>2, <3>3 DEF Onward
    <2>10. Spent(t, m.key) /\ ~Spent(u, m.key)
      <3>1. \A k \in u.skipped : k.key # m.key
        BY <2>5, <2>7
      <3>2. Len(m.key[1]) <= Len(u.root)
        BY <2>4, <2>5 DEF Tidy
      <3> QED BY <2>5, <2>6, <3>1, <3>2 DEF Spent
    <2>11. Onward(l, u) /\ Onward(l, t)
      BY <2>3, <2>4, <2>9, OnwardTwice
    <2>12. ~Spent(s, m.key)
      BY <1>0, <1>1, <2>10, <2>11 DEF Onward
    <2>13. Onward(s, t)
      BY <1>1, <2>11, OnwardTwice
    <2> QED BY <2>8, <2>10, <2>11, <2>12, <2>13 DEF l, t
  <1> QED BY <1>2, <1>3

-----------------------------------------------------------------------------
(* The invariant.                                                          *)

(* What is known of a block that was sent.                                 *)
Right(m, sessions, read, old, count) ==
  /\ Len(m.key[1]) % 2 = Turn(m.from) /\ m.n = m.key[2]
  /\ m.id \in 1 .. count /\ m.id <= MaxMsg
  /\ Past(sessions[m.from], m.key)
  /\ read[m.id] > 0 \/ m.id \in old => Spent(sessions[Other(m.from)], m.key)

ForgetInv ==
  /\ TypeOK
  /\ \A p \in Party : Tidy(session[p], Turn(p))
  /\ \A m \in sent : Right(m, session, reads, expired, Cardinality(sent))
  /\ \A a, b \in sent : a.id = b.id => a = b
  /\ ReadOnce
  /\ \A i \in 1 .. MaxMsg : reads[i] > 0 => \E m \in sent : m.id = i
  /\ \A i \in expired : \E m \in sent : m.id = i

LEMMA Turns ==
  ASSUME NEW p \in Party
  PROVE  /\ Turn(p) \in {0, 1} /\ Other(p) \in Party /\ Other(p) # p
         /\ Turn(Other(p)) = 1 - Turn(p) /\ Turn(Other(p)) # Turn(p)
         /\ Other(Other(p)) = p
         /\ \A q \in Party : q # p => q = Other(p)
BY DEF Party, Turn, Other

LEMMA SentFacts ==
  ASSUME TypeOK, NEW m \in sent
  PROVE  /\ m \in Message /\ m.key \in Key /\ m.from \in Party /\ m.id \in Nat
         /\ m.n \in Nat /\ m.key[2] \in Nat /\ Len(m.key[1]) \in Nat
         /\ m.key = <<m.key[1], m.key[2]>>
BY GoodSessions DEF Message, Key, Chain

(* A key that expires is of a block from the other party, and spent.       *)
LEMMA StaleSpent ==
  ASSUME ForgetInv, NEW p \in Party, NEW x \in sent, x.id \in Stale(session[p])
  PROVE  Other(x.from) = p /\ Spent(Unexpired(session[p]), x.key)
  <1>1. PICK k \in session[p].skipped : k.old /\ k.key = x.key
    BY DEF Stale, ForgetInv
  <1>2. Good(session[p]) /\ Tidy(session[p], Turn(p)) /\ Turn(p) \in {0, 1}
    BY PartyGood, Turns DEF ForgetInv
  <1>3. Len(x.key[1]) % 2 = 1 - Turn(p) /\ Len(x.key[1]) % 2 = Turn(x.from)
    <2>1. Len(k.key[1]) % 2 = 1 - Turn(p)
      BY <1>2 DEF Tidy
    <2>2. Right(x, session, reads, expired, Cardinality(sent))
      BY DEF ForgetInv
    <2> QED BY <1>1, <2>1, <2>2 DEF Right
  <1>4. x.from # p
    <2>1. Turn(p) # 1 - Turn(p)
      BY <1>2
    <2> QED BY <1>3, <2>1
  <1>5. Other(x.from) = p
    BY <1>4, Turns, SentFacts DEF ForgetInv
  <1> QED BY <1>1, <1>2, <1>5, UnexpiredTidy

(* Sessions that only move on, without a new block.                        *)
LEMMA Moves ==
  ASSUME ForgetInv, TypeOK', sent' = sent, ReadOnce',
         \A q \in Party : Tidy(session'[q], Turn(q)) /\ Onward(session[q], session'[q]),
         \A x \in sent : reads'[x.id] > 0 \/ x.id \in expired' =>
           \/ reads[x.id] > 0 \/ x.id \in expired
           \/ Spent(session'[Other(x.from)], x.key),
         \A i \in 1 .. MaxMsg : reads'[i] > 0 => \E m \in sent : m.id = i,
         \A i \in expired' : \E m \in sent : m.id = i
  PROVE  ForgetInv'
  <1>1. ASSUME NEW x \in sent
        PROVE  Right(x, session', reads', expired', Cardinality(sent))
    <2>1. x.key \in Key /\ x.from \in Party /\ Other(x.from) \in Party
      BY SentFacts, Turns DEF ForgetInv
    <2>2. Right(x, session, reads, expired, Cardinality(sent))
      BY DEF ForgetInv
    <2>3. Past(session'[x.from], x.key)
      BY <2>1, <2>2 DEF Right, Onward
    <2>4. reads'[x.id] > 0 \/ x.id \in expired' => Spent(session'[Other(x.from)], x.key)
      BY <2>1, <2>2 DEF Right, Onward
    <2> QED BY <2>2, <2>3, <2>4 DEF Right
  <1> QED BY <1>1 DEF ForgetInv

LEMMA StartForget == Init => ForgetInv
  <1> SUFFICES ASSUME Init PROVE ForgetInv
    OBVIOUS
  <1>1. TypeOK
    BY InitType
  <1>2. Tidy(session["alice"], 1)
    <2> DEFINE c == <<{0, 1}>>
    <2>1. Len(c) <= Len(c) /\ Len(c) % 2 = 1
      <3>1. Len(c) = 1
        OBVIOUS
      <3> HIDE DEF c
      <3> QED BY <3>1
    <2>2. /\ session["alice"].root = c /\ session["alice"].cks = {c}
          /\ session["alice"].ckr = {} /\ session["alice"].skipped = {}
      BY DEF Init, Party
    <2> HIDE DEF c
    <2> QED BY <2>1, <2>2 DEF Tidy
  <1>3. Tidy(session["bob"], 0)
    <2> DEFINE c == <<>>
    <2>1. /\ session["bob"].root = c /\ session["bob"].cks = {}
          /\ session["bob"].ckr = {} /\ session["bob"].skipped = {}
      BY DEF Init, Party
    <2>2. Len(c) % 2 = 0
      <3>1. Len(c) = 0
        OBVIOUS
      <3> HIDE DEF c
      <3> QED BY <3>1
    <2> HIDE DEF c
    <2>3. Len(session["bob"].root) % 2 = 0
      BY <2>1, <2>2
    <2> QED BY <2>1, <2>3 DEF Tidy
  <1>4. \A p \in Party : Tidy(session[p], Turn(p))
    BY <1>2, <1>3 DEF Party, Turn
  <1>5. sent = {} /\ expired = {} /\ \A i \in 1 .. MaxMsg : reads[i] = 0
    BY DEF Init
  <1> QED BY <1>1, <1>4, <1>5 DEF ForgetInv, ReadOnce

LEMMA EncryptForgets ==
  ASSUME ForgetInv, NEW p \in Party, Encrypt(p)
  PROVE  ForgetInv'
  <1> DEFINE s == session[p]
             t == [s EXCEPT !.ns = @ + 1]
             count == Cardinality(sent)
  <1>1. PICK c \in s.cks :
          sent' = sent \cup {[id |-> count + 1, from |-> p,
                              opening |-> sent = {}, dh |-> s.dhs, pn |-> s.pn,
                              n |-> s.ns, key |-> <<c, s.ns>>]}
    BY DEF Encrypt
  <1> DEFINE x == [id |-> count + 1, from |-> p,
                   opening |-> sent = {}, dh |-> s.dhs, pn |-> s.pn,
                   n |-> s.ns, key |-> <<c, s.ns>>]
  <1>2. x.id = count + 1 /\ x.from = p /\ x.n = s.ns /\ x.key = <<c, s.ns>>
    OBVIOUS
  <1>3. sent' = sent \cup {x}
    BY <1>1
  <1> HIDE DEF x
  <1>4. TypeOK /\ TypeOK' /\ IsFiniteSet(sent) /\ count \in Nat
    BY EncryptGood, GoodSessions, FS_CardinalityType DEF ForgetInv
  <1>5. Good(s) /\ Tidy(s, Turn(p))
    BY <1>4, PartyGood DEF ForgetInv
  <1>6. /\ t.root = s.root /\ t.cks = s.cks /\ t.ckr = s.ckr
        /\ t.skipped = s.skipped /\ t.nr = s.nr /\ t.ns = s.ns + 1 /\ s.ns \in Nat
    BY <1>5 DEF Good, Session
  <1>7. session' = [session EXCEPT ![p] = t] /\ UNCHANGED <<keys, reads, expired, weeks>>
    BY DEF Encrypt
  <1> HIDE DEF s, t
  <1>8. \A q \in Party : session'[q] = IF q = p THEN t ELSE session[q]
    BY <1>4, <1>7, GoodSessions
  <1>9. ASSUME NEW m \in sent PROVE m.id \in Nat /\ m.id <= count
    <2>1. Right(m, session, reads, expired, count)
      BY DEF ForgetInv
    <2> QED BY <1>4, <2>1 DEF Right
  <1>10. x \notin sent
    BY <1>2, <1>4, <1>9
  <1>11. Cardinality(sent') = count + 1
    BY <1>3, <1>4, <1>10, FS_AddElement
  <1>12. \A q \in Party : Tidy(session'[q], Turn(q))
    <2>1. Tidy(t, Turn(p))
      BY <1>5, <1>6 DEF Tidy
    <2> QED BY <1>8, <2>1 DEF ForgetInv
  <1>13. ASSUME NEW m \in sent PROVE Right(m, session', reads, expired, count + 1)
    <2>1. /\ m.from \in Party /\ Other(m.from) \in Party
          /\ m.key[2] \in Nat
      BY <1>4, SentFacts, Turns
    <2>2. Right(m, session, reads, expired, count)
      BY DEF ForgetInv
    <2>3. Past(session'[m.from], m.key)
      <3>1. Past(session[m.from], m.key)
        BY <2>2 DEF Right
      <3>2. Past(s, m.key) => Past(t, m.key)
        BY <1>6, <2>1 DEF Past
      <3> QED BY <1>8, <2>1, <3>1, <3>2 DEF s
    <2>4. Spent(session[Other(m.from)], m.key) => Spent(session'[Other(m.from)], m.key)
      <3>1. Spent(s, m.key) => Spent(t, m.key)
        BY <1>6 DEF Spent
      <3> QED BY <1>8, <2>1, <3>1 DEF s
    <2>5. m.id \in 1 .. (count + 1)
      BY <1>4, <2>2 DEF Right
    <2> QED BY <2>2, <2>3, <2>4, <2>5 DEF Right
  <1>14. Right(x, session', reads, expired, count + 1)
    <2>1. count + 1 <= MaxMsg
      BY DEF Encrypt
    <2>2. c \in s.cks /\ Len(c) <= Len(s.root) /\ Len(c) % 2 = Turn(p)
      BY <1>1, <1>5 DEF Tidy, s
    <2>3. x.key[1] = c /\ x.key[2] = s.ns
      BY <1>2
    <2>4. Past(session'[x.from], x.key)
      BY <1>2, <1>6, <1>8, <2>2, <2>3 DEF Past
    <2>5. x.id \in 1 .. (count + 1) /\ x.id <= MaxMsg
      BY <1>2, <1>4, <2>1
    <2>6. \A m \in sent : m.id # count + 1
      BY <1>4, <1>9
    <2>7. count + 1 \in 1 .. MaxMsg
      BY <1>4, <2>1, BoundsAssumption
    <2>8. ~(reads[x.id] > 0) /\ x.id \notin expired
      BY <1>2, <2>6, <2>7 DEF ForgetInv
    <2> QED BY <1>2, <2>2, <2>3, <2>4, <2>5, <2>8 DEF Right
  <1>15. \A a, b \in sent' : a.id = b.id => a = b
    <2>1. \A m \in sent : m.id # x.id
      BY <1>2, <1>4, <1>9
    <2> QED BY <1>3, <2>1 DEF ForgetInv
  <1>16. \A m \in sent' : Right(m, session', reads', expired', Cardinality(sent'))
    BY <1>3, <1>7, <1>11, <1>13, <1>14
  <1>17. /\ ReadOnce' /\ \A i \in expired' : \E m \in sent' : m.id = i
         /\ \A i \in 1 .. MaxMsg : reads'[i] > 0 => \E m \in sent' : m.id = i
    BY <1>3, <1>7 DEF ForgetInv, ReadOnce
  <1> QED BY <1>4, <1>12, <1>15, <1>16, <1>17 DEF ForgetInv

LEMMA DecryptForgets ==
  ASSUME ForgetInv, NEW p \in Party, NEW m \in sent, Decrypt(p, m)
  PROVE  ForgetInv'
  <1> DEFINE s == session[p]
             t == Decrypted(s, m)
  <1>1. TypeOK /\ TypeOK' /\ keys \in Nat /\ Good(s) /\ Tidy(s, Turn(p)) /\ Turn(p) \in {0, 1}
    BY DecryptGood, PartyGood, Turns DEF ForgetInv
  <1>2. /\ m \in Message /\ m.from \in Party /\ p = Other(m.from)
        /\ Right(m, session, reads, expired, Cardinality(sent)) /\ m.n = m.key[2]
    BY <1>1, SentFacts, Turns DEF ForgetInv, Right, Decrypt
  <1>3. /\ Tidy(t, Turn(p)) /\ Onward(Unexpired(s), t) /\ Onward(s, t)
        /\ ~Spent(s, m.key) /\ Spent(t, m.key)
    BY <1>1, <1>2, DecryptedTidy DEF Decrypt
  <1>4. /\ session' = [session EXCEPT ![p] = t] /\ sent' = sent
        /\ reads' = [reads EXCEPT ![m.id] = @ + 1]
        /\ expired' = expired \cup Stale(s)
    BY DEF Decrypt
  <1>5. ~(reads[m.id] > 0)
    BY <1>2, <1>3 DEF Right, s
  <1> HIDE DEF t
  <1>6. \A q \in Party : session'[q] = IF q = p THEN t ELSE session[q]
    BY <1>1, <1>4, GoodSessions
  <1>7. \A i \in 1 .. MaxMsg :
          reads[i] \in Nat /\ reads'[i] = IF i = m.id THEN reads[i] + 1 ELSE reads[i]
    BY <1>1, <1>4, GoodSessions
  <1>8. m.id \in 1 .. MaxMsg
    BY <1>1, <1>2, SentFacts DEF Right
  <1>9. ReadOnce'
    BY <1>5, <1>7, <1>8 DEF ReadOnce, ForgetInv
  <1>10. \A q \in Party : Tidy(session'[q], Turn(q)) /\ Onward(session[q], session'[q])
    BY <1>3, <1>6 DEF ForgetInv, Onward
  <1>11. ASSUME NEW x \in sent, reads'[x.id] > 0 \/ x.id \in expired'
         PROVE  \/ reads[x.id] > 0 \/ x.id \in expired
                \/ Spent(session'[Other(x.from)], x.key)
    <2>1. x.id \in 1 .. MaxMsg /\ x.key \in Key
      <3>1. Right(x, session, reads, expired, Cardinality(sent))
        BY DEF ForgetInv
      <3>2. Cardinality(sent) \in Nat
        BY <1>1, GoodSessions, FS_CardinalityType
      <3> QED BY <1>1, <3>1, <3>2, SentFacts DEF Right
    <2>2. CASE x.id = m.id
      <3>1. x = m
        BY <2>2 DEF ForgetInv
      <3> QED BY <1>2, <1>3, <1>6, <3>1
    <2>3. CASE x.id \in Stale(s)
      <3>1. Other(x.from) = p /\ Spent(Unexpired(s), x.key)
        BY <2>3, StaleSpent
      <3>2. Spent(t, x.key)
        BY <1>3, <2>1, <3>1 DEF Onward
      <3> QED BY <1>6, <3>1, <3>2
    <2> QED BY <1>4, <1>7, <1>11, <2>1, <2>2, <2>3
  <1>12. \A i \in 1 .. MaxMsg : reads'[i] > 0 => \E y \in sent : y.id = i
    BY <1>7 DEF ForgetInv
  <1>13. \A i \in expired' : \E y \in sent : y.id = i
    BY <1>4 DEF ForgetInv, Stale
  <1> QED BY <1>1, <1>4, <1>9, <1>10, <1>11, <1>12, <1>13, Moves

LEMMA ExpireForgets ==
  ASSUME ForgetInv, NEW p \in Party, ExpireSkippedKeys(p)
  PROVE  ForgetInv'
  <1> DEFINE s == session[p]
             t == Unexpired(s)
  <1>1. TypeOK /\ TypeOK' /\ Good(s) /\ Tidy(s, Turn(p)) /\ Turn(p) \in {0, 1}
    BY ExpireGood, PartyGood, Turns DEF ForgetInv
  <1>2. Tidy(t, Turn(p)) /\ Onward(s, t)
    BY <1>1, UnexpiredTidy
  <1>3. /\ session' = [session EXCEPT ![p] = t]
        /\ sent' = sent /\ reads' = reads /\ expired' = expired \cup Stale(s)
    BY DEF ExpireSkippedKeys
  <1> HIDE DEF t
  <1>4. \A q \in Party : session'[q] = IF q = p THEN t ELSE session[q]
    BY <1>1, <1>3, GoodSessions
  <1>5. \A q \in Party : Tidy(session'[q], Turn(q)) /\ Onward(session[q], session'[q])
    BY <1>2, <1>4 DEF ForgetInv, Onward
  <1>6. ASSUME NEW x \in sent, x.id \in Stale(s)
        PROVE  Spent(session'[Other(x.from)], x.key)
    BY <1>4, <1>6, StaleSpent DEF t
  <1>7. \A i \in expired' : \E y \in sent : y.id = i
    BY <1>3 DEF ForgetInv, Stale
  <1>8. ReadOnce' /\ \A i \in 1 .. MaxMsg : reads'[i] > 0 => \E y \in sent : y.id = i
    BY <1>3 DEF ForgetInv, ReadOnce
  <1>9. \A x \in sent : reads'[x.id] > 0 \/ x.id \in expired' =>
          \/ reads[x.id] > 0 \/ x.id \in expired
          \/ Spent(session'[Other(x.from)], x.key)
    BY <1>3, <1>6
  <1> QED BY <1>1, <1>3, <1>5, <1>7, <1>8, <1>9, Moves

LEMMA WeekForgets == ASSUME ForgetInv, Week PROVE ForgetInv'
  <1>1. TypeOK /\ TypeOK'
    BY WeekGood DEF ForgetInv
  <1>2. UNCHANGED <<sent, reads, expired>>
    BY DEF Week
  <1>3. ASSUME NEW q \in Party
        PROVE  Tidy(session'[q], Turn(q)) /\ Onward(session[q], session'[q])
    <2> DEFINE s == session[q]
               aged == {[k EXCEPT !.old = TRUE] : k \in s.skipped}
               t == [s EXCEPT !.skipped = aged]
    <2>1. session'[q] = t
      BY DEF Week
    <2>2. Good(s) /\ Tidy(s, Turn(q))
      BY <1>1, PartyGood DEF ForgetInv
    <2>3. /\ t.root = s.root /\ t.cks = s.cks /\ t.ckr = s.ckr
          /\ t.nr = s.nr /\ t.ns = s.ns /\ t.skipped = aged
      BY <2>2 DEF Good, Session
    <2>4. ASSUME NEW k \in s.skipped
          PROVE  LET o == [k EXCEPT !.old = TRUE] IN o.key = k.key /\ o.n = k.n
      BY <2>2, RootLength DEF Skipped
    <2> HIDE DEF s, t
    <2>5. \A j \in aged : \E k \in s.skipped :
            j = [k EXCEPT !.old = TRUE] /\ j.key = k.key /\ j.n = k.n
      BY <2>4
    <2> HIDE DEF aged
    <2>6. ASSUME NEW i \in aged, NEW j \in aged, i.key = j.key PROVE i = j
      <3>1. PICK k \in s.skipped : i = [k EXCEPT !.old = TRUE] /\ i.key = k.key
        BY <2>5
      <3>2. PICK l \in s.skipped : j = [l EXCEPT !.old = TRUE] /\ j.key = l.key
        BY <2>5
      <3>3. k = l
        BY <2>2, <2>6, <3>1, <3>2 DEF Tidy
      <3> QED BY <3>1, <3>2, <3>3
    <2>7. ASSUME NEW j \in aged
          PROVE  /\ Len(j.key[1]) <= Len(s.root) /\ Len(j.key[1]) % 2 = 1 - Turn(q)
                 /\ j.n = j.key[2] /\ (j.key[1] \in s.ckr => j.n < s.nr)
      <3>1. PICK k \in s.skipped : j.key = k.key /\ j.n = k.n
        BY <2>5
      <3>2. /\ Len(k.key[1]) <= Len(s.root) /\ Len(k.key[1]) % 2 = 1 - Turn(q)
            /\ k.n = k.key[2] /\ (k.key[1] \in s.ckr => k.n < s.nr)
        BY <2>2 DEF Tidy
      <3> QED BY <3>1, <3>2
    <2>8. Tidy(t, Turn(q))
      BY <2>2, <2>3, <2>6, <2>7 DEF Tidy
    <2>9. Onward(s, t)
      BY <2>3, <2>5 DEF Onward, Spent, Past
    <2> QED BY <2>1, <2>8, <2>9 DEF s
  <1>4. /\ ReadOnce' /\ \A i \in expired' : \E y \in sent : y.id = i
        /\ \A i \in 1 .. MaxMsg : reads'[i] > 0 => \E y \in sent : y.id = i
    BY <1>2 DEF ForgetInv, ReadOnce
  <1>5. \A x \in sent : reads'[x.id] > 0 \/ x.id \in expired' =>
          reads[x.id] > 0 \/ x.id \in expired
    BY <1>2
  <1> QED BY <1>1, <1>2, <1>3, <1>4, <1>5, Moves

LEMMA Forgetting == Spec => []ForgetInv
  <1>1. ForgetInv /\ [Next]_vars => ForgetInv'
    <2> SUFFICES ASSUME ForgetInv, [Next]_vars PROVE ForgetInv'
      OBVIOUS
    <2>1. CASE UNCHANGED vars
      BY <2>1 DEF ForgetInv, TypeOK, ReadOnce, vars
    <2> QED BY <2>1, EncryptForgets, DecryptForgets, ExpireForgets, WeekForgets DEF Next
  <1> QED BY <1>1, StartForget, PTL DEF Spec

(* However often and in whatever order a block is pasted, it decrypts once *)
(* (ratchet.cpp, decrypt: the key is erased with the session it adopts).   *)
THEOREM BlocksReadOnce == Spec => []ReadOnce
  <1>1. ForgetInv => ReadOnce
    BY DEF ForgetInv
  <1> QED BY <1>1, Forgetting, PTL

(* Neither end can compute again the key of a block it has sent or read,   *)
(* or of one whose cached key expired, from what it stores (ratchet.cpp,   *)
(* encrypt, decrypt and expire_skipped_keys).                              *)
THEOREM UsedKeysForgotten == Spec => []ForgetsUsedKeys
  <1>1. ForgetInv => ForgetsUsedKeys
    <2> SUFFICES ASSUME ForgetInv, NEW p \in Party, NEW m \in sent,
                        m.from = p \/ reads[m.id] > 0 \/ m.id \in expired
                 PROVE  m.key \notin Derivable(session[p])
      BY DEF ForgetsUsedKeys
    <2> DEFINE s == session[p]
    <2>1. /\ Good(s) /\ Tidy(s, Turn(p)) /\ Turn(p) \in {0, 1} /\ Turn(p) # 1 - Turn(p)
          /\ m.key[2] \in Nat /\ m.from \in Party
          /\ Right(m, session, reads, expired, Cardinality(sent))
      BY PartyGood, Turns, SentFacts DEF ForgetInv
    <2>2. s.nr \in Nat /\ s.ns \in Nat
      BY <2>1, RootLength
    <2> HIDE DEF s
    <2>3. SUFFICES /\ \A k \in s.skipped : k.key # m.key
                   /\ m.key[1] \in s.cks => m.key[2] < s.ns
                   /\ m.key[1] \in s.ckr => m.key[2] < s.nr
      <3>1. \A c \in s.cks, i \in s.ns .. MaxMsg :
              <<c, i>> = m.key => m.key[1] \in s.cks /\ ~(m.key[2] < s.ns)
        BY <2>2, BoundsAssumption
      <3>2. \A c \in s.ckr, i \in s.nr .. MaxMsg :
              <<c, i>> = m.key => m.key[1] \in s.ckr /\ ~(m.key[2] < s.nr)
        BY <2>2, BoundsAssumption
      <3> QED BY <2>3, <3>1, <3>2 DEF Derivable, s
    <2>4. CASE m.from = p
      <3>1. Len(m.key[1]) % 2 = Turn(p) /\ Past(s, m.key)
        BY <2>1, <2>4 DEF Right, s
      <3>2. (\A k \in s.skipped : k.key # m.key) /\ m.key[1] \notin s.ckr
        BY <2>1, <3>1 DEF Tidy
      <3> QED BY <3>1, <3>2 DEF Past
    <2>5. CASE m.from # p
      <3>1. p = Other(m.from) /\ Turn(m.from) = 1 - Turn(p)
        BY <2>1, <2>5, Turns
      <3>2. Spent(s, m.key) /\ Len(m.key[1]) % 2 = 1 - Turn(p)
        BY <2>1, <2>5, <3>1 DEF Right, s
      <3>3. m.key[1] \notin s.cks
        BY <2>1, <3>2 DEF Tidy
      <3> QED BY <3>2, <3>3 DEF Spent
    <2> QED BY <2>4, <2>5
  <1> QED BY <1>1, Forgetting, PTL

-----------------------------------------------------------------------------
(* Blocks that can still be read.                                          *)

(* What is known of the blocks of one party.                               *)
Sealed(B) ==
  /\ B \subseteq Message
  /\ \A m \in B : m.key = <<m.key[1], m.n>>
  /\ \A a, b \in B : a.dh = b.dh /\ a.n = b.n => a = b
  /\ \A a, b \in B : a.key = b.key => a = b

(* Under its current key pair a party sends on the chain its root names,   *)
(* with one `pn`; what it sent before (B) was on shorter chains.           *)
Current(s, B) ==
  \A m \in B :
    IF m.dh = s.dhs THEN m.key[1] = s.root /\ m.pn = s.pn
    ELSE Len(m.key[1]) < Len(s.root)

(* Of two ends, s has made the last ratchet step: r does not know its key  *)
(* pair yet, and will derive its chain from it.  B: the blocks s sent.     *)
Leading(s, r, B) ==
  /\ s.root = Append(r.root, {r.dhs, s.dhs})
  /\ s.dhr = {r.dhs} /\ s.dhs \notin r.dhr
  /\ s.cks = {s.root} /\ r.cks \subseteq {r.root} /\ s.ckr = r.cks
  /\ s.nr <= r.ns
  /\ \A m \in B : m.dh \in r.dhr => m.n < s.pn

(* What s receives with are the chains r sends on.  B: the blocks of r.    *)
Hears(s, r, B, fresh) ==
  /\ \A d \in s.dhr : d < fresh
  /\ \A m \in B : m.dh \in s.dhr => m.key[1] \in s.ckr
  /\ \A k \in s.skipped :
       /\ k.dh < fresh
       /\ k.dh = r.dhs => k.key[1] = r.root
       /\ \A m \in B : m.dh = k.dh => m.key[1] = k.key[1]

(* A block s can still come to: on its receiving chain, or on the next.    *)
Ahead(s, r, m) ==
  \/ m.dh \in s.dhr /\ s.nr <= m.n
  \/ m.dh = r.dhs /\ r.dhs \notin s.dhr

HasKey(s, m) == \E k \in s.skipped : k.dh = m.dh /\ k.n = m.n /\ k.key = m.key

(* Every block of r is ahead of s, done with, or its key is cached.        *)
Reaches(s, r, B, gone) ==
  \A m \in B : m.id \in gone \/ Ahead(s, r, m) \/ HasKey(s, m)

(* t differs from s in its cache and its receiving counter only.           *)
SameEnd(t, s) ==
  /\ t.root = s.root /\ t.dhs = s.dhs /\ t.dhr = s.dhr
  /\ t.cks = s.cks /\ t.ckr = s.ckr /\ t.ns = s.ns /\ t.pn = s.pn

(* t is s after the ratchet step to r's key pair, with a fresh one.        *)
Stepped(t, s, r, fresh) ==
  /\ t.root = Append(r.root, {fresh, r.dhs}) /\ t.dhs = fresh
  /\ t.dhr = {r.dhs} /\ t.cks = {t.root} /\ t.ckr = {r.root}
  /\ t.ns = 0 /\ t.pn = s.ns

LEMMA SkipIs ==
  ASSUME NEW s, Good(s), NEW until \in Nat
  PROVE  LET t == SkipMessageKeys(s, until)
         IN  /\ SameEnd(t, s)
             /\ IF s.ckr = {} \/ until < s.nr
                THEN t.skipped = s.skipped /\ t.nr = s.nr
                ELSE t.skipped = s.skipped \cup NewKeys(s, until) /\ t.nr = until
  <1>1. CASE s.ckr = {} \/ until < s.nr
    BY <1>1 DEF SkipMessageKeys, SameEnd
  <1>2. CASE ~(s.ckr = {} \/ until < s.nr)
    <2> DEFINE all == s.skipped \cup NewKeys(s, until)
    <2>1. SkipMessageKeys(s, until) = [s EXCEPT !.skipped = all, !.nr = until]
      BY <1>2 DEF SkipMessageKeys, NewKeys, Good, Session
    <2> HIDE DEF all
    <2>2. LET t == [s EXCEPT !.skipped = all, !.nr = until]
          IN  SameEnd(t, s) /\ t.skipped = all /\ t.nr = until
      BY DEF Good, Session, SameEnd
    <2> QED BY <1>2, <2>1, <2>2 DEF all
  <1> QED BY <1>1, <1>2

(* Keys leave the cache of blocks that are done with.                      *)
LEMMA ForgetReaches ==
  ASSUME NEW s, NEW t, NEW r, NEW B, NEW fresh, NEW gone, NEW all,
         Hears(s, r, B, fresh), Reaches(s, r, B, gone), gone \subseteq all,
         t.dhr = s.dhr, t.ckr = s.ckr, t.nr = s.nr, t.skipped \subseteq s.skipped,
         \A k \in s.skipped, m \in B : k.key = m.key => k \in t.skipped \/ m.id \in all
  PROVE  Hears(t, r, B, fresh) /\ Reaches(t, r, B, all)
  <1>1. Hears(t, r, B, fresh)
    BY DEF Hears
  <1>2. Reaches(t, r, B, all)
    BY DEF Reaches, Ahead, HasKey
  <1> QED BY <1>1, <1>2

LEMMA UnexpiredReaches ==
  ASSUME NEW s, Good(s), NEW r, NEW B \in SUBSET sent, NEW fresh, NEW gone,
         Hears(s, r, B, fresh), Reaches(s, r, B, gone)
  PROVE  LET l == Unexpired(s)
         IN  /\ SameEnd(l, s) /\ l.nr = s.nr
             /\ l.skipped = {k \in s.skipped : ~k.old}
             /\ Hears(l, r, B, fresh) /\ Reaches(l, r, B, gone \cup Stale(s))
  <1> DEFINE rest == {k \in s.skipped : ~k.old}
             l == Unexpired(s)
  <1>1. l = [s EXCEPT !.skipped = rest]
    BY DEF Unexpired, Good, Session
  <1> HIDE DEF rest, l
  <1>2. SameEnd(l, s) /\ l.nr = s.nr /\ l.skipped = rest
    BY <1>1 DEF SameEnd, Good, Session
  <1>3. \A k \in s.skipped, m \in B :
          k.key = m.key => k \in l.skipped \/ m.id \in gone \cup Stale(s)
    BY <1>2 DEF rest, Stale
  <1>4. l.skipped \subseteq s.skipped
    BY <1>2 DEF rest
  <1>5. Hears(l, r, B, fresh) /\ Reaches(l, r, B, gone \cup Stale(s))
    BY <1>2, <1>3, <1>4, ForgetReaches DEF SameEnd
  <1> QED BY <1>2, <1>5 DEF rest, l

(* A skipped number is one of a block that is cached instead.              *)
LEMMA SkipReaches ==
  ASSUME NEW s, Good(s), NEW r, NEW B, Sealed(B), NEW fresh, NEW gone, NEW until \in Nat,
         Hears(s, r, B, fresh), Reaches(s, r, B, gone),
         r.dhs \in s.dhr => s.ckr \subseteq {r.root}
  PROVE  LET t == SkipMessageKeys(s, until)
         IN  Hears(t, r, B, fresh) /\ Reaches(t, r, B, gone)
  <1> DEFINE t == SkipMessageKeys(s, until)
  <1>1. /\ SameEnd(t, s)
        /\ IF s.ckr = {} \/ until < s.nr
           THEN t.skipped = s.skipped /\ t.nr = s.nr
           ELSE t.skipped = s.skipped \cup NewKeys(s, until) /\ t.nr = until
    BY SkipIs
  <1> HIDE DEF t
  <1>2. CASE s.ckr = {} \/ until < s.nr
    BY <1>1, <1>2 DEF t, SameEnd, Hears, Reaches, Ahead, HasKey
  <1>3. CASE ~(s.ckr = {} \/ until < s.nr)
    <2>1. /\ t.skipped = s.skipped \cup NewKeys(s, until) /\ t.nr = until
          /\ t.dhr = s.dhr /\ t.ckr = s.ckr /\ s.nr \in Nat
          /\ \A x, y \in s.ckr : x = y
      BY <1>1, <1>3 DEF SameEnd, Good, Session
    <2>2. ASSUME NEW k \in NewKeys(s, until)
          PROVE  k.dh \in s.dhr /\ k.key[1] \in s.ckr
      <3>1. PICK d \in s.dhr, c \in s.ckr, i \in s.nr .. (until - 1) :
              k = [dh |-> d, n |-> i, key |-> <<c, i>>, old |-> FALSE]
        BY NewKeysAre
      <3> QED BY <3>1
    <2>3. Hears(t, r, B, fresh)
      <3>1. ASSUME NEW k \in NewKeys(s, until)
            PROVE  /\ k.dh < fresh
                   /\ k.dh = r.dhs => k.key[1] = r.root
                   /\ \A m \in B : m.dh = k.dh => m.key[1] = k.key[1]
        BY <2>1, <2>2 DEF Hears
      <3> QED BY <2>1, <3>1 DEF Hears
    <2>4. ASSUME NEW m \in B, m.dh \in s.dhr, s.nr <= m.n, m.n < until
          PROVE  HasKey(t, m)
      <3> DEFINE k == [dh |-> m.dh, n |-> m.n, key |-> <<m.key[1], m.n>>, old |-> FALSE]
      <3>1. m.n \in s.nr .. (until - 1)
        BY <2>1, <2>4 DEF Sealed, Message
      <3>2. m.key[1] \in s.ckr
        BY <2>4 DEF Hears
      <3>3. k \in NewKeys(s, until)
        BY <2>4, <3>1, <3>2, NewKeysAre
      <3>4. k.dh = m.dh /\ k.n = m.n /\ k.key = m.key
        BY DEF Sealed
      <3> HIDE DEF k
      <3> QED BY <2>1, <3>3, <3>4 DEF HasKey
    <2>5. \A m \in B : m.n \in Nat
      BY DEF Sealed, Message
    <2>6. Reaches(t, r, B, gone)
      <3> SUFFICES ASSUME NEW m \in B, m.id \notin gone
                   PROVE  Ahead(t, r, m) \/ HasKey(t, m)
        BY DEF Reaches
      <3>1. CASE HasKey(s, m)
        BY <2>1, <3>1 DEF HasKey
      <3>2. CASE Ahead(s, r, m)
        BY <2>1, <2>4, <2>5, <3>2 DEF Ahead
      <3> QED BY <3>1, <3>2 DEF Reaches
    <2> QED BY <2>3, <2>6 DEF t
  <1> QED BY <1>2, <1>3

(* The ratchet step to r's key pair, with all of its last chain skipped.   *)
LEMMA RatchetReaches ==
  ASSUME NEW s, Good(s), NEW r, Good(r), NEW B, Sealed(B), NEW fresh \in Nat, NEW gone,
         Hears(s, r, B, fresh), Reaches(s, r, B, gone), Current(r, B),
         r.root = Append(s.root, {s.dhs, r.dhs}), r.dhs \notin s.dhr, r.dhs < fresh,
         \A m \in B : m.dh \in s.dhr => m.n < s.nr,
         NEW t, t = DhRatchet(s, r.dhs, fresh)
  PROVE  /\ Hears(t, r, B, fresh + 1) /\ Reaches(t, r, B, gone)
         /\ Stepped(t, s, r, fresh) /\ t.nr = 0
  <1>1. /\ t.root = Append(r.root, {fresh, r.dhs}) /\ t.dhs = fresh
        /\ t.dhr = {r.dhs} /\ t.cks = {t.root} /\ t.ckr = {r.root}
        /\ t.ns = 0 /\ t.nr = 0 /\ t.pn = s.ns /\ t.skipped = s.skipped
    BY DEF DhRatchet, Good, Session
  <1>2. /\ r.dhs \in Nat /\ s.nr \in Nat /\ \A m \in B : m.n \in Nat
        /\ \A k \in s.skipped : k.dh \in Nat
    BY DEF Good, Session, Sealed, Message, Skipped
  <1>3. Hears(t, r, B, fresh + 1)
    <2>1. \A m \in B : m.dh \in t.dhr => m.key[1] \in t.ckr
      BY <1>1 DEF Current
    <2>2. \A d \in t.dhr : d < fresh + 1
      BY <1>1, <1>2
    <2>3. \A k \in s.skipped : k.dh < fresh => k.dh < fresh + 1
      BY <1>2
    <2> QED BY <1>1, <2>1, <2>2, <2>3 DEF Hears
  <1>4. Reaches(t, r, B, gone)
    <2> SUFFICES ASSUME NEW m \in B, m.id \notin gone
                 PROVE  Ahead(t, r, m) \/ HasKey(t, m)
      BY DEF Reaches
    <2>1. CASE HasKey(s, m)
      BY <1>1, <2>1 DEF HasKey
    <2>2. CASE Ahead(s, r, m)
      <3>1. m.dh = r.dhs
        BY <1>2, <2>2 DEF Ahead
      <3> QED BY <1>1, <1>2, <3>1 DEF Ahead
    <2> QED BY <2>1, <2>2 DEF Reaches
  <1> QED BY <1>1, <1>3, <1>4 DEF Stepped

(* The block whose number has come is read.                                *)
LEMMA AdvanceReaches ==
  ASSUME NEW u, Good(u), NEW r, NEW B, Sealed(B), NEW fresh, NEW gone,
         Hears(u, r, B, fresh), Reaches(u, r, B, gone),
         NEW m \in B, m.dh \in u.dhr, m.n = u.nr
  PROVE  LET t == [u EXCEPT !.nr = @ + 1]
         IN  /\ SameEnd(t, u) /\ t.nr = m.n + 1
             /\ Hears(t, r, B, fresh) /\ Reaches(t, r, B, gone \cup {m.id})
  <1> DEFINE t == [u EXCEPT !.nr = @ + 1]
  <1>1. SameEnd(t, u) /\ t.nr = m.n + 1 /\ t.skipped = u.skipped
    BY DEF SameEnd, Good, Session
  <1> HIDE DEF t
  <1>2. u.nr \in Nat /\ \A x \in B : x.n \in Nat
    BY DEF Good, Session, Sealed, Message
  <1>3. Hears(t, r, B, fresh)
    BY <1>1 DEF SameEnd, Hears
  <1>4. Reaches(t, r, B, gone \cup {m.id})
    <2> SUFFICES ASSUME NEW x \in B, x.id \notin gone, x # m
                 PROVE  Ahead(t, r, x) \/ HasKey(t, x)
      BY DEF Reaches
    <2>1. CASE HasKey(u, x)
      BY <1>1, <2>1 DEF HasKey
    <2>2. CASE x.dh \in u.dhr /\ u.nr <= x.n
      <3>1. m.dh = x.dh
        BY <2>2 DEF Good
      <3>2. x.n # m.n
        BY <3>1 DEF Sealed
      <3>3. m.n + 1 <= x.n
        BY <1>2, <2>2, <3>2
      <3> QED BY <1>1, <2>2, <3>3 DEF SameEnd, Ahead
    <2>3. CASE x.dh = r.dhs /\ r.dhs \notin u.dhr
      BY <1>1, <2>3 DEF SameEnd, Ahead
    <2> QED BY <2>1, <2>2, <2>3 DEF Reaches, Ahead
  <1> QED BY <1>1, <1>3, <1>4 DEF t

LEMMA OneLonger ==
  ASSUME NEW c \in Chain, NEW d \in Nat, NEW e \in Nat
  PROVE  Len(c) \in Nat /\ Len(Append(c, {d, e})) = Len(c) + 1
  <1>1. {d, e} \in SUBSET Nat
    OBVIOUS
  <1> QED BY <1>1 DEF Chain

(* Only a block of the next chain makes a ratchet step that decrypts.      *)
LEMMA OnlyNextSteps ==
  ASSUME NEW s, Good(s), NEW r, Good(r), NEW A, NEW B, Sealed(B), Current(r, B),
         Leading(s, r, A) \/ Leading(r, s, B),
         NEW m \in B, m.key[1] = Append(s.root, {s.dhs, m.dh})
  PROVE  Leading(r, s, B) /\ m.dh = r.dhs
  <1>1. /\ s.root \in Chain /\ r.root \in Chain /\ s.dhs \in Nat /\ r.dhs \in Nat
        /\ m.dh \in Nat /\ m.key[1] \in Chain
    BY DEF Good, Session, Sealed, Message, Key
  <1>2. Len(m.key[1]) = Len(s.root) + 1 /\ Len(s.root) \in Nat /\ Len(r.root) \in Nat
    BY <1>1, OneLonger
  <1>3. Len(m.key[1]) <= Len(r.root) /\ (m.dh # r.dhs => Len(m.key[1]) < Len(r.root))
    BY <1>2 DEF Current
  <1>4. CASE Leading(s, r, A)
    <2>1. Len(s.root) = Len(r.root) + 1
      BY <1>1, <1>4, OneLonger DEF Leading
    <2> QED BY <1>2, <1>3, <2>1
  <1>5. CASE Leading(r, s, B)
    <2>1. Len(r.root) = Len(s.root) + 1
      BY <1>1, <1>5, OneLonger DEF Leading
    <2> QED BY <1>2, <1>3, <1>5, <2>1
  <1> QED BY <1>4, <1>5

(* What decryption leaves within reach: everything but the block it reads  *)
(* and those whose keys have expired.                                      *)
LEMMA DecryptedReaches ==
  ASSUME NEW s, Good(s), NEW r, Good(r), NEW A, NEW B \in SUBSET sent, Sealed(B),
         keys \in Nat, r.dhs < keys, NEW gone,
         Hears(s, r, B, keys), Reaches(s, r, B, gone), Current(r, B),
         Leading(s, r, A) \/ Leading(r, s, B),
         NEW m \in B, Decrypts(s, m)
  PROVE  LET t == Decrypted(s, m)
         IN  /\ Reaches(t, r, B, gone \cup Stale(s) \cup {m.id})
             /\ \/ /\ SameEnd(t, s) /\ Hears(t, r, B, keys)
                   /\ t.nr = s.nr \/ (m.dh \in s.dhr /\ t.nr = m.n + 1)
                \/ /\ Leading(r, s, B) /\ m.dh = r.dhs /\ Hears(t, r, B, keys + 1)
                   /\ Stepped(t, s, r, keys) /\ t.nr = m.n + 1
  <1> DEFINE l == Unexpired(s)
             c == CaughtUp(l, m)
             u == SkipMessageKeys(c, m.n)
             t == Decrypted(s, m)
             old == gone \cup Stale(s)
  <1>1. /\ SameEnd(l, s) /\ l.nr = s.nr /\ Good(l)
        /\ Hears(l, r, B, keys) /\ Reaches(l, r, B, old)
    BY UnexpiredReaches, UnexpiredIsLess
  <1>2. m \in Message /\ m.n \in Nat /\ m.pn \in Nat /\ m.dh \in Nat
    BY DEF Sealed, Message
  <1> HIDE DEF old
  <1>3. r.dhs \in l.dhr => l.ckr \subseteq {r.root}
    BY <1>1 DEF Leading, SameEnd
  <1>4. ASSUME Cached(l, m) # {}
        PROVE  /\ Reaches(t, r, B, old \cup {m.id})
               /\ SameEnd(t, s) /\ Hears(t, r, B, keys) /\ t.nr = s.nr
    <2> DEFINE rest == l.skipped \ Cached(l, m)
    <2>1. t = [l EXCEPT !.skipped = rest]
      BY <1>1, <1>4 DEF Decrypted, Good, Session
    <2>2. \A k \in Cached(l, m) : k.key = m.key
      BY <1>4 DEF Decrypts
    <2> HIDE DEF l, t
    <2>3. SameEnd(t, l) /\ t.nr = l.nr /\ t.skipped = rest
      BY <1>1, <2>1 DEF SameEnd, Good, Session
    <2>4. \A k \in l.skipped, x \in B :
            k.key = x.key => k \in t.skipped \/ x.id \in old \cup {m.id}
      BY <2>2, <2>3 DEF Sealed
    <2>5. Hears(t, r, B, keys) /\ Reaches(t, r, B, old \cup {m.id})
      BY <1>1, <2>3, <2>4, ForgetReaches DEF SameEnd
    <2> QED BY <1>1, <2>3, <2>5 DEF SameEnd
  <1>5. CASE Cached(l, m) = {}
    <2>1. t = [u EXCEPT !.nr = @ + 1] /\ m.key \in u.ckr \X {u.nr}
      BY <1>5 DEF Decrypts, Decrypted
    <2> HIDE DEF l
    <2>2. Good(c)
      BY <1>1, <1>2, CaughtUpGood
    <2> HIDE DEF c
    <2>3. Good(u) /\ SameEnd(u, c)
      BY <1>2, <2>2, SkipFits, SkipIs
    <2> HIDE DEF u
    <2>4. m.n = u.nr /\ m.key[1] \in u.ckr
      BY <2>1 DEF Sealed
    <2>5. ASSUME m.dh \in l.dhr
          PROVE  /\ Reaches(t, r, B, old \cup {m.id})
                 /\ SameEnd(t, s) /\ Hears(t, r, B, keys)
                 /\ m.dh \in s.dhr /\ t.nr = m.n + 1
      <3>1. c = l
        BY <2>5 DEF CaughtUp, c
      <3>2. Hears(u, r, B, keys) /\ Reaches(u, r, B, old) /\ m.dh \in u.dhr
        BY <1>1, <1>2, <1>3, <2>3, <2>5, <3>1, SkipReaches DEF u, SameEnd
      <3>3. /\ SameEnd(t, u) /\ t.nr = m.n + 1
            /\ Hears(t, r, B, keys) /\ Reaches(t, r, B, old \cup {m.id})
        BY <2>1, <2>3, <2>4, <3>2, AdvanceReaches
      <3> QED BY <1>1, <2>3, <2>5, <3>1, <3>3 DEF SameEnd
    <2>6. ASSUME m.dh \notin l.dhr
          PROVE  /\ Reaches(t, r, B, old \cup {m.id})
                 /\ Leading(r, s, B) /\ m.dh = r.dhs /\ Hears(t, r, B, keys + 1)
                 /\ Stepped(t, s, r, keys) /\ t.nr = m.n + 1
      <3> DEFINE v == SkipMessageKeys(l, m.pn)
      <3>1. c = DhRatchet(v, m.dh, keys)
        BY <2>6 DEF CaughtUp, c
      <3>2. /\ Good(v) /\ SameEnd(v, l)
            /\ Hears(v, r, B, keys) /\ Reaches(v, r, B, old)
            /\ IF l.ckr = {} \/ m.pn < l.nr THEN v.nr = l.nr ELSE v.nr = m.pn
        BY <1>1, <1>2, <1>3, SkipFits, SkipIs, SkipReaches
      <3> HIDE DEF v
      <3>3. c.ckr = {Append(v.root, {v.dhs, m.dh})}
        BY <3>1, <3>2 DEF DhRatchet, Good, Session
      <3>4. m.key[1] = Append(s.root, {s.dhs, m.dh})
        BY <1>1, <2>3, <2>4, <3>2, <3>3 DEF SameEnd
      <3>5. Leading(r, s, B) /\ m.dh = r.dhs
        BY <3>4, OnlyNextSteps
      <3>6. m.pn = r.pn
        BY <3>5 DEF Current
      <3>7. ASSUME NEW x \in B, x.dh \in v.dhr PROVE x.n < v.nr
        <4>1. x.n < m.pn /\ l.ckr # {}
          BY <1>1, <3>2, <3>5, <3>6, <3>7 DEF SameEnd, Leading, Hears
        <4>2. x.n \in Nat /\ l.nr \in Nat
          BY <1>1 DEF Sealed, Message, Good, Session
        <4> QED BY <1>2, <3>2, <4>1, <4>2
      <3>8. /\ Hears(c, r, B, keys + 1) /\ Reaches(c, r, B, old)
            /\ Stepped(c, v, r, keys) /\ c.nr = 0
        <4>1. r.root = Append(v.root, {v.dhs, r.dhs}) /\ r.dhs \notin v.dhr
          BY <1>1, <3>2, <3>5 DEF SameEnd, Leading
        <4>2. c = DhRatchet(v, r.dhs, keys)
          BY <3>1, <3>5
        <4>3. Good(v) /\ Hears(v, r, B, keys) /\ Reaches(v, r, B, old)
          BY <3>2
        <4>4. \A x \in B : x.dh \in v.dhr => x.n < v.nr
          BY <3>7
        <4> QED BY <4>1, <4>2, <4>3, <4>4, RatchetReaches
      <3>9. Stepped(c, s, r, keys)
        BY <1>1, <3>2, <3>8 DEF SameEnd, Stepped
      <3>10. Hears(u, r, B, keys + 1) /\ Reaches(u, r, B, old)
        BY <1>2, <2>2, <3>8, SkipReaches DEF u, Stepped
      <3>11. m.dh \in u.dhr
        BY <2>3, <3>5, <3>8 DEF SameEnd, Stepped
      <3>12. /\ SameEnd(t, u) /\ t.nr = m.n + 1
             /\ Hears(t, r, B, keys + 1) /\ Reaches(t, r, B, old \cup {m.id})
        BY <2>1, <2>3, <2>4, <3>10, <3>11, AdvanceReaches
      <3>13. Stepped(t, s, r, keys)
        BY <2>3, <3>9, <3>12 DEF SameEnd, Stepped
      <3> QED BY <3>5, <3>12, <3>13
    <2> QED BY <2>5, <2>6 DEF old
  <1> QED BY <1>4, <1>5 DEF old

(* The other end's view of an end that keeps its keys and chains.          *)
LEMMA SameEndKeeps ==
  ASSUME NEW s, NEW t, SameEnd(t, s), NEW r, NEW A, NEW B, NEW fresh, NEW gone
  PROVE  /\ Leading(s, r, A) /\ t.nr <= r.ns => Leading(t, r, A)
         /\ Leading(r, s, B) => Leading(r, t, B)
         /\ Current(s, A) => Current(t, A)
         /\ Hears(r, s, A, fresh) => Hears(r, t, A, fresh)
         /\ Reaches(r, s, A, gone) => Reaches(r, t, A, gone)
  <1> USE DEF SameEnd
  <1>1. Leading(s, r, A) /\ t.nr <= r.ns => Leading(t, r, A)
    BY DEF Leading
  <1>2. Leading(r, s, B) => Leading(r, t, B)
    BY DEF Leading
  <1>3. Current(s, A) => Current(t, A)
    BY DEF Current
  <1>4. Hears(r, s, A, fresh) => Hears(r, t, A, fresh)
    BY DEF Hears
  <1>5. Reaches(r, s, A, gone) => Reaches(r, t, A, gone)
    BY DEF Reaches, Ahead
  <1> QED BY <1>1, <1>2, <1>3, <1>4, <1>5

(* A ratchet step makes its end the leading one.                           *)
LEMMA SteppedKeeps ==
  ASSUME NEW s, Good(s), NEW r, Good(r), NEW t, Good(t), NEW A, Sealed(A), NEW B,
         NEW fresh \in Nat, NEW gone, s.dhs < fresh, t.nr <= r.ns,
         Leading(r, s, B), Stepped(t, s, r, fresh),
         \A x \in A : x.dh < fresh /\ (x.dh = s.dhs => x.n < s.ns),
         Current(s, A), Hears(r, s, A, fresh), Reaches(r, s, A, gone)
  PROVE  /\ Leading(t, r, A) /\ Current(t, A)
         /\ Hears(r, t, A, fresh + 1) /\ Reaches(r, t, A, gone)
  <1>1. /\ s.root \in Chain /\ r.root \in Chain /\ s.dhs \in Nat /\ r.dhs \in Nat
        /\ \A x \in A : x.dh \in Nat /\ Len(x.key[1]) \in Nat
        /\ \A k \in r.skipped : k.dh \in Nat
    <2>1. s.root \in Chain /\ r.root \in Chain /\ s.dhs \in Nat /\ r.dhs \in Nat
      BY DEF Good, Session
    <2>2. \A x \in A : x.dh \in Nat /\ x.key[1] \in Chain
      BY DEF Sealed, Message, Key
    <2>3. \A x \in A : Len(x.key[1]) \in Nat
      BY <2>2 DEF Chain
    <2>4. \A k \in r.skipped : k.dh \in Nat
      BY RootLength DEF Skipped
    <2> QED BY <2>1, <2>2, <2>3, <2>4
  <1>2. /\ Len(s.root) \in Nat /\ Len(r.root) = Len(s.root) + 1
        /\ Len(t.root) = Len(r.root) + 1
    BY <1>1, OneLonger DEF Leading, Stepped
  <1>3. Leading(t, r, A)
    <2>1. t.root = Append(r.root, {r.dhs, t.dhs})
      <3>1. {fresh, r.dhs} = {r.dhs, fresh}
        OBVIOUS
      <3> QED BY <3>1 DEF Stepped
    <2>2. t.dhr = {r.dhs} /\ r.dhr = {s.dhs} /\ t.dhs \notin r.dhr
      BY <1>1 DEF Stepped, Leading
    <2>3. /\ t.cks = {t.root} /\ t.ckr = r.cks /\ r.cks \subseteq {r.root}
          /\ t.pn = s.ns
      BY DEF Stepped, Leading
    <2>4. \A x \in A : x.dh \in r.dhr => x.n < t.pn
      BY <2>2, <2>3
    <2> QED BY <2>1, <2>2, <2>3, <2>4 DEF Leading
  <1>4. Current(t, A)
    <2> SUFFICES ASSUME NEW x \in A PROVE x.dh # t.dhs /\ Len(x.key[1]) < Len(t.root)
      BY DEF Current
    <2>1. x.dh # t.dhs
      BY <1>1 DEF Stepped
    <2>2. Len(x.key[1]) <= Len(s.root)
      BY <1>1, <1>2 DEF Current
    <2> QED BY <1>1, <1>2, <2>1, <2>2
  <1>5. Hears(r, t, A, fresh + 1)
    <2>1. \A d \in r.dhr : d < fresh + 1
      BY <1>1 DEF Leading
    <2>2. \A k \in r.skipped : k.dh < fresh + 1 /\ k.dh # t.dhs
      BY <1>1 DEF Hears, Stepped
    <2> QED BY <2>1, <2>2 DEF Hears
  <1>6. Reaches(r, t, A, gone)
    <2>1. \A x \in A : Ahead(r, s, x) => Ahead(r, t, x)
      BY DEF Ahead, Leading
    <2> QED BY <2>1 DEF Reaches
  <1> QED BY <1>3, <1>4, <1>5, <1>6

(* A new block is one the other end can come to.                           *)
LEMMA EncryptedKeeps ==
  ASSUME NEW s, Good(s), NEW r, Good(r), NEW t, NEW A, NEW B, NEW fresh, NEW gone,
         t.root = s.root, t.dhs = s.dhs, t.dhr = s.dhr, t.cks = s.cks, t.ckr = s.ckr,
         t.ns = s.ns + 1, t.nr = s.nr, t.pn = s.pn, t.skipped = s.skipped,
         NEW x, NEW c \in s.cks, x.dh = s.dhs, x.pn = s.pn, x.n = s.ns, x.key[1] = c,
         Leading(s, r, A) \/ Leading(r, s, B),
         Current(s, A), Hears(s, r, B, fresh), Reaches(s, r, B, gone),
         Hears(r, s, A, fresh), Reaches(r, s, A, gone)
  PROVE  /\ Leading(t, r, A \cup {x}) \/ Leading(r, t, B)
         /\ Current(t, A \cup {x}) /\ Hears(t, r, B, fresh) /\ Reaches(t, r, B, gone)
         /\ Hears(r, t, A \cup {x}, fresh) /\ Reaches(r, t, A \cup {x}, gone)
  <1>1. s.ns \in Nat /\ r.nr \in Nat
    BY DEF Good, Session
  <1>2. c = s.root
    BY DEF Leading
  <1>3. Leading(s, r, A) => Leading(t, r, A \cup {x})
    <2> SUFFICES ASSUME Leading(s, r, A) PROVE Leading(t, r, A \cup {x})
      OBVIOUS
    <2>1. \A y \in A \cup {x} : y.dh \in r.dhr => y.n < t.pn
      BY DEF Leading
    <2> QED BY <2>1 DEF Leading
  <1>4. Leading(r, s, B) => Leading(r, t, B)
    BY <1>1 DEF Leading
  <1>5. Current(t, A \cup {x})
    BY <1>2 DEF Current
  <1>6. Hears(t, r, B, fresh) /\ Reaches(t, r, B, gone)
    BY DEF Hears, Reaches, Ahead, HasKey
  <1>7. Hears(r, t, A \cup {x}, fresh)
    <2>1. x.dh \in r.dhr => x.key[1] \in r.ckr
      BY DEF Leading
    <2>2. \A k \in r.skipped : x.dh = k.dh => x.key[1] = k.key[1]
      BY <1>2 DEF Hears
    <2> QED BY <2>1, <2>2 DEF Hears
  <1>8. Reaches(r, t, A \cup {x}, gone)
    <2>1. Ahead(r, t, x)
      BY DEF Ahead, Leading
    <2>2. \A y \in A : Ahead(r, s, y) => Ahead(r, t, y)
      BY DEF Ahead
    <2> QED BY <2>1, <2>2 DEF Reaches
  <1> QED BY <1>3, <1>4, <1>5, <1>6, <1>7, <1>8

(* A week makes keys old, and forgets none.                                *)
LEMMA AgedKeeps ==
  ASSUME NEW s, Good(s), NEW r, NEW B, NEW fresh, NEW gone,
         Hears(s, r, B, fresh), Reaches(s, r, B, gone)
  PROVE  LET t == [s EXCEPT !.skipped = {[k EXCEPT !.old = TRUE] : k \in @}]
         IN  /\ SameEnd(t, s) /\ t.nr = s.nr
             /\ Hears(t, r, B, fresh) /\ Reaches(t, r, B, gone)
  <1> DEFINE aged == {[k EXCEPT !.old = TRUE] : k \in s.skipped}
             t == [s EXCEPT !.skipped = aged]
  <1>1. SameEnd(t, s) /\ t.nr = s.nr /\ t.skipped = aged
    BY DEF SameEnd, Good, Session
  <1>2. ASSUME NEW k \in s.skipped
        PROVE  LET o == [k EXCEPT !.old = TRUE]
               IN  o \in aged /\ o.key = k.key /\ o.n = k.n /\ o.dh = k.dh
    BY RootLength DEF Skipped
  <1>3. \A j \in aged : \E k \in s.skipped : j.key = k.key /\ j.n = k.n /\ j.dh = k.dh
    BY <1>2
  <1>4. \A k \in s.skipped : \E j \in aged : j.key = k.key /\ j.n = k.n /\ j.dh = k.dh
    BY <1>2
  <1> HIDE DEF aged, t
  <1>5. Hears(t, r, B, fresh)
    BY <1>1, <1>3 DEF SameEnd, Hears
  <1>6. Reaches(t, r, B, gone)
    <2>1. \A m \in B : HasKey(s, m) => HasKey(t, m)
      BY <1>1, <1>4 DEF HasKey
    <2> QED BY <1>1, <2>1 DEF SameEnd, Reaches, Ahead
  <1>7. t = [s EXCEPT !.skipped = {[k EXCEPT !.old = TRUE] : k \in @}]
    BY DEF t, aged, Good, Session
  <1> QED BY <1>1, <1>5, <1>6, <1>7

-----------------------------------------------------------------------------
(* Both ends together.                                                     *)

From(p) == {m \in sent : m.from = p}

(* The blocks that were read, and those whose cached keys expired.         *)
Gone == {i \in 1 .. MaxMsg : reads[i] > 0} \cup expired

(* What p knows of the other party's chains and blocks.                    *)
Follows(p) ==
  /\ Current(session[p], From(p))
  /\ Hears(session[p], session[Other(p)], From(Other(p)), keys)
  /\ Reaches(session[p], session[Other(p)], From(Other(p)), Gone)

(* One party is a ratchet step ahead, and each can come to every block of  *)
(* the other that it is not done with.                                     *)
ReadInv ==
  /\ \E p \in Party : Leading(session[p], session[Other(p)], From(p))
  /\ \A p \in Party : Follows(p)

LEMMA SentSealed ==
  ASSUME KeysInv, ForgetInv, NEW p \in Party
  PROVE  /\ Sealed(From(p)) /\ From(p) \in SUBSET sent
         /\ \A x \in From(p) :
              x.dh < keys /\ (x.dh = session[p].dhs => x.n < session[p].ns)
  <1>1. From(p) \subseteq sent /\ sent \subseteq Message
    BY GoodSessions DEF From, KeysInv
  <1>2. \A x \in From(p) : x.key = <<x.key[1], x.n>>
    <2> SUFFICES ASSUME NEW x \in From(p) PROVE x.key = <<x.key[1], x.n>>
      OBVIOUS
    <2>1. x.key = <<x.key[1], x.key[2]>>
      BY <1>1, SentFacts DEF KeysInv
    <2> QED BY <1>1, <2>1 DEF KeysInv, HeaderNamesKey
  <1>3. \A a, b \in From(p) : a.dh = b.dh /\ a.n = b.n => a = b
    BY <1>1 DEF KeysInv, HeadersUnique
  <1>4. \A a, b \in From(p) : a.key = b.key => a = b
    BY <1>1, OneKeyEach DEF KeysUnique
  <1>5. \A x \in From(p) : x.dh < keys /\ (x.dh = session[p].dhs => x.n < session[p].ns)
    BY <1>1 DEF KeysInv, HeaderNamesKey, Counted
  <1> QED BY <1>1, <1>2, <1>3, <1>4, <1>5 DEF Sealed

(* What holds of p and the other party, by their names in the lemmas above. *)
LEMMA Pair ==
  ASSUME ReadInv, KeysInv, ForgetInv, NEW p \in Party
  PROVE  LET s == session[p]
             r == session[Other(p)]
             A == From(p)
             B == From(Other(p))
         IN  /\ Good(s) /\ Good(r) /\ Sealed(A) /\ Sealed(B)
             /\ s.dhs < keys /\ r.dhs < keys /\ keys \in Nat
             /\ Leading(s, r, A) \/ Leading(r, s, B)
             /\ Current(s, A) /\ Hears(s, r, B, keys) /\ Reaches(s, r, B, Gone)
             /\ Current(r, B) /\ Hears(r, s, A, keys) /\ Reaches(r, s, A, Gone)
  <1>1. Other(p) \in Party /\ Other(Other(p)) = p /\ \A q \in Party : q \in {p, Other(p)}
    BY Turns
  <1>2. /\ Good(session[p]) /\ Good(session[Other(p)]) /\ keys \in Nat
        /\ Sealed(From(p)) /\ Sealed(From(Other(p)))
    BY <1>1, PartyGood, SentSealed DEF KeysInv
  <1>3. session[p].dhs < keys /\ session[Other(p)].dhs < keys
    BY <1>1 DEF KeysInv, OwnChains
  <1>4. \/ Leading(session[p], session[Other(p)], From(p))
        \/ Leading(session[Other(p)], session[p], From(Other(p)))
    BY <1>1 DEF ReadInv
  <1>5. Follows(p) /\ Follows(Other(p))
    BY <1>1 DEF ReadInv
  <1>6. /\ Current(session[p], From(p))
        /\ Hears(session[p], session[Other(p)], From(Other(p)), keys)
        /\ Reaches(session[p], session[Other(p)], From(Other(p)), Gone)
    BY <1>5 DEF Follows
  <1>7. /\ Current(session[Other(p)], From(Other(p)))
        /\ Hears(session[Other(p)], session[p], From(p), keys)
        /\ Reaches(session[Other(p)], session[p], From(p), Gone)
    BY <1>1, <1>5 DEF Follows
  <1> QED BY <1>2, <1>3, <1>4, <1>6, <1>7

(* And the way back.                                                       *)
LEMMA PairHolds ==
  ASSUME NEW p \in Party, NEW s, NEW r, NEW A, NEW B, NEW gone,
         session'[p] = s, session'[Other(p)] = r,
         From(p)' = A, From(Other(p))' = B, gone \subseteq Gone',
         Leading(s, r, A) \/ Leading(r, s, B),
         Current(s, A), Hears(s, r, B, keys'), Reaches(s, r, B, gone),
         Current(r, B), Hears(r, s, A, keys'), Reaches(r, s, A, gone)
  PROVE  ReadInv'
  <1>1. Other(p) \in Party /\ Other(Other(p)) = p /\ \A q \in Party : q \in {p, Other(p)}
    BY Turns
  <1>2. Reaches(s, r, B, Gone') /\ Reaches(r, s, A, Gone')
    BY DEF Reaches
  <1>3. \E q \in Party : Leading(session'[q], session'[Other(q)], From(q)')
    BY <1>1
  <1>4. ASSUME NEW q \in Party
        PROVE  /\ Current(session'[q], From(q)')
               /\ Hears(session'[q], session'[Other(q)], From(Other(q))', keys')
               /\ Reaches(session'[q], session'[Other(q)], From(Other(q))', Gone')
    <2>1. CASE q = p
      BY <1>2, <2>1
    <2>2. CASE q = Other(p)
      BY <1>1, <1>2, <2>2
    <2> QED BY <1>1, <2>1, <2>2
  <1> QED BY <1>3, <1>4 DEF ReadInv, Follows

LEMMA StartReads == Init => ReadInv
  <1> SUFFICES ASSUME Init PROVE ReadInv
    OBVIOUS
  <1>1. From("alice") = {} /\ From("bob") = {}
    BY DEF Init, From
  <1>2. Other("alice") = "bob" /\ Other("bob") = "alice" /\ Party = {"alice", "bob"}
    BY DEF Other, Party
  <1>3. /\ session["alice"].root = Append(<<>>, {0, 1})
        /\ session["alice"].cks = {session["alice"].root}
        /\ session["alice"].dhs = 1 /\ session["alice"].dhr = {0}
        /\ session["alice"].ckr = {} /\ session["alice"].nr = 0
        /\ session["alice"].skipped = {}
    <2>1. session["alice"].root = <<{0, 1}>> /\ <<{0, 1}>> = Append(<<>>, {0, 1})
      BY DEF Init, Party
    <2> QED BY <2>1 DEF Init, Party
  <1>4. /\ session["bob"].root = <<>> /\ session["bob"].dhs = 0
        /\ session["bob"].dhr = {} /\ session["bob"].cks = {} /\ session["bob"].ckr = {}
        /\ session["bob"].ns = 0 /\ session["bob"].skipped = {}
    BY DEF Init, Party
  <1>5. Leading(session["alice"], session["bob"], {})
    BY <1>3, <1>4 DEF Leading
  <1>6. keys = 2
    BY DEF Init
  <1>7. Follows("alice") /\ Follows("bob")
    BY <1>1, <1>2, <1>3, <1>4, <1>6 DEF Follows, Current, Hears, Reaches
  <1> QED BY <1>1, <1>2, <1>5, <1>7 DEF ReadInv

LEMMA EncryptReads ==
  ASSUME ReadInv, KeysInv, ForgetInv, NEW p \in Party, Encrypt(p)
  PROVE  ReadInv'
  <1> DEFINE s == session[p]
             r == session[Other(p)]
             t == [s EXCEPT !.ns = @ + 1]
             A == From(p)
             B == From(Other(p))
             x(c) == [id |-> Cardinality(sent) + 1, from |-> p,
                      opening |-> sent = {}, dh |-> s.dhs, pn |-> s.pn,
                      n |-> s.ns, key |-> <<c, s.ns>>]
  <1>1. PICK c \in s.cks : sent' = sent \cup {x(c)}
    BY DEF Encrypt
  <1> DEFINE y == x(c)
  <1>2. /\ y.from = p /\ y.dh = s.dhs /\ y.pn = s.pn /\ y.n = s.ns /\ y.key[1] = c
    OBVIOUS
  <1>3. /\ session' = [session EXCEPT ![p] = t] /\ keys' = keys
        /\ reads' = reads /\ expired' = expired
    BY DEF Encrypt
  <1>4. /\ Good(s) /\ Good(r)
        /\ Leading(s, r, A) \/ Leading(r, s, B)
        /\ Current(s, A) /\ Hears(s, r, B, keys) /\ Reaches(s, r, B, Gone)
        /\ Current(r, B) /\ Hears(r, s, A, keys) /\ Reaches(r, s, A, Gone)
    BY Pair
  <1>5. /\ t.root = s.root /\ t.dhs = s.dhs /\ t.dhr = s.dhr /\ t.cks = s.cks
        /\ t.ckr = s.ckr /\ t.ns = s.ns + 1 /\ t.nr = s.nr /\ t.pn = s.pn
        /\ t.skipped = s.skipped
    BY <1>4 DEF Good, Session
  <1> HIDE DEF y, t
  <1>6. From(p)' = A \cup {y} /\ From(Other(p))' = B
    BY <1>1, <1>2, Turns DEF From, y
  <1>7. session'[p] = t /\ session'[Other(p)] = r
    BY <1>3, GoodSessions, Turns DEF KeysInv
  <1>8. /\ Leading(t, r, A \cup {y}) \/ Leading(r, t, B)
        /\ Current(t, A \cup {y}) /\ Hears(t, r, B, keys) /\ Reaches(t, r, B, Gone)
        /\ Hears(r, t, A \cup {y}, keys) /\ Reaches(r, t, A \cup {y}, Gone)
    <2>1. c \in s.cks
      OBVIOUS
    <2> HIDE DEF s, r, A, B, x
    <2> QED BY <1>2, <1>4, <1>5, <2>1, EncryptedKeeps, SMTT(60)
  <1>9. Gone' = Gone
    BY <1>3 DEF Gone
  <1> QED BY <1>3, <1>4, <1>6, <1>7, <1>8, <1>9, PairHolds

LEMMA MoreGone ==
  ASSUME NEW s, NEW r, NEW B, NEW gone, NEW all, gone \subseteq all, Reaches(s, r, B, gone)
  PROVE  Reaches(s, r, B, all)
BY DEF Reaches

LEMMA DecryptReads ==
  ASSUME ReadInv, KeysInv, ForgetInv, NEW p \in Party, NEW m \in sent, Decrypt(p, m)
  PROVE  ReadInv'
  <1> DEFINE s == session[p]
             r == session[Other(p)]
             t == Decrypted(s, m)
             A == From(p)
             B == From(Other(p))
             done == Gone \cup Stale(s) \cup {m.id}
  <1>1. /\ Good(s) /\ Good(r) /\ Sealed(A) /\ Sealed(B)
        /\ s.dhs < keys /\ r.dhs < keys /\ keys \in Nat
        /\ Leading(s, r, A) \/ Leading(r, s, B)
        /\ Current(s, A) /\ Hears(s, r, B, keys) /\ Reaches(s, r, B, Gone)
        /\ Current(r, B) /\ Hears(r, s, A, keys) /\ Reaches(r, s, A, Gone)
    BY Pair
  <1>2. /\ session' = [session EXCEPT ![p] = t] /\ sent' = sent
        /\ keys' = IF t.dhs = keys THEN keys + 1 ELSE keys
        /\ reads' = [reads EXCEPT ![m.id] = @ + 1]
        /\ expired' = expired \cup Stale(s)
        /\ Decrypts(s, m) /\ m.from # p
    BY DEF Decrypt
  <1>3. m \in B /\ m \in Message /\ m.n \in Nat /\ m.id \in 1 .. MaxMsg
    <2>1. m \in Message /\ m.from = Other(p) /\ m.n \in Nat /\ m.id \in Nat
      BY <1>2, SentFacts, Turns DEF KeysInv
    <2>2. m.id \in 1 .. Cardinality(sent) /\ m.id <= MaxMsg
      BY DEF ForgetInv, Right
    <2>3. Cardinality(sent) \in Nat /\ MaxMsg \in Nat
      BY GoodSessions, FS_CardinalityType, BoundsAssumption DEF KeysInv
    <2> QED BY <2>1, <2>2, <2>3 DEF From
  <1>4. done \subseteq Gone'
    <2>1. reads \in [1 .. MaxMsg -> Nat]
      BY GoodSessions DEF KeysInv
    <2>2. \A i \in 1 .. MaxMsg :
            /\ reads[i] \in Nat
            /\ reads'[i] = IF i = m.id THEN reads[i] + 1 ELSE reads[i]
      BY <1>2, <2>1
    <2>3. \A i \in 1 .. MaxMsg : (reads[i] > 0 => reads'[i] > 0)
      BY <2>2
    <2>4. reads'[m.id] > 0
      BY <1>3, <2>2
    <2> QED BY <1>2, <1>3, <2>3, <2>4 DEF Gone
  <1>5. /\ Reaches(t, r, B, done)
        /\ \/ /\ SameEnd(t, s) /\ Hears(t, r, B, keys)
              /\ t.nr = s.nr \/ (m.dh \in s.dhr /\ t.nr = m.n + 1)
           \/ /\ Leading(r, s, B) /\ m.dh = r.dhs /\ Hears(t, r, B, keys + 1)
              /\ Stepped(t, s, r, keys) /\ t.nr = m.n + 1
    <2>1. B \in SUBSET sent
      BY DEF From
    <2> HIDE DEF s, r, t, A, B
    <2> QED BY <1>1, <1>2, <1>3, <2>1, DecryptedReaches DEF t
  <1>6. Good(t)
    BY <1>1, <1>3, DecryptedGood
  <1>7. m.dh = r.dhs => m.n + 1 <= r.ns
    <2>1. m.dh = r.dhs => m.n < r.ns
      BY <1>3, SentSealed, Turns
    <2>2. r.ns \in Nat
      BY <1>1 DEF Good, Session
    <2> QED BY <1>3, <2>1, <2>2
  <1>8. \A x \in A : x.dh < keys /\ (x.dh = s.dhs => x.n < s.ns)
    BY SentSealed
  <1>9. session'[p] = t /\ session'[Other(p)] = r
    BY <1>2, GoodSessions, Turns DEF KeysInv
  <1>10. From(p)' = A /\ From(Other(p))' = B
    BY <1>2 DEF From
  <1> HIDE DEF s, r, t, A, B
  <1>11. Reaches(t, r, B, done) /\ Reaches(r, s, A, done)
    BY <1>1, <1>5, MoreGone
  <1> HIDE DEF done
  <1>12. CASE /\ SameEnd(t, s) /\ Hears(t, r, B, keys)
              /\ t.nr = s.nr \/ (m.dh \in s.dhr /\ t.nr = m.n + 1)
    <2>1. keys' = keys
      BY <1>1, <1>2, <1>12 DEF SameEnd, Good, Session
    <2>2. Leading(s, r, A) => t.nr <= r.ns
      BY <1>7, <1>12 DEF Leading
    <2>3. /\ Leading(t, r, A) \/ Leading(r, t, B)
          /\ Current(t, A) /\ Hears(r, t, A, keys) /\ Reaches(r, t, A, done)
      BY <1>1, <1>11, <1>12, <2>2, SameEndKeeps
    <2> QED BY <1>1, <1>4, <1>9, <1>10, <1>11, <1>12, <2>1, <2>3, PairHolds
  <1>13. CASE /\ Leading(r, s, B) /\ m.dh = r.dhs /\ Hears(t, r, B, keys + 1)
              /\ Stepped(t, s, r, keys) /\ t.nr = m.n + 1
    <2>1. keys' = keys + 1
      BY <1>2, <1>13 DEF Stepped
    <2>2. t.nr <= r.ns
      BY <1>7, <1>13
    <2>3. /\ Leading(t, r, A) /\ Current(t, A)
          /\ Hears(r, t, A, keys + 1) /\ Reaches(r, t, A, done)
      BY <1>1, <1>6, <1>8, <1>11, <1>13, <2>2, SteppedKeeps
    <2> QED BY <1>1, <1>4, <1>9, <1>10, <1>11, <1>13, <2>1, <2>3, PairHolds
  <1> QED BY <1>5, <1>12, <1>13

LEMMA ExpireReads ==
  ASSUME ReadInv, KeysInv, ForgetInv, NEW p \in Party, ExpireSkippedKeys(p)
  PROVE  ReadInv'
  <1> DEFINE s == session[p]
             r == session[Other(p)]
             t == Unexpired(s)
             A == From(p)
             B == From(Other(p))
             done == Gone \cup Stale(s)
  <1>1. /\ Good(s)
        /\ Leading(s, r, A) \/ Leading(r, s, B)
        /\ Current(s, A) /\ Hears(s, r, B, keys) /\ Reaches(s, r, B, Gone)
        /\ Current(r, B) /\ Hears(r, s, A, keys) /\ Reaches(r, s, A, Gone)
    BY Pair
  <1>2. /\ session' = [session EXCEPT ![p] = t] /\ sent' = sent
        /\ keys' = keys /\ reads' = reads /\ expired' = expired \cup Stale(s)
    BY DEF ExpireSkippedKeys
  <1>3. /\ SameEnd(t, s) /\ t.nr = s.nr
        /\ Hears(t, r, B, keys) /\ Reaches(t, r, B, done)
    <2>1. B \in SUBSET sent
      BY DEF From
    <2> HIDE DEF s, r, B
    <2> QED BY <1>1, <2>1, UnexpiredReaches
  <1>4. session'[p] = t /\ session'[Other(p)] = r
    BY <1>2, GoodSessions, Turns DEF KeysInv
  <1>5. From(p)' = A /\ From(Other(p))' = B /\ done \subseteq Gone'
    BY <1>2 DEF From, Gone
  <1> HIDE DEF s, r, t, A, B
  <1>6. Reaches(r, s, A, done)
    BY <1>1, MoreGone
  <1> HIDE DEF done
  <1>7. /\ Leading(t, r, A) \/ Leading(r, t, B)
        /\ Current(t, A) /\ Hears(r, t, A, keys) /\ Reaches(r, t, A, done)
    <2>1. Leading(s, r, A) => t.nr <= r.ns
      BY <1>3 DEF Leading
    <2> QED BY <1>1, <1>3, <1>6, <2>1, SameEndKeeps
  <1> QED BY <1>1, <1>2, <1>3, <1>4, <1>5, <1>7, PairHolds

LEMMA WeekReads ==
  ASSUME ReadInv, KeysInv, ForgetInv, Week
  PROVE  ReadInv'
  <1> DEFINE p == "alice"
             s == session[p]
             r == session[Other(p)]
             aged(q) == [session[q] EXCEPT
                           !.skipped = {[k EXCEPT !.old = TRUE] : k \in @}]
             t == aged(p)
             v == aged(Other(p))
             A == From(p)
             B == From(Other(p))
  <1>1. p \in Party /\ Other(p) \in Party
    BY DEF Other, Party
  <1>2. /\ Good(s) /\ Good(r)
        /\ Leading(s, r, A) \/ Leading(r, s, B)
        /\ Current(s, A) /\ Hears(s, r, B, keys) /\ Reaches(s, r, B, Gone)
        /\ Current(r, B) /\ Hears(r, s, A, keys) /\ Reaches(r, s, A, Gone)
    BY <1>1, Pair
  <1>3. session' = [q \in Party |-> aged(q)] /\ UNCHANGED <<keys, sent, reads, expired>>
    BY DEF Week
  <1>4. session'[p] = t /\ session'[Other(p)] = v
    BY <1>1, <1>3
  <1>5. From(p)' = A /\ From(Other(p))' = B /\ Gone' = Gone
    BY <1>3 DEF From, Gone
  <1>6. /\ SameEnd(t, s) /\ t.nr = s.nr
        /\ Hears(t, r, B, keys) /\ Reaches(t, r, B, Gone)
    <2> HIDE DEF s, r, B
    <2> QED BY <1>2, AgedKeeps DEF s
  <1>7. /\ SameEnd(v, r) /\ v.nr = r.nr
        /\ Hears(v, s, A, keys) /\ Reaches(v, s, A, Gone)
    <2> HIDE DEF s, r, A
    <2> QED BY <1>2, AgedKeeps DEF r
  <1> HIDE DEF s, r, t, v, A, B
  <1>8. /\ Leading(t, r, A) \/ Leading(r, t, B)
        /\ Current(t, A)
        /\ Hears(v, t, A, keys) /\ Reaches(v, t, A, Gone)
    <2>1. Leading(s, r, A) => t.nr <= r.ns
      BY <1>6 DEF Leading
    <2> QED BY <1>2, <1>6, <1>7, <2>1, SameEndKeeps
  <1>9. /\ Leading(t, v, A) \/ Leading(v, t, B)
        /\ Current(v, B)
        /\ Hears(t, v, B, keys) /\ Reaches(t, v, B, Gone)
    <2>1. Leading(r, t, B) => v.nr <= t.ns
      BY <1>7 DEF Leading
    <2> QED BY <1>2, <1>6, <1>7, <1>8, <2>1, SameEndKeeps
  <1> HIDE DEF p
  <1> QED BY <1>1, <1>3, <1>4, <1>5, <1>8, <1>9, PairHolds

LEMMA Reading == Spec => []ReadInv
  <1>1. KeysInv /\ ForgetInv /\ ReadInv /\ [Next]_vars => ReadInv'
    <2> SUFFICES ASSUME KeysInv, ForgetInv, ReadInv, [Next]_vars PROVE ReadInv'
      OBVIOUS
    <2>1. CASE UNCHANGED vars
      <3>1. UNCHANGED <<session, keys, Gone>> /\ \A q \in Party : From(q)' = From(q)
        BY <2>1 DEF vars, Gone, From
      <3>2. \E q \in Party : Leading(session'[q], session'[Other(q)], From(q)')
        BY <3>1 DEF ReadInv
      <3>3. ASSUME NEW q \in Party PROVE Follows(q)'
        <4>1. Other(q) \in Party /\ Follows(q)
          BY Turns DEF ReadInv
        <4> QED BY <3>1, <4>1 DEF Follows
      <3> QED BY <3>2, <3>3 DEF ReadInv
    <2> QED BY <2>1, EncryptReads, DecryptReads, ExpireReads, WeekReads DEF Next
  <1> QED BY <1>1, StartReads, KeysKept, Forgetting, PTL DEF Spec

(* Only Alice's first block is an opening, and Bob has a session as soon   *)
(* as he has read it, and not before.                                      *)
OpenInv ==
  /\ session["alice"].dhr # {}
  /\ session["bob"].dhr = {} => session["bob"].cks = {}
  /\ sent = {} => session["bob"].dhr = {}
  /\ \A m \in sent : m.opening =>
       /\ m.from = "alice" /\ \A x \in sent : x.opening => x = m
       /\ session["bob"].dhr = {} \/ reads[m.id] > 0

LEMMA EncryptOpens ==
  ASSUME TypeOK, OpenInv, NEW p \in Party, Encrypt(p)
  PROVE  OpenInv'
  <1> DEFINE s == session[p]
             x(c) == [id |-> Cardinality(sent) + 1, from |-> p,
                      opening |-> sent = {}, dh |-> s.dhs, pn |-> s.pn,
                      n |-> s.ns, key |-> <<c, s.ns>>]
  <1>1. PICK c \in s.cks : sent' = sent \cup {x(c)}
    BY DEF Encrypt
  <1> DEFINE y == x(c)
  <1>2. y.from = p /\ (y.opening <=> sent = {})
    OBVIOUS
  <1> HIDE DEF y
  <1>3. session' = [session EXCEPT ![p] = [s EXCEPT !.ns = @ + 1]] /\ reads' = reads
    BY DEF Encrypt
  <1>4. Good(s) /\ session \in [Party -> Session]
    BY PartyGood, GoodSessions
  <1>5. \A q \in Party :
          session'[q].dhr = session[q].dhr /\ session'[q].cks = session[q].cks
    BY <1>3, <1>4 DEF Session
  <1>6. "alice" \in Party /\ "bob" \in Party /\ (p = "alice" \/ p = "bob")
    BY DEF Party
  <1>7. sent = {} => p = "alice"
    BY <1>6 DEF OpenInv
  <1>8. sent' = sent \cup {y}
    BY <1>1 DEF y
  <1>9. ASSUME NEW m \in sent', m.opening
        PROVE  /\ m.from = "alice" /\ \A z \in sent' : z.opening => z = m
               /\ session'["bob"].dhr = {} \/ reads'[m.id] > 0
    <2>1. CASE sent = {}
      <3>1. m = y /\ \A z \in sent' : z = y
        BY <1>8, <2>1
      <3> QED BY <1>2, <1>5, <1>6, <1>7, <2>1, <3>1 DEF OpenInv
    <2>2. CASE sent # {}
      <3>1. m \in sent /\ \A z \in sent' : z.opening => z \in sent
        BY <1>2, <1>8, <1>9, <2>2
      <3> QED BY <1>3, <1>5, <1>6, <1>9, <3>1 DEF OpenInv
    <2> QED BY <2>1, <2>2
  <1> QED BY <1>5, <1>6, <1>8, <1>9 DEF OpenInv

LEMMA DecryptOpens ==
  ASSUME ReadInv, KeysInv, ForgetInv, OpenInv,
         NEW p \in Party, NEW m \in sent, Decrypt(p, m)
  PROVE  OpenInv'
  <1> DEFINE s == session[p]
             r == session[Other(p)]
             t == Decrypted(s, m)
  <1>1. TypeOK /\ session \in [Party -> Session] /\ reads \in [1 .. MaxMsg -> Nat]
    BY GoodSessions DEF KeysInv
  <1>2. /\ session' = [session EXCEPT ![p] = t] /\ sent' = sent
        /\ reads' = [reads EXCEPT ![m.id] = @ + 1]
        /\ (m.opening <=> s.dhr = {}) /\ m.from # p
    BY DEF Decrypt
  <1>3. SameEnd(t, s) \/ t.dhr # {}
    <2> DEFINE A == From(p)
               B == From(Other(p))
    <2>1. /\ Good(s) /\ Good(r) /\ Sealed(B) /\ r.dhs < keys /\ keys \in Nat
          /\ Leading(s, r, A) \/ Leading(r, s, B)
          /\ Hears(s, r, B, keys) /\ Reaches(s, r, B, Gone) /\ Current(r, B)
      BY Pair
    <2>2. m \in B /\ B \in SUBSET sent /\ Decrypts(s, m)
      BY <1>1, SentFacts, Turns DEF From, Decrypt
    <2> HIDE DEF s, r, t, A, B
    <2>3. SameEnd(t, s) \/ Stepped(t, s, r, keys)
      BY <2>1, <2>2, DecryptedReaches DEF t
    <2> QED BY <2>3 DEF Stepped
  <1>4. m.id \in 1 .. MaxMsg
    <2>1. m.id \in 1 .. Cardinality(sent) /\ m.id <= MaxMsg
      BY DEF ForgetInv, Right
    <2> QED BY <1>1, <2>1, GoodSessions, FS_CardinalityType, BoundsAssumption
  <1>5. \A i \in 1 .. MaxMsg : reads[i] > 0 \/ i = m.id => reads'[i] > 0
    BY <1>1, <1>2
  <1>6. \A x \in sent : x.id \in 1 .. MaxMsg
    <2>1. \A x \in sent : x.id \in 1 .. Cardinality(sent) /\ x.id <= MaxMsg
      BY DEF ForgetInv, Right
    <2> QED BY <1>1, <2>1, GoodSessions, FS_CardinalityType, BoundsAssumption
  <1> HIDE DEF t
  <1>7. \A q \in Party : session'[q] = IF q = p THEN t ELSE session[q]
    BY <1>1, <1>2
  <1>8. "alice" \in Party /\ "bob" \in Party /\ (p = "alice" \/ p = "bob")
    BY DEF Party
  <1>9. session'["alice"].dhr # {}
    BY <1>3, <1>7, <1>8 DEF OpenInv, SameEnd
  <1>10. session'["bob"].dhr = {} => session'["bob"].cks = {}
    BY <1>3, <1>7, <1>8 DEF OpenInv, SameEnd
  <1>11. ASSUME NEW x \in sent, x.opening
         PROVE  session'["bob"].dhr = {} \/ reads'[x.id] > 0
    <2>1. CASE session["bob"].dhr # {}
      BY <1>5, <1>6, <1>11, <2>1 DEF OpenInv
    <2>2. CASE session["bob"].dhr = {} /\ p = "bob"
      BY <1>2, <1>4, <1>5, <1>11, <2>2 DEF OpenInv
    <2>3. CASE session["bob"].dhr = {} /\ p = "alice"
      BY <1>7, <1>8, <2>3
    <2> QED BY <1>8, <2>1, <2>2, <2>3
  <1> QED BY <1>2, <1>9, <1>10, <1>11 DEF OpenInv

LEMMA Opening == Spec => []OpenInv
  <1>1. Init => OpenInv
    BY DEF Init, OpenInv, Party
  <1>2. ReadInv /\ KeysInv /\ ForgetInv /\ OpenInv /\ [Next]_vars => OpenInv'
    <2> SUFFICES ASSUME ReadInv, KeysInv, ForgetInv, OpenInv, [Next]_vars PROVE OpenInv'
      OBVIOUS
    <2>0. TypeOK /\ session \in [Party -> Session] /\ "alice" \in Party /\ "bob" \in Party
      BY GoodSessions DEF KeysInv, Party
    <2>1. CASE UNCHANGED vars
      BY <2>1 DEF vars, OpenInv
    <2>2. CASE \E p \in Party : Encrypt(p)
      BY <2>0, <2>2, EncryptOpens
    <2>3. CASE \E p \in Party, m \in sent : Decrypt(p, m)
      BY <2>3, DecryptOpens
    <2>4. ASSUME \A q \in Party : SameEnd(session'[q], session[q]), UNCHANGED <<sent, reads>>
          PROVE  OpenInv'
      BY <2>0, <2>4 DEF SameEnd, OpenInv
    <2>5. CASE \E p \in Party : ExpireSkippedKeys(p)
      <3>1. PICK p \in Party : ExpireSkippedKeys(p)
        BY <2>5
      <3>2. SameEnd(Unexpired(session[p]), session[p])
        BY <2>0, PartyGood DEF SameEnd, Unexpired, Good, Session
      <3>3. \A q \in Party : session'[q] = IF q = p THEN Unexpired(session[p]) ELSE session[q]
        BY <2>0, <3>1 DEF ExpireSkippedKeys
      <3>4. \A q \in Party : SameEnd(session'[q], session[q])
        BY <3>2, <3>3 DEF SameEnd
      <3> QED BY <2>4, <3>1, <3>4 DEF ExpireSkippedKeys
    <2>6. CASE Week
      <3>1. \A q \in Party : SameEnd(session'[q], session[q])
        BY <2>0, <2>6 DEF Week, SameEnd, Session
      <3> QED BY <2>4, <2>6, <3>1 DEF Week
    <2> QED BY <2>1, <2>2, <2>3, <2>5, <2>6 DEF Next
  <1> QED BY <1>1, <1>2, Reading, KeysKept, Forgetting, PTL DEF Spec

(* A block that is ahead decrypts, if the cache has room for the gap.      *)
LEMMA AheadDecrypts ==
  ASSUME NEW s, Good(s), NEW r, Good(r), NEW A, NEW B, Sealed(B), keys \in Nat,
         NEW l, l = Unexpired(s), Good(l), SameEnd(l, s), Hears(l, r, B, keys),
         Leading(s, r, A) \/ Leading(r, s, B), Current(r, B),
         NEW m \in B, Ahead(l, r, m), Cached(l, m) = {},
         m.dh \notin l.dhr => ~TooMany(l, m.pn), ~TooMany(CaughtUp(l, m), m.n)
  PROVE  Decrypts(s, m)
  <1> DEFINE t == CaughtUp(l, m)
             u == SkipMessageKeys(t, m.n)
  <1>1. /\ m \in Message /\ m.n \in Nat /\ m.pn \in Nat /\ m.dh \in Nat
        /\ m.key = <<m.key[1], m.n>>
    BY DEF Sealed, Message
  <1>2. Good(t)
    BY <1>1, CaughtUpGood
  <1>3. m.key[1] \in t.ckr /\ t.nr <= m.n /\ t.nr \in Nat
    <2>1. CASE m.dh \in l.dhr
      <3>1. t = l /\ l.nr <= m.n
        BY <2>1 DEF CaughtUp, Ahead
      <3> QED BY <1>2, <2>1, <3>1 DEF Hears, Good, Session
    <2>2. CASE m.dh \notin l.dhr
      <3> DEFINE v == SkipMessageKeys(l, m.pn)
      <3>1. t = DhRatchet(v, m.dh, keys)
        BY <2>2 DEF CaughtUp
      <3>2. Good(v) /\ SameEnd(v, l)
        BY <1>1, SkipFits, SkipIs
      <3> HIDE DEF t, v
      <3>3. t.ckr = {Append(v.root, {v.dhs, m.dh})} /\ t.nr = 0
        BY <3>1, <3>2 DEF DhRatchet, Good, Session
      <3>4. m.dh = r.dhs /\ Leading(r, s, B)
        BY <2>2 DEF Ahead, Leading, SameEnd
      <3>5. m.key[1] = Append(s.root, {s.dhs, m.dh})
        BY <3>4 DEF Current, Leading
      <3> QED BY <1>1, <3>2, <3>3, <3>5 DEF SameEnd
    <2> QED BY <2>1, <2>2
  <1> HIDE DEF t
  <1>4. u.ckr = t.ckr /\ u.nr = m.n
    <2>1. SameEnd(u, t) /\ (t.ckr # {} /\ ~(m.n < t.nr) => u.nr = m.n)
      BY <1>1, <1>2, SkipIs
    <2> HIDE DEF u
    <2> QED BY <1>1, <1>3, <2>1 DEF SameEnd
  <1> HIDE DEF u
  <1>5. m.key \in u.ckr \X {u.nr}
    BY <1>1, <1>3, <1>4
  <1> QED BY <1>5 DEF Decrypts, t, u

(* A cached key of m's header is m's key.                                  *)
LEMMA CachedOpens ==
  ASSUME NEW l, Good(l), NEW turn, Tidy(l, turn), NEW r, NEW B, Sealed(B), NEW fresh,
         Hears(l, r, B, fresh), NEW m \in B, NEW k \in Cached(l, m)
  PROVE  k.key = m.key
  <1>1. k \in l.skipped /\ k.dh = m.dh /\ k.n = m.n
    BY DEF Cached
  <1>2. k.key = <<k.key[1], k.key[2]>>
    <2>1. k.key \in Key
      BY <1>1, RootLength
    <2> QED BY <2>1 DEF Key
  <1>3. k.key[2] = k.n /\ k.key[1] = m.key[1]
    BY <1>1 DEF Tidy, Hears
  <1> QED BY <1>1, <1>2, <1>3 DEF Sealed

(* A block can be read whenever it arrives, in whatever order it and the   *)
(* others do (ratchet.cpp, decrypt_in_place): only a gap the cache has no  *)
(* room for, the age of its cached key, or that there is no session yet    *)
(* can stand in its way.                                                   *)
THEOREM BlocksStayReadable == Spec => []Readable
  <1>1. ReadInv /\ OpenInv /\ KeysInv /\ ForgetInv => Readable
    <2> SUFFICES ASSUME ReadInv, OpenInv, KeysInv, ForgetInv, NEW m \in sent
                 PROVE  LET s == session[CHOOSE p \in Party : p # m.from]
                            l == Unexpired(s)
                        IN  \/ reads[m.id] > 0
                            \/ Decrypts(s, m) /\ (m.opening <=> s.dhr = {})
                            \/ m.id \in expired \cup Stale(s)
                            \/ m.dh \notin l.dhr /\ TooMany(l, m.pn)
                            \/ TooMany(CaughtUp(l, m), m.n)
                            \/ s.dhr = {} /\ ~m.opening
      BY DEF Readable
    <2> DEFINE q == m.from
               p == Other(q)
               s == session[p]
               r == session[q]
               l == Unexpired(s)
               A == From(p)
               B == From(q)
    <2>1. q \in Party /\ p \in Party /\ Other(p) = q /\ p = CHOOSE x \in Party : x # q
      <3>1. q \in Party
        BY SentFacts DEF KeysInv
      <3>2. p \in Party /\ p # q /\ Other(p) = q /\ \A x \in Party : x # q => x = p
        BY <3>1, Turns
      <3>3. \A x \in Party : x # q <=> x = p
        BY <3>2
      <3> QED BY <3>1, <3>2, <3>3
    <2>2. /\ Good(s) /\ Good(r) /\ Sealed(B) /\ keys \in Nat
          /\ Leading(s, r, A) \/ Leading(r, s, B)
          /\ Hears(s, r, B, keys) /\ Reaches(s, r, B, Gone) /\ Current(r, B)
      BY <2>1, Pair
    <2>3. Tidy(s, Turn(p)) /\ Turn(p) \in {0, 1}
      BY <2>1, Turns DEF ForgetInv
    <2>9. m.opening /\ ~(reads[m.id] > 0) => s.dhr = {}
      BY DEF OpenInv, Other
    <2> SUFFICES ASSUME ~(reads[m.id] > 0), m.id \notin expired \cup Stale(s),
                        ~(m.dh \notin l.dhr /\ TooMany(l, m.pn)),
                        ~TooMany(CaughtUp(l, m), m.n)
                 PROVE  Decrypts(s, m)
      BY <2>1, <2>9
    <2> HIDE DEF p, A, B
    <2>4. m \in B /\ B \in SUBSET sent
      BY DEF B, From
    <2> HIDE DEF q, s, r
    <2>5. /\ Good(l) /\ SameEnd(l, s) /\ Tidy(l, Turn(p))
          /\ Hears(l, r, B, keys) /\ Reaches(l, r, B, Gone \cup Stale(s))
      BY <2>2, <2>3, <2>4, UnexpiredIsLess, UnexpiredReaches, UnexpiredTidy
    <2>6. Ahead(l, r, m) \/ HasKey(l, m)
      BY <2>4, <2>5 DEF Reaches, Gone
    <2>7. CASE Cached(l, m) # {}
      <3>1. \A k \in Cached(l, m) : k.key = m.key
        BY <2>2, <2>4, <2>5, CachedOpens
      <3> QED BY <2>7, <3>1 DEF Decrypts
    <2>8. CASE Cached(l, m) = {}
      <3>1. Ahead(l, r, m)
        BY <2>6, <2>8 DEF HasKey, Cached
      <3> HIDE DEF l
      <3> QED BY <2>2, <2>4, <2>5, <2>8, <3>1, AheadDecrypts DEF l
    <2> QED BY <2>7, <2>8
  <1> QED BY <1>1, Reading, Opening, KeysKept, Forgetting, PTL
=============================================================================
