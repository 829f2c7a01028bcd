---------------------------- MODULE DoubleRatchet ---------------------------
(***************************************************************************)
(* The ratchet of one established conversation (src/src/ratchet.cpp), both *)
(* ends of it, and message blocks carried by hand: lost, pasted twice, or  *)
(* pasted in any order.                                                    *)
(*                                                                         *)
(* Key derivation is symbolic.  KDF_RK turns a root key and a Diffie-      *)
(* Hellman output into the next root key and a chain key; both are named   *)
(* by the sequence of outputs that went into them, and the output of two   *)
(* key pairs by the pair of their numbers.  KDF_CK gives the n-th message  *)
(* key of a chain the name <<chain, n>>.  A block opens exactly under the  *)
(* key it was sealed under.                                                *)
(***************************************************************************)
EXTENDS Naturals, Sequences, FiniteSets

CONSTANTS
  MaxSkip,     \* kMaxSkip
  MaxMsg,      \* bound: messages sent
  MaxWeek      \* bound: weeks that pass

ASSUME BoundsAssumption == {MaxSkip, MaxMsg, MaxWeek} \subseteq Nat

Party == {"alice", "bob"}

VARIABLES
  session,   \* store::Session of each party
  keys,      \* ratchet key pairs generated so far
  sent,      \* the blocks sent
  reads,     \* how often each block was decrypted
  expired,   \* blocks whose cached key was dropped for its age
  weeks

vars == <<session, keys, sent, reads, expired, weeks>>

Chain   == Seq(SUBSET Nat)
Key     == Chain \X Nat
Skipped == [dh : Nat, n : Nat, key : Key, old : BOOLEAN]
Session == [root : Chain, dhs : Nat, dhr : SUBSET Nat, cks : SUBSET Chain,
            ckr : SUBSET Chain, ns : Nat, nr : Nat, pn : Nat,
            skipped : SUBSET Skipped]
Message == [id : Nat, from : Party, opening : BOOLEAN,
            dh : Nat, pn : Nat, n : Nat, key : Key]

TypeOK ==
  /\ session \in [Party -> Session]
  /\ \A p \in Party :
       /\ IsFiniteSet(session[p].skipped)
       /\ \A x, y \in session[p].dhr : x = y
       /\ \A x, y \in session[p].cks : x = y
       /\ \A x, y \in session[p].ckr : x = y
  /\ sent \subseteq Message /\ IsFiniteSet(sent)
  /\ reads \in [1 .. MaxMsg -> Nat]
  /\ {keys, weeks} \subseteq Nat
  /\ expired \subseteq Nat

(* init_sender at Alice, whose first key pair (1) is her X3DH ephemeral,   *)
(* and init_receiver at Bob, whose first (0) is his signed prekey.         *)
Init ==
  /\ session =
       [p \in Party |->
          IF p = "alice"
          THEN [root |-> <<{0, 1}>>, dhs |-> 1, dhr |-> {0},
                cks |-> {<<{0, 1}>>}, ckr |-> {}, ns |-> 0, nr |-> 0,
                pn |-> 0, skipped |-> {}]
          ELSE [root |-> <<>>, dhs |-> 0, dhr |-> {}, cks |-> {}, ckr |-> {},
                ns |-> 0, nr |-> 0, pn |-> 0, skipped |-> {}]]
  /\ keys = 2
  /\ sent = {}
  /\ reads = [i \in 1 .. MaxMsg |-> 0]
  /\ expired = {}
  /\ weeks = 0

-----------------------------------------------------------------------------
(* The steps of decryption, on a session record.                           *)

(* expire_skipped_keys.                                                    *)
Unexpired(s) == [s EXCEPT !.skipped = {k \in @ : ~k.old}]

(* Mutant of TooMany: the budget is for one gap, not for the whole cache.  *)
GapTooWide(s, until) == s.ckr # {} /\ until >= s.nr /\ until - s.nr > MaxSkip

(* skip_message_keys refuses a gap the cache has no room left for.         *)
TooMany(s, until) ==
  /\ s.ckr # {} /\ until >= s.nr
  /\ Cardinality(s.skipped) + (until - s.nr) > MaxSkip

(* Mutant of SkipMessageKeys: it caches one key too many.                  *)
SkipOneMore(s, until) ==
  IF s.ckr = {} \/ until < s.nr THEN s
  ELSE [s EXCEPT
          !.skipped = @ \cup {[dh |-> d, n |-> i, key |-> <<c, i>>, old |-> FALSE] :
                                d \in s.dhr, c \in s.ckr, i \in s.nr .. until},
          !.nr = until]

(* skip_message_keys otherwise.                                            *)
SkipMessageKeys(s, until) ==
  IF s.ckr = {} \/ until < s.nr THEN s
  ELSE [s EXCEPT
          !.skipped = @ \cup {[dh |-> d, n |-> i, key |-> <<c, i>>, old |-> FALSE] :
                                d \in s.dhr, c \in s.ckr, i \in s.nr .. (until - 1)},
          !.nr = until]

(* Mutant of DhRatchet: one KDF step, so both directions share a chain.    *)
DhRatchetHalf(s, dh, fresh) ==
  LET recv == Append(s.root, {s.dhs, dh})
  IN [s EXCEPT !.pn = s.ns, !.ns = 0, !.nr = 0, !.dhr = {dh}, !.dhs = fresh,
               !.ckr = {recv}, !.cks = {recv}, !.root = recv]

(* Mutant of DhRatchet: the chain received on so far is kept.              *)
DhRatchetKeeping(s, dh, fresh) ==
  LET recv == Append(s.root, {s.dhs, dh})
      send == Append(recv, {fresh, dh})
  IN [s EXCEPT !.pn = s.ns, !.ns = 0, !.nr = 0, !.dhr = {dh}, !.dhs = fresh,
               !.ckr = @ \cup {recv}, !.cks = {send}, !.root = send]

(* dh_ratchet: receive with the old key pair, send with the fresh one.     *)
DhRatchet(s, dh, fresh) ==
  LET recv == Append(s.root, {s.dhs, dh})
      send == Append(recv, {fresh, dh})
  IN [s EXCEPT !.pn = s.ns, !.ns = 0, !.nr = 0, !.dhr = {dh}, !.dhs = fresh,
               !.ckr = {recv}, !.cks = {send}, !.root = send]

Cached(s, m) == {k \in s.skipped : k.dh = m.dh /\ k.n = m.n}

(* Mutant of CaughtUp: the rest of the previous chain is not cached.       *)
CaughtUpAtOnce(s, m) == IF m.dh \in s.dhr THEN s ELSE DhRatchet(s, m.dh, keys)

(* The session caught up with the chain of m, before m's own key.          *)
CaughtUp(s, m) ==
  IF m.dh \in s.dhr THEN s
  ELSE DhRatchet(SkipMessageKeys(s, m.pn), m.dh, keys)

(* decrypt_in_place gets as far as m's key and the tag verifies.           *)
Decrypts(s, m) ==
  LET l == Unexpired(s)
      t == CaughtUp(l, m)
      u == SkipMessageKeys(t, m.n)
  IN IF Cached(l, m) # {} THEN \A k \in Cached(l, m) : k.key = m.key
     ELSE /\ m.dh \notin l.dhr => ~TooMany(l, m.pn)
          /\ ~TooMany(t, m.n)
          /\ m.key \in u.ckr \X {u.nr}

(* Mutant of Decrypted: a cached key is used and stays in the cache.       *)
DecryptedFromCache(s, m) ==
  LET l == Unexpired(s)
      u == SkipMessageKeys(CaughtUp(l, m), m.n)
  IN IF Cached(l, m) # {} THEN l ELSE [u EXCEPT !.nr = @ + 1]

(* The candidate session decrypt adopts.                                   *)
Decrypted(s, m) ==
  LET l == Unexpired(s)
      u == SkipMessageKeys(CaughtUp(l, m), m.n)
  IN IF Cached(l, m) # {} THEN [l EXCEPT !.skipped = @ \ Cached(l, m)]
     ELSE [u EXCEPT !.nr = @ + 1]

-----------------------------------------------------------------------------
(* Actions.                                                                *)

(* The blocks whose key s drops when old keys expire.                      *)
Stale(s) == {m.id : m \in {x \in sent : \E k \in s.skipped : k.old /\ k.key = x.key}}

(* encrypt, for a party that has a sending chain.                          *)
Encrypt(p) ==
  LET s == session[p]
      id == Cardinality(sent) + 1
  IN /\ id <= MaxMsg
     /\ \E c \in s.cks :
          sent' = sent \cup {[id |-> id, from |-> p, opening |-> sent = {},
                              dh |-> s.dhs, pn |-> s.pn, n |-> s.ns,
                              key |-> <<c, s.ns>>]}
     /\ session' = [session EXCEPT ![p].ns = @ + 1]
     /\ UNCHANGED <<keys, reads, expired, weeks>>

(* receive and decrypt.  Without a session only the opening is taken, with *)
(* one only the rest; a block that does not decrypt changes nothing.       *)
Decrypt(p, m) ==
  LET s == session[p]
  IN /\ m.from # p
     /\ m.opening <=> s.dhr = {}
     /\ Decrypts(s, m)
     /\ session' = [session EXCEPT ![p] = Decrypted(s, m)]
     /\ keys' = IF Decrypted(s, m).dhs = keys THEN keys + 1 ELSE keys
     /\ reads' = [reads EXCEPT ![m.id] = @ + 1]
     /\ expired' = expired \cup Stale(s)
     /\ UNCHANGED <<sent, weeks>>

(* The sweep of `unlock`.                                                  *)
ExpireSkippedKeys(p) ==
  /\ \E k \in session[p].skipped : k.old
  /\ session' = [session EXCEPT ![p] = Unexpired(@)]
  /\ expired' = expired \cup Stale(session[p])
  /\ UNCHANGED <<keys, sent, reads, weeks>>

(* More than kSkippedKeyMaxAgeSeconds pass.                                *)
Week ==
  /\ weeks < MaxWeek /\ weeks' = weeks + 1
  /\ session' = [p \in Party |->
       [session[p] EXCEPT !.skipped = {[k EXCEPT !.old = TRUE] : k \in @}]]
  /\ UNCHANGED <<keys, sent, reads, expired>>

Next ==
  \/ \E p \in Party :
       Encrypt(p) \/ ExpireSkippedKeys(p) \/ (\E m \in sent : Decrypt(p, m))
  \/ Week

Spec == Init /\ [][Next]_vars

-----------------------------------------------------------------------------
(* Properties.                                                             *)

(* The message keys a party could still compute from what it stores.       *)
Derivable(s) ==
  {k.key : k \in s.skipped}
    \cup {<<c, i>> : c \in s.cks, i \in s.ns .. MaxMsg}
    \cup {<<c, i>> : c \in s.ckr, i \in s.nr .. MaxMsg}

(* No two blocks are sealed under one message key, in either direction.    *)
KeysUnique == \A a, b \in sent : a.key = b.key => a = b

(* However often a block is pasted, it is decrypted once.                  *)
ReadOnce == \A i \in 1 .. MaxMsg : reads[i] <= 1

(* A block can be read whenever it arrives, in whatever order: only a gap  *)
(* the cache has no room for, or the age of its cached key, stands against *)
(* it (and, before the first block, that it is not the opening).           *)
Readable ==
  \A m \in sent :
    LET s == session[CHOOSE p \in Party : p # m.from]
        l == Unexpired(s)
    IN \/ reads[m.id] > 0
       \/ Decrypts(s, m) /\ (m.opening <=> s.dhr = {})
       \/ m.id \in expired \cup Stale(s)
       \/ m.dh \notin l.dhr /\ TooMany(l, m.pn)
       \/ TooMany(CaughtUp(l, m), m.n)
       \/ s.dhr = {} /\ ~m.opening

(* Forward secrecy of the stored state: neither end can recompute the key  *)
(* of a block it has sent or read, nor of one whose cached key expired.    *)
ForgetsUsedKeys ==
  \A p \in Party, m \in sent :
    (m.from = p \/ reads[m.id] > 0 \/ m.id \in expired)
      => m.key \notin Derivable(session[p])

(* The cache never holds more than kMaxSkip keys, over all chains.         *)
SkippedBounded == \A p \in Party : Cardinality(session[p].skipped) <= MaxSkip
=============================================================================
