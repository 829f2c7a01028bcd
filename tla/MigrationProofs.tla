-------------------------- MODULE MigrationProofs ---------------------------
(***************************************************************************)
(* Theorems about Migration, for any number of faults and containers: the  *)
(* anchor accepts the vault of every directory a power loss may leave, and *)
(* a prepared vault is taken exactly while its legacy vault is what it was *)
(* prepared from.                                                          *)
(***************************************************************************)
EXTENDS Migration, TLAPS

LEMMA ImageFields ==
  ASSUME NEW v \in Image
  PROVE  v.format \in Format /\ v.id \in Nat /\ v.gen \in Nat /\ v.kept \in Nat
         /\ v.digest \in Nat
BY DEF Image

LEMMA FilesFields ==
  ASSUME NEW d \in Files
  PROVE  d.vault \in Image /\ d.prepared \in SUBSET Image /\ d.outbox \in BOOLEAN
BY DEF Files

(* What replacing one entry of a directory gives.                          *)
LEMMA VaultReplaced ==
  ASSUME NEW d \in Files, NEW v \in Image
  PROVE  /\ [d EXCEPT !.vault = v] \in Files
         /\ [d EXCEPT !.vault = v].vault = v
         /\ [d EXCEPT !.vault = v].prepared = d.prepared
BY DEF Files

LEMMA PreparedReplaced ==
  ASSUME NEW d \in Files, NEW s \in SUBSET Image
  PROVE  /\ [d EXCEPT !.prepared = s] \in Files
         /\ [d EXCEPT !.prepared = s].vault = d.vault
         /\ [d EXCEPT !.prepared = s].prepared = s
BY DEF Files

LEMMA PromotedFiles ==
  ASSUME NEW d \in Files, NEW v \in Image
  PROVE  /\ [d EXCEPT !.vault = v, !.prepared = {}] \in Files
         /\ [d EXCEPT !.vault = v, !.prepared = {}].vault = v
         /\ [d EXCEPT !.vault = v, !.prepared = {}].prepared = {}
BY DEF Files

LEMMA OutboxReplaced ==
  ASSUME NEW d \in Files
  PROVE  /\ [d EXCEPT !.outbox = FALSE] \in Files
         /\ [d EXCEPT !.outbox = FALSE].vault = d.vault
         /\ [d EXCEPT !.outbox = FALSE].prepared = d.prepared
BY DEF Files

(* What an older release writes.                                           *)
Resaved(v, k) ==
  [v EXCEPT !.gen = IF v.id = 0 THEN 0 ELSE @ + 1, !.kept = k, !.digest = k]

LEMMA ResavedImage ==
  ASSUME NEW v \in Image, NEW k \in Nat
  PROVE  /\ Resaved(v, k) \in Image
         /\ Resaved(v, k).format = v.format /\ Resaved(v, k).id = v.id
         /\ Resaved(v, k).kept = k
         /\ Resaved(v, k).gen = IF v.id = 0 THEN 0 ELSE v.gen + 1
  <1> DEFINE g == IF v.id = 0 THEN 0 ELSE v.gen + 1
             new == [v EXCEPT !.gen = g, !.kept = k, !.digest = k]
  <1>1. g \in Nat
    BY ImageFields
  <1> HIDE DEF g
  <1>2. /\ new \in Image
        /\ new.format = v.format /\ new.id = v.id /\ new.kept = k /\ new.gen = g
    BY <1>1 DEF Image
  <1>3. Resaved(v, k) = new
    BY DEF Resaved, g
  <1> QED BY <1>2, <1>3 DEF g

LEMMA Typed ==
  ASSUME TypeOK
  PROVE  /\ files \in Files /\ files \in durable /\ durable \subseteq Files
         /\ opened \in Image /\ written \in Image /\ seals \in Nat
         /\ files.vault \in Image /\ files.prepared \in SUBSET Image
         /\ \A a \in anchors : a.id \in Nat /\ a.gen \in Nat /\ a.digest \in Nat
         /\ \A d \in durable : /\ d.vault \in Image
                               /\ \A p \in d.prepared : p \in Image
BY FilesFields DEF TypeOK

-----------------------------------------------------------------------------
(* Types.                                                                  *)

LEMMA TypeInit == Init => TypeOK
BY DEF Init, TypeOK, Files, Image, Format, Labels

LEMMA RecordType ==
  ASSUME NEW v \in Image, anchors \subseteq [id : Nat, gen : Nat, digest : Nat]
  PROVE  /\ (anchors \ Of(v.id)) \cup {Record(v)}
              \subseteq [id : Nat, gen : Nat, digest : Nat]
         /\ Record(v).id = v.id /\ Record(v).gen = v.gen /\ Record(v).digest = v.digest
BY ImageFields DEF Record

LEMMA TypeStep == TypeOK /\ [Next]_vars => TypeOK'
  <1> SUFFICES ASSUME TypeOK, [Next]_vars PROVE TypeOK'
    OBVIOUS
  <1> USE DEF TypeOK, Labels, NoFault, Fault, KeepFiles, KeepAnchors
  <1>0. files.vault \in Image /\ files.prepared \in SUBSET Image
    BY FilesFields
  <1>1. CASE OpenLegacy
    BY <1>0, <1>1, RecordType DEF OpenLegacy, Anchored
  <1>2. CASE Prepare
    <2> DEFINE new == [format |-> "current", gen |-> opened.gen + 1,
                       id |-> IF opened.id = 0 THEN seals + 2 ELSE opened.id,
                       kept |-> opened.kept, digest |-> seals + 1]
    <2>1. new \in Image
      BY ImageFields DEF Image, Format
    <2>2. /\ files' = [files EXCEPT !.prepared = {new}] /\ durable' = durable \cup {files'}
          /\ written' = new
      BY <1>2 DEF Prepare, Rename
    <2> HIDE DEF new
    <2>3. files' \in Files
      BY <1>0, <2>1, <2>2, PreparedReplaced
    <2> QED BY <1>2, <2>1, <2>2, <2>3 DEF Prepare
  <1>3. CASE FlushPrepared
    BY <1>3 DEF FlushPrepared, Flushed, Flush
  <1>4. CASE ReadBack
    BY <1>4 DEF ReadBack
  <1>5. CASE Verify
    BY <1>0, <1>5 DEF Verify
  <1>6. CASE Promote
    <2>1. files' \in Files
      BY <1>0, <1>6, PromotedFiles DEF Promote, Promoted, Rename
    <2> QED BY <1>6, <2>1 DEF Promote, Rename
  <1>7. CASE FlushPromoted
    BY <1>7 DEF FlushPromoted, Flushed, Flush
  <1>8. CASE AnchorPromoted
    BY <1>8, RecordType DEF AnchorPromoted, Anchored
  <1>9. CASE InitForce
    <2> DEFINE new == [format |-> "current", gen |-> 1, id |-> seals + 2,
                       kept |-> seals + 1, digest |-> seals + 1]
    <2>1. new \in Image
      BY DEF Image, Format
    <2>2. /\ files' = [files EXCEPT !.vault = new] /\ durable' = durable \cup {files'}
          /\ written' = new
      BY <1>9 DEF InitForce, Rename
    <2> HIDE DEF new
    <2>3. files' \in Files
      BY <1>0, <2>1, <2>2, VaultReplaced
    <2> QED BY <1>9, <2>1, <2>2, <2>3 DEF InitForce
  <1>10. CASE FlushInit
    BY <1>10 DEF FlushInit, Flushed, Flush
  <1>11. CASE DiscardOutbox
    <2>1. files' \in Files
      BY <1>11, OutboxReplaced DEF DiscardOutbox, Rename
    <2> QED BY <1>11, <2>1 DEF DiscardOutbox, Rename
  <1>12. CASE OlderSave
    <2> DEFINE new == Resaved(files.vault, seals + 1)
    <2>1. new \in Image
      BY <1>0, ResavedImage
    <2>2. /\ files' = [files EXCEPT !.vault = new] /\ durable' = {files'}
          /\ KeepAnchors \/ Anchored(new)
      BY <1>12 DEF OlderSave, Resaved
    <2> HIDE DEF new
    <2>3. files' \in Files
      BY <1>0, <2>1, <2>2, VaultReplaced
    <2>4. anchors' \subseteq [id : Nat, gen : Nat, digest : Nat]
      BY <2>1, <2>2, RecordType DEF Anchored
    <2> QED BY <1>12, <2>2, <2>3, <2>4 DEF OlderSave
  <1>13. CASE DeleteOutbox
    <2>1. files' \in Files
      BY <1>13, OutboxReplaced DEF DeleteOutbox, Rename
    <2> QED BY <1>13, <2>1 DEF DeleteOutbox, Rename
  <1>14. CASE Stop
    BY <1>14 DEF Stop
  <1>15. CASE LosePower
    BY <1>15 DEF LosePower
  <1>16. CASE UNCHANGED vars
    BY <1>16 DEF vars
  <1> QED BY <1>1, <1>2, <1>3, <1>4, <1>5, <1>6, <1>7, <1>8,
            <1>9, <1>10, <1>11, <1>12, <1>13, <1>14, <1>15, <1>16 DEF Next

(* Every variable stays within its type.                                   *)
THEOREM TypeCorrect == Spec => []TypeOK
  <1>1. Init => TypeOK
    BY TypeInit
  <1>2. TypeOK /\ [Next]_vars => TypeOK'
    BY TypeStep
  <1> QED BY <1>1, <1>2, PTL DEF Spec

-----------------------------------------------------------------------------
(* The invariant.                                                          *)

LEMMA Initially == Init => MigrationInv
  <1> SUFFICES ASSUME Init PROVE MigrationInv
    OBVIOUS
  <1>1. TypeOK
    BY TypeInit
  <1>2. PICK id \in {0, 1} : \E outbox \in BOOLEAN :
          /\ files = [vault |-> [format |-> "legacy", id |-> id, gen |-> id,
                                 kept |-> 0, digest |-> 0],
                      prepared |-> {}, outbox |-> outbox]
          /\ anchors \in {{}, {[id |-> 1, gen |-> 1, digest |-> 0]}}
          /\ id = 0 => anchors = {}
    BY DEF Init
  <1>3. /\ durable = {files} /\ seals = 0 /\ pc = "off" /\ files.prepared = {}
        /\ files.vault.id = id /\ files.vault.gen = id /\ files.vault.kept = 0
        /\ files.vault.digest = 0
        /\ \A a \in anchors : id = 1 /\ a.id = 1 /\ a.gen = 1 /\ a.digest = 0
    BY <1>2 DEF Init
  <1> QED BY <1>1, <1>2, <1>3
       DEF MigrationInv, Older, LegacyAlone, AnchorAccepts, PreparedFits, RunKnows, Of, Refused

(* The records after one of them was replaced.                             *)
LEMMA AnchoredRecords ==
  ASSUME NEW v \in Image, Anchored(v)
  PROVE  /\ \A a : a \in anchors' <=> (a \in anchors /\ a.id # v.id) \/ a = Record(v)
         /\ Record(v).id = v.id /\ Record(v).gen = v.gen /\ Record(v).digest = v.digest
BY DEF Anchored, Of, Record

(* The invariant, one directory at a time: d beside the records A, after s *)
(* containers.                                                             *)
OlderDir(d, s) ==
  /\ d.vault.id <= s + 1 /\ d.vault.kept <= s
  /\ \A p \in d.prepared :
       p.id \in 1 .. s + 1 /\ p.kept <= s /\ p.format = "current"

AcceptedDir(d, A) ==
  \A a \in A : a.id = d.vault.id => ~Refused(a, d.vault.gen, d.vault.digest)

FitsDir(d, A) ==
  \A p \in d.prepared :
    IF d.vault.format = "legacy"
    THEN /\ d.vault.id = 0 => p.gen > d.vault.gen /\ \A a \in A : a.id # p.id
         /\ d.vault.id # 0 =>
              /\ p.id = d.vault.id
              /\ \/ p.gen = d.vault.gen + 1 /\ p.kept = d.vault.kept
                 \/ p.gen <= d.vault.gen /\ p.kept # d.vault.kept
    ELSE p.kept # d.vault.kept

DirOk(d, A, s) == OlderDir(d, s) /\ AcceptedDir(d, A) /\ FitsDir(d, A)

DirsOk ==
  /\ TypeOK /\ LegacyAlone /\ RunKnows
  /\ \A a \in anchors : a.id \in 1 .. seals + 1
  /\ \A d \in durable : DirOk(d, anchors, seals)

LEMMA DirsNow == MigrationInv <=> DirsOk
  <1>1. AnchorAccepts <=> \A d \in durable : AcceptedDir(d, anchors)
    BY DEF AnchorAccepts, AcceptedDir, Of
  <1>2. \A id : Of(id) = {} <=> \A a \in anchors : a.id # id
    BY DEF Of
  <1>3. PreparedFits <=> \A d \in durable : FitsDir(d, anchors)
    BY <1>2 DEF PreparedFits, FitsDir
  <1>4. Older <=> /\ \A a \in anchors : a.id \in 1 .. seals + 1
                  /\ \A d \in durable : OlderDir(d, seals)
    BY DEF Older, OlderDir
  <1> QED BY <1>1, <1>3, <1>4 DEF MigrationInv, DirOk, DirsOk

LEMMA DirsNext ==
  MigrationInv' <=>
    /\ TypeOK' /\ LegacyAlone' /\ RunKnows'
    /\ \A a \in anchors' : a.id \in 1 .. seals' + 1
    /\ \A d \in durable' : DirOk(d, anchors', seals')
  <1>1. MigrationInv' <=> DirsOk'
    BY DirsNow, PTL
  <1> QED BY <1>1 DEF DirsOk

LEMMA Grow ==
  ASSUME NEW d \in Files, NEW A, NEW s \in Nat, NEW t \in Nat, s <= t, DirOk(d, A, s)
  PROVE  DirOk(d, A, t)
  <1>1. d.vault.id \in Nat /\ d.vault.kept \in Nat
        /\ \A p \in d.prepared : p.id \in Nat /\ p.kept \in Nat
    BY FilesFields, ImageFields
  <1> QED BY <1>1 DEF DirOk, OlderDir

(* A step that leaves the records alone adds at most one directory.        *)
LEMMA Keeps ==
  ASSUME MigrationInv, TypeOK', UNCHANGED anchors, seals <= seals',
         durable' \subseteq durable \cup {files'},
         files' \in durable \/ DirOk(files', anchors, seals'),
         LegacyAlone', RunKnows'
  PROVE  MigrationInv'
  <1>1. seals \in Nat /\ seals' \in Nat /\ durable \subseteq Files
    BY DirsNow DEF DirsOk, TypeOK
  <1>2. \A a \in anchors : a.id \in 1 .. seals' + 1
    BY <1>1, DirsNow DEF DirsOk
  <1>3. \A d \in durable : DirOk(d, anchors, seals')
    BY <1>1, DirsNow, Grow DEF DirsOk
  <1> QED BY <1>2, <1>3, DirsNext

LEMMA Step == MigrationInv /\ [Next]_vars => MigrationInv'
  <1> SUFFICES ASSUME MigrationInv, [Next]_vars PROVE MigrationInv'
    OBVIOUS
  <1>0. TypeOK /\ TypeOK' /\ Older /\ LegacyAlone /\ RunKnows
        /\ DirOk(files, anchors, seals) /\ \A d \in durable : DirOk(d, anchors, seals)
        /\ \A a \in anchors : a.id \in 1 .. seals + 1
    BY TypeStep, DirsNow, Typed DEF MigrationInv, DirsOk
  <1>T. /\ files \in Files /\ files \in durable /\ durable \subseteq Files
        /\ opened \in Image /\ written \in Image /\ seals \in Nat
        /\ files.vault \in Image /\ files.prepared \in SUBSET Image
        /\ \A a \in anchors : a.id \in Nat /\ a.gen \in Nat /\ a.digest \in Nat
        /\ \A d \in durable : /\ d.vault \in Image
                              /\ \A p \in d.prepared : p \in Image
    BY <1>0, Typed
  <1> USE DEF NoFault, Fault, KeepFiles, KeepAnchors
  <1>1. CASE OpenLegacy
    <2>1. UNCHANGED <<files, durable, seals, written>> /\ pc' = "opened" /\ opened' = files.vault
      BY <1>1 DEF OpenLegacy
    <2>2. files.vault.format = "legacy" /\ \A d \in durable : d.vault = files.vault
      BY <1>0, <1>1 DEF OpenLegacy, LegacyAlone
    <2>3. LegacyAlone' /\ RunKnows'
      BY <2>1, <2>2 DEF LegacyAlone, RunKnows
    <2>4. CASE UNCHANGED anchors
      BY <1>0, <1>T, <2>1, <2>3, <2>4, Keeps
    <2>5. CASE Of(files.vault.id) # {} /\ Anchored(files.vault)
      <3> DEFINE v == files.vault
      <3>1. PICK b \in anchors : b.id = v.id
        BY <2>5 DEF Of
      <3>2. \A a \in anchors' : \/ a \in anchors
                                \/ a = Record(v) /\ a.id = v.id
        BY <1>T, <2>5, AnchoredRecords
      <3>3. \A a \in anchors' : \E x \in anchors : x.id = a.id
        BY <3>1, <3>2
      <3>4. \A a \in anchors' : a.id \in 1 .. seals' + 1
        BY <1>0, <1>T, <2>1, <3>3
      <3>5. ASSUME NEW d \in durable' PROVE DirOk(d, anchors', seals')
        <4>1. d.vault = v /\ DirOk(d, anchors, seals) /\ d \in durable
          BY <1>0, <2>1, <2>2
        <4>2. AcceptedDir(d, anchors')
          BY <1>T, <2>5, <4>1, AnchoredRecords, ImageFields DEF AcceptedDir, Refused
        <4>3. FitsDir(d, anchors')
          BY <3>3, <4>1 DEF DirOk, FitsDir
        <4> QED BY <2>1, <4>1, <4>2, <4>3 DEF DirOk
      <3> QED BY <1>0, <2>3, <3>4, <3>5, DirsNext
    <2> QED BY <1>1, <2>4, <2>5 DEF OpenLegacy
  <1>2. CASE Prepare
    <2> DEFINE new == [format |-> "current", gen |-> opened.gen + 1,
                       id |-> IF opened.id = 0 THEN seals + 2 ELSE opened.id,
                       kept |-> opened.kept, digest |-> seals + 1]
    <2>1. /\ files' = [files EXCEPT !.prepared = {new}] /\ durable' = durable \cup {files'}
          /\ pc' = "prepared" /\ seals' = seals + 1 /\ UNCHANGED anchors
          /\ files.prepared = {}
      BY <1>2 DEF Prepare, Rename
    <2>2. opened = files.vault /\ opened.format = "legacy"
      BY <1>0, <1>2 DEF Prepare, RunKnows
    <2>3. /\ new \in Image /\ new.format = "current" /\ new.gen = opened.gen + 1
          /\ new.id = (IF opened.id = 0 THEN seals + 2 ELSE opened.id)
          /\ new.kept = opened.kept
      BY <1>T, ImageFields DEF Image, Format
    <2> HIDE DEF new
    <2>4. files'.vault = files.vault /\ files'.prepared = {new}
      BY <1>T, <2>1, <2>3, PreparedReplaced
    <2>5. LegacyAlone' /\ RunKnows'
      BY <1>0, <1>T, <2>1, <2>4 DEF LegacyAlone, RunKnows
    <2>6. OlderDir(files', seals')
      BY <1>0, <1>T, <2>1, <2>2, <2>3, <2>4, ImageFields DEF DirOk, OlderDir
    <2>7. AcceptedDir(files', anchors)
      BY <1>0, <2>4 DEF DirOk, AcceptedDir
    <2>8. FitsDir(files', anchors)
      <3>1. \A a \in anchors : a.id # seals + 2
        BY <1>0, <1>T
      <3> QED BY <2>2, <2>3, <2>4, <3>1, <1>T, ImageFields DEF FitsDir
    <2> QED BY <1>0, <1>T, <2>1, <2>5, <2>6, <2>7, <2>8, Keeps DEF DirOk
  <1>3. CASE FlushPrepared
    <2>1. /\ files' \in durable /\ durable' \subseteq durable \cup {files'}
          /\ UNCHANGED <<anchors, seals>>
      BY <1>0, <1>T, <1>3 DEF FlushPrepared, Flushed, Flush
    <2>2. LegacyAlone' /\ RunKnows'
      BY <1>0, <1>T, <1>3 DEF FlushPrepared, Flushed, Flush, LegacyAlone, RunKnows
    <2> QED BY <1>0, <1>T, <2>1, <2>2, Keeps
  <1>4. CASE ReadBack
    <2>1. /\ files' \in durable /\ durable' \subseteq durable \cup {files'}
          /\ UNCHANGED <<anchors, seals>>
      BY <1>0, <1>T, <1>4 DEF ReadBack, Flushed, Flush
    <2>2. LegacyAlone' /\ RunKnows'
      BY <1>0, <1>T, <1>4 DEF ReadBack, Flushed, Flush, LegacyAlone, RunKnows
    <2> QED BY <1>0, <1>T, <2>1, <2>2, Keeps
  <1>5. CASE Verify
    <2>1. /\ files' \in durable /\ durable' \subseteq durable \cup {files'}
          /\ UNCHANGED <<anchors, seals>>
      BY <1>0, <1>T, <1>5 DEF Verify, Flushed, Flush
    <2>2. LegacyAlone' /\ RunKnows'
      BY <1>0, <1>T, <1>5 DEF Verify, Flushed, Flush, LegacyAlone, RunKnows
    <2> QED BY <1>0, <1>T, <2>1, <2>2, Keeps
  <1>6. CASE Promote
    <2>1. /\ files' = [files EXCEPT !.vault = written, !.prepared = {}]
          /\ durable' = durable \cup {files'}
          /\ pc' = "promoted" /\ UNCHANGED <<anchors, seals, written, opened>>
      BY <1>6 DEF Promote, Rename, Promoted
    <2>2. files'.vault = written /\ files'.prepared = {}
      BY <1>T, <2>1, PromotedFiles
    <2>3. opened = files.vault /\ Accepts(opened, written) /\ written \in files.prepared
      BY <1>0, <1>6 DEF Promote, RunKnows
    <2>4. written.id # 0
      BY <1>0, <1>T, <2>3, ImageFields DEF DirOk, OlderDir
    <2>5. LegacyAlone' /\ RunKnows'
      BY <2>1, <2>2, <2>3, <2>4 DEF LegacyAlone, RunKnows, Accepts
    <2>6. OlderDir(files', seals) /\ FitsDir(files', anchors)
      BY <1>0, <2>2, <2>3 DEF DirOk, OlderDir, FitsDir
    <2>7. AcceptedDir(files', anchors)
      <3> SUFFICES ASSUME NEW a \in anchors, a.id = written.id
                   PROVE  ~Refused(a, written.gen, written.digest)
        BY <2>2 DEF AcceptedDir
      <3>1. files.vault.id # 0 /\ a.id = files.vault.id
        BY <1>0, <2>3 DEF Accepts, DirOk, FitsDir
      <3>2. ~Refused(a, files.vault.gen, files.vault.digest)
        BY <1>0, <3>1 DEF DirOk, AcceptedDir
      <3>3. a.gen <= files.vault.gen /\ files.vault.gen < written.gen
        BY <1>T, <2>3, <3>2, ImageFields DEF Accepts, Refused
      <3> QED BY <1>T, <3>3, ImageFields DEF Refused
    <2> QED BY <1>0, <1>T, <2>1, <2>5, <2>6, <2>7, Keeps DEF DirOk
  <1>7. CASE FlushPromoted
    <2>1. /\ files' \in durable /\ durable' \subseteq durable \cup {files'}
          /\ UNCHANGED <<anchors, seals>>
      BY <1>0, <1>T, <1>7 DEF FlushPromoted, Flushed, Flush
    <2>2. LegacyAlone' /\ RunKnows'
      BY <1>0, <1>T, <1>7 DEF FlushPromoted, Flushed, Flush, LegacyAlone, RunKnows
    <2> QED BY <1>0, <1>T, <2>1, <2>2, Keeps
  <1>8. CASE AnchorPromoted
    <2>1. /\ UNCHANGED <<files, durable, seals, written, opened>> /\ pc' = "off"
          /\ UNCHANGED anchors \/ Anchored(written)
      BY <1>8 DEF AnchorPromoted
    <2>2. \A d \in durable : d.vault = written /\ d.prepared = {}
      BY <1>0, <1>8 DEF AnchorPromoted, RunKnows
    <2>3. LegacyAlone' /\ RunKnows'
      BY <1>0, <2>1 DEF LegacyAlone, RunKnows
    <2>4. CASE UNCHANGED anchors
      BY <1>0, <1>T, <2>1, <2>3, <2>4, Keeps
    <2>5. CASE Anchored(written)
      <3>1. \A a \in anchors' : \/ a \in anchors /\ a.id # written.id
                                \/ a = Record(written)
        BY <1>T, <2>5, AnchoredRecords
      <3>2. /\ Record(written).id = written.id /\ Record(written).gen = written.gen
            /\ Record(written).digest = written.digest
        BY DEF Record
      <3>3. written.id \in 1 .. seals + 1
        <4>1. written.id # 0 /\ written = files.vault /\ written.id \in Nat
          BY <1>0, <1>T, <1>8, <2>2, ImageFields DEF RunKnows, AnchorPromoted
        <4> QED BY <1>0, <1>T, <4>1 DEF DirOk, OlderDir
      <3>4. \A a \in anchors' : a.id \in 1 .. seals' + 1
        BY <1>0, <1>T, <2>1, <3>1, <3>2, <3>3
      <3>5. ASSUME NEW d \in durable' PROVE DirOk(d, anchors', seals')
        <4>1. d.vault = written /\ d.prepared = {} /\ DirOk(d, anchors, seals)
          BY <1>0, <2>1, <2>2
        <4>2. AcceptedDir(d, anchors')
          BY <1>T, <3>1, <3>2, <4>1, ImageFields DEF AcceptedDir, Refused
        <4> QED BY <2>1, <4>1, <4>2 DEF DirOk, FitsDir
      <3> QED BY <1>0, <2>3, <3>4, <3>5, DirsNext
    <2> QED BY <2>1, <2>4, <2>5
  <1>9. CASE InitForce
    <2> DEFINE new == [format |-> "current", gen |-> 1, id |-> seals + 2,
                       kept |-> seals + 1, digest |-> seals + 1]
    <2>1. /\ files' = [files EXCEPT !.vault = new] /\ durable' = durable \cup {files'}
          /\ pc' = "init" /\ seals' = seals + 1 /\ UNCHANGED anchors
      BY <1>9 DEF InitForce, Rename
    <2>2. /\ new \in Image /\ new.format = "current" /\ new.id = seals + 2
          /\ new.kept = seals + 1
      BY <1>T DEF Image, Format
    <2> HIDE DEF new
    <2>3. files'.vault = new /\ files'.prepared = files.prepared
      BY <1>T, <2>1, <2>2, VaultReplaced
    <2>4. LegacyAlone' /\ RunKnows'
      BY <2>1, <2>2, <2>3 DEF LegacyAlone, RunKnows
    <2>5. \A p \in files.prepared : p.id \in Nat /\ p.kept \in Nat
      BY <1>T, ImageFields
    <2>6. OlderDir(files', seals') /\ FitsDir(files', anchors)
      BY <1>0, <1>T, <2>1, <2>2, <2>3, <2>5 DEF DirOk, OlderDir, FitsDir
    <2>7. AcceptedDir(files', anchors)
      BY <1>0, <1>T, <2>2, <2>3 DEF AcceptedDir
    <2> QED BY <1>0, <1>T, <2>1, <2>4, <2>6, <2>7, Keeps DEF DirOk
  <1>10. CASE FlushInit
    <2>1. /\ files' \in durable /\ durable' \subseteq durable \cup {files'}
          /\ UNCHANGED <<anchors, seals>>
      BY <1>0, <1>T, <1>10 DEF FlushInit, Flushed, Flush
    <2>2. LegacyAlone' /\ RunKnows'
      BY <1>0, <1>T, <1>10 DEF FlushInit, Flushed, Flush, LegacyAlone, RunKnows
    <2> QED BY <1>0, <1>T, <2>1, <2>2, Keeps
  <1>11. CASE DiscardOutbox
    <2>1. /\ files' = [files EXCEPT !.outbox = FALSE] /\ durable' = durable \cup {files'}
          /\ pc' = "off" /\ UNCHANGED <<anchors, seals, written, opened>>
      BY <1>11 DEF DiscardOutbox, Rename
    <2>2. files'.vault = files.vault /\ files'.prepared = files.prepared
      BY <1>T, <2>1, OutboxReplaced
    <2>3. DirOk(files', anchors, seals')
      BY <1>0, <2>1, <2>2 DEF DirOk, OlderDir, AcceptedDir, FitsDir
    <2>4. LegacyAlone' /\ RunKnows'
      BY <1>0, <2>1, <2>2 DEF LegacyAlone, RunKnows
    <2> QED BY <1>0, <1>T, <2>1, <2>3, <2>4, Keeps
  <1>12. CASE OlderSave
    <2> DEFINE v == files.vault
               new == Resaved(v, seals + 1)
    <2>1. /\ files' = [files EXCEPT !.vault = new] /\ durable' = {files'}
          /\ v.format = "legacy" /\ pc = "off" /\ pc' = "off" /\ seals' = seals + 1
          /\ \/ UNCHANGED anchors
             \/ Of(v.id) # {} /\ Anchored(new)
      BY <1>12 DEF OlderSave, Resaved
    <2>2. /\ new \in Image /\ new.format = v.format /\ new.id = v.id
          /\ new.kept = seals + 1 /\ new.gen = IF v.id = 0 THEN 0 ELSE v.gen + 1
      BY <1>T, ResavedImage
    <2> HIDE DEF new
    <2>3. files'.vault = new /\ files'.prepared = files.prepared
      BY <1>T, <2>1, <2>2, VaultReplaced
    <2>4. LegacyAlone' /\ RunKnows'
      BY <2>1 DEF LegacyAlone, RunKnows
    <2>5. \A a \in anchors' : \E x \in anchors : x.id = a.id
      BY <2>1, <2>2, AnchoredRecords DEF Of
    <2>6. \A a \in anchors' : a.id \in 1 .. seals' + 1
      BY <1>0, <1>T, <2>1, <2>5
    <2>7. OlderDir(files', seals')
      <3>1. v.id \in Nat /\ \A p \in files.prepared : p.id \in Nat /\ p.kept \in Nat
        BY <1>T, ImageFields
      <3> QED BY <1>0, <1>T, <2>1, <2>2, <2>3, <3>1 DEF DirOk, OlderDir
    <2>8. FitsDir(files', anchors')
      <3> SUFFICES ASSUME NEW p \in files.prepared
                   PROVE  /\ v.id = 0 => p.gen > new.gen /\ \A a \in anchors' : a.id # p.id
                          /\ v.id # 0 => /\ p.id = v.id
                                         /\ p.gen <= new.gen /\ p.kept # new.kept
        BY <2>1, <2>2, <2>3 DEF FitsDir
      <3>1. p.gen \in Nat /\ p.kept \in Nat /\ v.gen \in Nat /\ v.kept \in Nat
        BY <1>T, ImageFields
      <3>2. p.kept <= seals /\ v.kept <= seals
        BY <1>0 DEF DirOk, OlderDir
      <3>3. /\ v.id = 0 => p.gen > v.gen /\ \A a \in anchors : a.id # p.id
            /\ v.id # 0 => p.id = v.id /\ p.gen <= v.gen + 1
        BY <1>0, <2>1, <3>1 DEF DirOk, FitsDir
      <3> QED BY <1>T, <2>2, <2>5, <3>1, <3>2, <3>3
    <2>9. AcceptedDir(files', anchors')
      <3> SUFFICES ASSUME NEW a \in anchors', a.id = v.id
                   PROVE  ~Refused(a, new.gen, new.digest)
        BY <2>2, <2>3 DEF AcceptedDir
      <3>1. CASE a \in anchors
        <4>1. ~Refused(a, v.gen, v.digest)
          BY <1>0, <3>1 DEF DirOk, AcceptedDir
        <4>2. v.id # 0
          BY <1>0, <1>T, <3>1
        <4> QED BY <1>T, <2>2, <3>1, <4>1, <4>2, ImageFields DEF Refused
      <3>2. CASE a = Record(new)
        BY <2>2, <3>2, ImageFields DEF Record, Refused
      <3> QED BY <2>1, <2>2, <3>1, <3>2, AnchoredRecords
    <2> QED BY <1>0, <2>1, <2>4, <2>6, <2>7, <2>8, <2>9, DirsNext DEF DirOk
  <1>13. CASE DeleteOutbox
    <2>1. /\ files' = [files EXCEPT !.outbox = FALSE] /\ durable' = durable \cup {files'}
          /\ UNCHANGED <<anchors, seals, pc, written, opened>>
      BY <1>13 DEF DeleteOutbox, Rename
    <2>2. files'.vault = files.vault /\ files'.prepared = files.prepared
      BY <1>T, <2>1, OutboxReplaced
    <2>3. DirOk(files', anchors, seals')
      BY <1>0, <2>1, <2>2 DEF DirOk, OlderDir, AcceptedDir, FitsDir
    <2>4. LegacyAlone'
      BY <1>0, <2>1, <2>2 DEF LegacyAlone
    <2>5. RunKnows'
      BY <1>0, <1>T, <2>1, <2>2 DEF RunKnows
    <2> QED BY <1>0, <1>T, <2>1, <2>3, <2>4, <2>5, Keeps
  <1>14. CASE Stop
    <2>1. /\ files' \in durable /\ durable' \subseteq durable \cup {files'}
          /\ UNCHANGED <<anchors, seals>>
      BY <1>0, <1>T, <1>14 DEF Stop, Flushed, Flush
    <2>2. LegacyAlone' /\ RunKnows'
      BY <1>0, <1>T, <1>14 DEF Stop, Flushed, Flush, LegacyAlone, RunKnows
    <2> QED BY <1>0, <1>T, <2>1, <2>2, Keeps
  <1>15. CASE LosePower
    <2>1. /\ files' \in durable /\ durable' \subseteq durable \cup {files'}
          /\ UNCHANGED <<anchors, seals>>
      BY <1>0, <1>T, <1>15 DEF LosePower, Flushed, Flush
    <2>2. LegacyAlone' /\ RunKnows'
      BY <1>0, <1>T, <1>15 DEF LosePower, Flushed, Flush, LegacyAlone, RunKnows
    <2> QED BY <1>0, <1>T, <2>1, <2>2, Keeps
  <1>16. CASE UNCHANGED vars
    BY <1>0, <1>16 DEF vars, MigrationInv, TypeOK, Older, LegacyAlone, AnchorAccepts,
                       PreparedFits, RunKnows, Of
  <1> QED BY <1>1, <1>2, <1>3, <1>4, <1>5, <1>6, <1>7, <1>8,
            <1>9, <1>10, <1>11, <1>12, <1>13, <1>14, <1>15, <1>16 DEF Next

LEMMA Invariance == Spec => []MigrationInv
  <1> QED BY Initially, Step, PTL DEF Spec

(* Wherever a migration, an init or an older save is interrupted, the      *)
(* anchor accepts the vault that is left, and a prepared vault is one the  *)
(* commit takes (commands.cpp, cmd_migrate).                               *)
THEOREM AlwaysAWayOn == Spec => []NeverLockedOut
  <1>1. MigrationInv => NeverLockedOut
    <2> SUFFICES ASSUME MigrationInv PROVE NeverLockedOut
      OBVIOUS
    <2>1. AnchorAccepts
      BY DEF MigrationInv
    <2>2. ASSUME NEW d \in durable, NEW p \in d.prepared, p.kept = d.vault.kept
          PROVE  Accepts(d.vault, p)
      <3>1. p.format = "current" /\ d.vault \in Image
        BY Typed DEF MigrationInv, Older
      <3>2. d.vault.format = "legacy"
        BY <2>2 DEF MigrationInv, PreparedFits
      <3>3. d.vault.gen \in Nat
        BY <3>1, ImageFields
      <3> QED BY <2>2, <3>1, <3>2, <3>3 DEF MigrationInv, PreparedFits, Accepts
    <2> QED BY <2>1, <2>2 DEF NeverLockedOut, AnchorAccepts
  <1> QED BY <1>1, Invariance, PTL

(* The rename that ends a migration replaces a legacy vault only by a copy *)
(* of what it holds: one saved since is ahead in its generation            *)
(* (commands.cpp, cmd_migrate).                                            *)
THEOREM NothingLost == Spec => NothingLeftBehind
  <1>1. MigrationInv /\ [Next]_vars
          => [Promote /\ files.vault.id # 0
                => files'.vault.kept = files.vault.kept]_vars
    <2> SUFFICES ASSUME MigrationInv, Promote, files.vault.id # 0
                 PROVE  files'.vault.kept = files.vault.kept
      OBVIOUS
    <2>1. files'.vault = written
      BY Typed, PromotedFiles DEF MigrationInv, Promote, Promoted, Rename
    <2>2. Accepts(files.vault, written) /\ written \in files.prepared
      BY DEF MigrationInv, RunKnows, Promote
    <2>3. files.vault.gen \in Nat /\ written.gen \in Nat /\ files \in durable
      BY Typed, ImageFields DEF MigrationInv
    <2> QED BY <2>1, <2>2, <2>3 DEF MigrationInv, PreparedFits, Accepts
  <1> QED BY <1>1, Invariance, PTL DEF Spec, NothingLeftBehind
=============================================================================
