----------------------------- MODULE VaultProofs ----------------------------
(***************************************************************************)
(* Theorems about Vault for every set of processes and every bound.        *)
(***************************************************************************)
EXTENDS Vault, TLAPS

(* The definitions that only rename an expression.                         *)
USE DEF Goto, Step, KeepFiles, NoFault, World, Procs, LockFree, NoPendingOutbox,
        OutboxFor, AfterEncrypt, Chained, SaveDidNotHappen, ShownFirst

-----------------------------------------------------------------------------
(* Type correctness.                                                       *)

LEMMA SealType ==
  ASSUME NEW s \in Store, NEW d \in Nat
  PROVE  SealOf(s, d) \in Image
BY DEF SealOf, Store, Image

LEMMA StoreType ==
  ASSUME NEW v \in Image
  PROVE  StoreOf(v) \in Store
BY DEF StoreOf, Store, Image

LEMMA SendType ==
  ASSUME NEW s \in Store, NEW n \in Nat, NEW S \in SUBSET Block
  PROVE  [s EXCEPT !.step = n, !.sent = S] \in Store
BY DEF Store

LEMMA SaveType ==
  ASSUME NEW s \in Store, NEW d \in Nat, NEW g \in Nat
  PROVE  [s EXCEPT !.prev = d, !.gen = g] \in Store
BY DEF Store

LEMMA RekeyType ==
  ASSUME NEW v \in Image, NEW g \in Nat, NEW k \in Nat
  PROVE  [v EXCEPT !.gen = g, !.key = k] \in Image
BY DEF Image

LEMMA CloseType ==
  ASSUME TypeOK, NEW p \in Procs, Close(p)
  PROVE  /\ IsOption(lock', Procs)
         /\ pc' \in [Procs -> Labels] /\ cmd' \in [Procs -> Commands]
         /\ mem' \in [Procs -> Store]
         /\ found' \in [Procs -> SUBSET Anchor]
         /\ held' \in [Procs -> SUBSET Outbox]
  <1>1. NoStore \in Store
    BY DEF NoStore, Store
  <1> QED BY <1>1 DEF TypeOK, Close, IsOption, Labels, Commands

LEMMA FinishType ==
  ASSUME TypeOK, NEW p \in Procs, Finish(p)
  PROVE  /\ IsOption(lock', Procs)
         /\ pc' \in [Procs -> Labels] /\ cmd' \in [Procs -> Commands]
         /\ mem' \in [Procs -> Store]
         /\ found' \in [Procs -> SUBSET Anchor]
         /\ held' \in [Procs -> SUBSET Outbox]
  <1>1. CASE p \in Cli
    BY <1>1, CloseType DEF Finish
  <1>2. CASE p \notin Cli
    BY <1>2 DEF TypeOK, Finish, Labels, Commands
  <1> QED BY <1>1, <1>2

LEMMA ChangeType ==
  ASSUME TypeOK, NEW f \in Files, Change(f)
  PROVE  files' \in Files /\ durable' \subseteq Files /\ files' \in durable'
BY DEF TypeOK, Change

(* A card either ends at once or goes on to save the prekeys it drew.      *)
LEMMA CardMoves ==
  ASSUME TypeOK, NEW p \in Procs, Card(p)
  PROVE  /\ pc[p] = "open" /\ published' \subseteq Nat /\ draws' \in Nat
         /\ UNCHANGED <<files, durable, anchor, printed, deleted, shown, seals,
                        blocks, faults>>
         /\ \/ Finish(p)
            \/ /\ files.outbox = {}
               /\ pc' = [pc EXCEPT ![p] = "save"] /\ cmd' = [cmd EXCEPT ![p] = "card"]
               /\ \E S \in SUBSET Nat :
                    mem' = [mem EXCEPT ![p] = [mem[p] EXCEPT !.prekeys = S]]
               /\ UNCHANGED <<lock, found, held>>
  <1>1. mem[p] \in Store /\ mem[p].prekeys \in SUBSET Nat /\ draws \in Nat
    BY DEF TypeOK, Store
  <1>2. /\ pc[p] = "open"
        /\ UNCHANGED <<files, durable, anchor, printed, deleted, shown, seals,
                       blocks, faults>>
    BY DEF Card, Begins
  <1>3. CASE Draw(p) /\ published' = published \cup Published(p)
    <2>1. mem' = [mem EXCEPT ![p] = [mem[p] EXCEPT !.prekeys = @ \cup {draws + 1}]]
      BY <1>3, Zenon DEF Draw
    <2>2. mem[p].prekeys \cup {draws + 1} \in SUBSET Nat /\ draws' \in Nat
      BY <1>1, <1>3 DEF Draw
    <2>3. mem'[p].prekeys \in SUBSET Nat
      BY <2>1, <2>2, <1>1 DEF TypeOK, Store
    <2>4. published' \subseteq Nat
      BY <1>3, <2>3 DEF Published, TypeOK
    <2>5. \E S \in SUBSET Nat :
            mem' = [mem EXCEPT ![p] = [mem[p] EXCEPT !.prekeys = S]]
      BY <2>1, <2>2
    <2> QED BY <1>2, <1>3, <2>2, <2>4, <2>5 DEF Draw
  <1>4. CASE /\ published' = published \cup mem[p].prekeys
             /\ Finish(p) /\ UNCHANGED draws
    BY <1>1, <1>2, <1>4 DEF TypeOK
  <1> QED BY <1>3, <1>4 DEF Card

LEMMA DrawType ==
  ASSUME NEW s \in Store, NEW S \in SUBSET Nat
  PROVE  /\ [s EXCEPT !.prekeys = S] \in Store
         /\ [s EXCEPT !.prekeys = S].sent = s.sent
         /\ [s EXCEPT !.prekeys = S].step = s.step
         /\ [s EXCEPT !.prekeys = S].gen = s.gen
         /\ [s EXCEPT !.prekeys = S].key = s.key
BY DEF Store

(* What drawing prekeys leaves of the store.                               *)
LEMMA DrawKeeps ==
  ASSUME TypeOK, NEW p \in Procs, NEW S \in SUBSET Nat,
         mem' = [mem EXCEPT ![p] = [mem[p] EXCEPT !.prekeys = S]]
  PROVE  /\ mem' \in [Procs -> Store]
         /\ mem'[p].sent = mem[p].sent /\ mem'[p].step = mem[p].step
         /\ mem'[p].gen = mem[p].gen /\ mem'[p].key = mem[p].key
  <1>1. mem[p] \in Store
    BY DEF TypeOK
  <1> QED BY <1>1, DrawType DEF TypeOK

LEMMA TypeInit == Init => TypeOK
  <1> SUFFICES ASSUME Init PROVE TypeOK
    OBVIOUS
  <1>1. files \in Files
    BY DEF Init, Files, Image, Outbox
  <1>2. NoStore \in Store
    BY DEF NoStore, Store
  <1>3. IsOption(anchor, Anchor)
    BY DEF Init, IsOption, Anchor
  <1> QED BY <1>1, <1>2, <1>3 DEF Init, TypeOK, IsOption, Labels, Commands


(* Every action, one at a time.                                            *)
LEMMA TypeStep == TypeOK /\ [Next]_vars => TypeOK'
  <1> SUFFICES ASSUME TypeOK, [Next]_vars PROVE TypeOK'
    OBVIOUS
  <1> USE DEF Fault, Flush
  <1>1. files.vault \in Image /\ files.outbox \in SUBSET Outbox
    BY DEF TypeOK, Files
  <1>2. \A p \in Procs : mem[p].gen \in Nat /\ mem[p].prev \in Nat
                         /\ mem[p].step \in Nat /\ mem[p].sent \in SUBSET Block
    BY DEF TypeOK, Store
  <1>a. ASSUME NEW g \in Nat, NEW d \in Nat
        PROVE  IsOption({[gen |-> g, digest |-> d]}, Anchor)
    BY DEF IsOption, Anchor
  <1>b. files.vault.digest \in Nat /\ files.vault.gen \in Nat
    BY <1>1 DEF Image
  <1>3. ASSUME NEW p \in Procs, ReadOutbox(p) PROVE TypeOK'
    BY <1>1, <1>3 DEF TypeOK, ReadOutbox, Labels, Commands
  <1>4. ASSUME NEW p \in Procs, NEW c \in Commands, Open(p, c) PROVE TypeOK'
    <2>1. StoreOf(files.vault) \in Store
      BY <1>1, StoreType
    <2>2. IsOption(anchor', Anchor) /\ faults' \in Nat
      <3>1. \/ UNCHANGED anchor
            \/ anchor' = {[gen |-> files.vault.gen, digest |-> files.vault.digest]}
        BY <1>4, Zenon DEF Open
      <3>2. UNCHANGED faults \/ Fault
        BY <1>4, Zenon DEF Open, Lookup
      <3>3. IsOption(anchor', Anchor)
        BY <3>1, <1>a, <1>b DEF TypeOK
      <3>4. faults' \in Nat
        BY <3>2 DEF TypeOK
      <3> QED BY <3>3, <3>4
    <2>3. /\ IsOption(lock', Procs)
          /\ pc' \in [Procs -> Labels] /\ cmd' \in [Procs -> Commands]
          /\ mem' \in [Procs -> Store]
          /\ found' \in [Procs -> SUBSET Anchor]
          /\ held' \in [Procs -> SUBSET Outbox]
      <3>1. CASE Close(p)
        BY <3>1, CloseType
      <3>2. CASE /\ pc' = [pc EXCEPT ![p] = "open"]
                 /\ cmd' = [cmd EXCEPT ![p] = c]
                 /\ mem' = [mem EXCEPT ![p] = StoreOf(files.vault)]
                 /\ lock' = {p}
                 /\ UNCHANGED <<found, held>>
        BY <3>2, <2>1 DEF TypeOK, IsOption, Labels
      <3> QED BY <1>4, <3>1, <3>2 DEF Open
    <2> QED BY <1>4, <2>2, <2>3 DEF Open, TypeOK
  <1>5. ASSUME NEW p \in Procs, Enroll(p) PROVE TypeOK'
    <2>1. IsOption(anchor', Anchor) /\ faults' \in Nat
      <3>1. \/ UNCHANGED anchor
            \/ anchor' = {[gen |-> mem[p].gen, digest |-> files.vault.digest]}
        BY <1>5 DEF Enroll
      <3>2. faults' \in Nat
        BY <1>5 DEF Enroll, TypeOK
      <3>3. IsOption(anchor', Anchor)
        BY <3>1, <1>a, <1>b, <1>2 DEF TypeOK
      <3> QED BY <3>2, <3>3
    <2> QED BY <1>5, <2>1, CloseType DEF Enroll, TypeOK
  <1>6. ASSUME NEW p \in Procs, Leave(p) PROVE TypeOK'
    BY <1>6, CloseType DEF Leave, TypeOK
  <1>7. ASSUME NEW p \in Procs, Encrypt(p) PROVE TypeOK'
    <2> DEFINE b == [id |-> blocks, step |-> mem[p].step + 1]
    <2>1. b \in Block
      BY <1>2 DEF TypeOK, Block
    <2>2. [mem[p] EXCEPT !.step = @ + 1, !.sent = @ \cup {b}] \in Store
      <3>1. mem[p].step + 1 \in Nat /\ mem[p].sent \cup {b} \in SUBSET Block
        BY <2>1, <1>2
      <3> HIDE DEF b
      <3> QED BY <3>1, SendType DEF TypeOK
    <2>3. {[gen |-> mem[p].gen + 1, block |-> b]} \in SUBSET Outbox
      BY <2>1, <1>2 DEF Outbox
    <2>4. mem' = [mem EXCEPT ![p] = [mem[p] EXCEPT !.step = @ + 1,
                                                  !.sent = @ \cup {b}]]
      BY <1>7, Zenon DEF Encrypt
    <2>5. held' = [held EXCEPT ![p] = {[gen |-> mem[p].gen + 1, block |-> b]}]
      BY <1>7, Zenon DEF Encrypt
    <2> HIDE DEF b
    <2>6. mem' \in [Procs -> Store] /\ held' \in [Procs -> SUBSET Outbox]
      BY <2>2, <2>3, <2>4, <2>5 DEF TypeOK
    <2> QED BY <1>7, <2>6 DEF Encrypt, TypeOK, Labels, Commands
  <1>8. ASSUME NEW p \in Procs, WriteOutbox(p) PROVE TypeOK'
    <2>1. [files EXCEPT !.outbox = held[p]] \in Files
      BY DEF TypeOK, Files
    <2>2. CASE Close(p)
      BY <1>8, <2>1, <2>2, CloseType, ChangeType DEF WriteOutbox, TypeOK
    <2>3. CASE pc' = [pc EXCEPT ![p] = "outboxed"] /\ UNCHANGED <<cmd, mem, found, held, lock>>
      BY <1>8, <2>1, <2>3, CloseType, ChangeType DEF WriteOutbox, TypeOK, Labels
    <2> QED BY <1>8, <2>2, <2>3 DEF WriteOutbox
  <1>9. ASSUME NEW p \in Procs, FlushOutbox(p) PROVE TypeOK'
    BY <1>9, CloseType DEF FlushOutbox, TypeOK, Labels
  <1>10. ASSUME NEW p \in Procs, Update(p) PROVE TypeOK'
    BY <1>10 DEF Update, TypeOK, Labels, Commands
  <1>11. ASSUME NEW p \in Procs, WriteBlock(p) PROVE TypeOK'
    <2>1. printed' \subseteq Block
      BY <1>11 DEF WriteBlock, TypeOK, Outbox
    <2>2. faults' \in Nat
      BY <1>11 DEF WriteBlock, TypeOK
    <2>3. CASE Finish(p) \/ Close(p)
      BY <1>11, <2>1, <2>2, <2>3, CloseType, FinishType DEF WriteBlock, TypeOK
    <2>4. CASE pc' = [pc EXCEPT ![p] = "printed"] /\ UNCHANGED <<cmd, mem, found, held, lock>>
      BY <1>11, <2>1, <2>2, <2>4 DEF WriteBlock, TypeOK, Labels
    <2> QED BY <1>11, <2>3, <2>4 DEF WriteBlock
  <1>12. ASSUME NEW p \in Procs, RemoveOutbox(p) PROVE TypeOK'
    <2>1. [files EXCEPT !.outbox = {}] \in Files
      BY DEF TypeOK, Files
    <2> QED BY <1>12, <2>1, CloseType, ChangeType DEF RemoveOutbox, TypeOK
  <1>13. ASSUME NEW p \in Procs, CheckOutbox(p) PROVE TypeOK'
    BY <1>13, CloseType DEF CheckOutbox, TypeOK, Labels
  <1>14. ASSUME NEW p \in Procs, PrepareSave(p) PROVE TypeOK'
    <2>1. IsOption(anchor', Anchor) /\ faults' \in Nat
      BY <1>14, <1>a, <1>b, <1>2 DEF PrepareSave, Lookup, TypeOK
    <2>2. CASE pc' = [pc EXCEPT ![p] = "failed"] /\ UNCHANGED <<cmd, mem, found, held, lock>>
      BY <1>14, <2>1, <2>2 DEF PrepareSave, TypeOK, Labels
    <2>3. CASE \E a \in {anchor, {}} :
                 /\ mem' = [mem EXCEPT ![p] =
                             [mem[p] EXCEPT !.prev = files.vault.digest,
                                            !.gen = IF @ < MaxGen THEN @ + 1 ELSE @]]
                 /\ found' = [found EXCEPT ![p] = a]
                 /\ pc' = [pc EXCEPT ![p] = IF mem[p].gen < MaxGen THEN "sealed" ELSE "failed"]
                 /\ UNCHANGED <<cmd, held, lock>>
      <3>1. [mem[p] EXCEPT !.prev = files.vault.digest,
                           !.gen = IF @ < MaxGen THEN @ + 1 ELSE @] \in Store
        <4>1. (IF mem[p].gen < MaxGen THEN mem[p].gen + 1 ELSE mem[p].gen) \in Nat
          BY <1>2
        <4> QED BY <4>1, <1>b, SaveType DEF TypeOK
      <3>2. mem' \in [Procs -> Store]
        BY <2>3, <3>1 DEF TypeOK
      <3>3. found' \in [Procs -> SUBSET Anchor]
        BY <2>3 DEF TypeOK, IsOption
      <3> QED BY <1>14, <2>1, <2>3, <3>2, <3>3 DEF PrepareSave, TypeOK, Labels
    <2> QED BY <1>14, <2>2, <2>3 DEF PrepareSave
  <1>15. ASSUME NEW p \in Procs, WriteVault(p) PROVE TypeOK'
    <2>1. seals + 1 \in Nat
      BY DEF TypeOK
    <2>2. [files EXCEPT !.vault = SealOf(mem[p], seals + 1)] \in Files
      BY <2>1, SealType DEF TypeOK, Files
    <2>3. CASE Change([files EXCEPT !.vault = SealOf(mem[p], seals + 1)])
      BY <1>15, <2>1, <2>2, <2>3, ChangeType DEF WriteVault, TypeOK, Labels
    <2>4. CASE UNCHANGED <<files, durable, seals>>
      BY <1>15, <2>4 DEF WriteVault, TypeOK, Labels
    <2> QED BY <1>15, <2>3, <2>4 DEF WriteVault
  <1>16. ASSUME NEW p \in Procs, FlushVault(p) PROVE TypeOK'
    BY <1>16 DEF FlushVault, TypeOK, Labels
  <1>17. ASSUME NEW p \in Procs, Reanchor(p) PROVE TypeOK'
    <2>1. {[gen |-> mem[p].gen, digest |-> files.vault.digest]} \subseteq Anchor
      BY <1>2, <1>b DEF Anchor
    <2>2. IsOption(anchor', Anchor) /\ faults' \in Nat
      <3>1. faults' \in Nat
        BY <1>17 DEF Reanchor, TypeOK
      <3>2. CASE UNCHANGED anchor
        BY <3>1, <3>2 DEF TypeOK
      <3>3. CASE anchor' = {[gen |-> mem[p].gen, digest |-> files.vault.digest]}
        BY <2>1, <3>1, <3>3 DEF IsOption
      <3> QED BY <1>17, <3>2, <3>3 DEF Reanchor
    <2>3. /\ pc' = [pc EXCEPT ![p] = "saved"] \/ pc' = [pc EXCEPT ![p] = "failed"]
          /\ UNCHANGED <<cmd, mem, found, held, lock>>
      BY <1>17 DEF Reanchor
    <2>4. pc' \in [Procs -> Labels]
      BY <2>3 DEF TypeOK, Labels
    <2>5. UNCHANGED <<files, durable, printed, deleted, published, shown, seals,
                      blocks, draws>>
      BY <1>17 DEF Reanchor
    <2> QED BY <2>2, <2>3, <2>4, <2>5 DEF TypeOK
  <1>18. ASSUME NEW p \in Procs, Done(p) PROVE TypeOK'
    BY <1>18, FinishType DEF Done, TypeOK
  <1>19. ASSUME NEW p \in Procs, Fail(p) PROVE TypeOK'
    <2>1. [files EXCEPT !.outbox = {}] \in Files
      BY DEF TypeOK, Files
    <2> QED BY <1>19, <2>1, FinishType, ChangeType DEF Fail, TypeOK
  <1>20. ASSUME NEW p \in Procs, BeginRekey(p) PROVE TypeOK'
    <2>1. seals + 1 \in Nat
      BY DEF TypeOK
    <2>2. shown' \subseteq Nat
      BY <1>20, <2>1 DEF BeginRekey, TypeOK
    <2> QED BY <1>20, <2>2 DEF BeginRekey, TypeOK, Labels, Commands
  <1>21. ASSUME NEW p \in Procs, Promote(p) PROVE TypeOK'
    <2>1. seals + 1 \in Nat
      BY DEF TypeOK
    <2>2. CASE pc' = [pc EXCEPT ![p] = "failed"] /\ UNCHANGED <<cmd, mem, found, held, lock>>
               /\ UNCHANGED <<files, durable, seals>> /\ faults' \in Nat
      BY <1>21, <2>2 DEF Promote, TypeOK, Labels
    <2>3. CASE Change([files EXCEPT !.vault =
                        [SealOf(mem[p], seals + 1) EXCEPT !.gen = mem[p].gen + 1,
                                                          !.key = seals + 1]])
               /\ seals' = seals + 1
               /\ pc' = [pc EXCEPT ![p] = "promoted"]
               /\ UNCHANGED <<cmd, mem, found, held, lock, faults>>
      <3>1. SealOf(mem[p], seals + 1) \in Image /\ mem[p].gen + 1 \in Nat
        BY <2>1, <1>2, SealType DEF TypeOK
      <3>2. [SealOf(mem[p], seals + 1) EXCEPT !.gen = mem[p].gen + 1,
                                              !.key = seals + 1] \in Image
        BY <3>1, <2>1, RekeyType
      <3>3. [files EXCEPT !.vault =
               [SealOf(mem[p], seals + 1) EXCEPT !.gen = mem[p].gen + 1,
                                                 !.key = seals + 1]] \in Files
        BY <3>2 DEF TypeOK, Files
      <3> QED BY <1>21, <2>1, <2>3, <3>3, ChangeType DEF Promote, TypeOK, Labels
    <2> QED BY <1>21, <2>2, <2>3 DEF Promote, TypeOK
  <1>22. ASSUME NEW p \in Procs, FlushRekey(p) PROVE TypeOK'
    <2>1. [mem[p] EXCEPT !.gen = @ + 1] \in Store
      BY DEF TypeOK, Store
    <2>2. CASE UNCHANGED mem
      BY <1>22, <2>2 DEF FlushRekey, TypeOK, Labels
    <2>3. CASE mem' = [mem EXCEPT ![p] = [mem[p] EXCEPT !.gen = @ + 1]]
      <3>1. mem' \in [Procs -> Store]
        BY <2>1, <2>3 DEF TypeOK
      <3> QED BY <1>22, <3>1 DEF FlushRekey, TypeOK, Labels
    <2> QED BY <1>22, <2>2, <2>3 DEF FlushRekey
  <1>23. ASSUME NEW p \in Procs, FinishRekey(p) PROVE TypeOK'
    <2>1. IsOption(anchor', Anchor) /\ faults' \in Nat
      BY <1>23, <1>b DEF FinishRekey, TypeOK, IsOption, Anchor
    <2>2. files.vault.key \in Nat
      BY <1>1 DEF Image
    <2>3. shown' \subseteq Nat
      BY <1>23, <2>2 DEF FinishRekey, TypeOK
    <2>4. CASE Close(p)
      BY <1>23, <2>1, <2>3, <2>4, CloseType DEF FinishRekey, TypeOK
    <2>5. CASE /\ mem' = [mem EXCEPT ![p] = [mem[p] EXCEPT !.key = files.vault.key]]
               /\ cmd' = [cmd EXCEPT ![p] = "none"]
               /\ pc' = [pc EXCEPT ![p] = "open"]
               /\ UNCHANGED <<found, held, lock>>
      <3>1. [mem[p] EXCEPT !.key = files.vault.key] \in Store
        BY <2>2 DEF TypeOK, Store
      <3>2. mem' \in [Procs -> Store]
        BY <2>5, <3>1 DEF TypeOK
      <3> QED BY <1>23, <2>1, <2>3, <2>5, <3>2
              DEF FinishRekey, TypeOK, Labels, Commands
    <2>6. CASE pc' = [pc EXCEPT ![p] = "failed"]
               /\ UNCHANGED <<cmd, mem, found, held, lock>>
      BY <1>23, <2>1, <2>3, <2>6 DEF FinishRekey, TypeOK, Labels
    <2> QED BY <1>23, <2>4, <2>5, <2>6 DEF FinishRekey
  <1>24. ASSUME NEW p \in Procs, Kill(p) PROVE TypeOK'
    BY <1>24, CloseType DEF Kill, TypeOK
  <1>25. ASSUME LosePower PROVE TypeOK'
    <2>1. NoStore \in Store
      BY DEF NoStore, Store
    <2> QED BY <1>25, <2>1 DEF LosePower, TypeOK, IsOption, Labels, Commands
  <1>26. ASSUME DeleteOutbox PROVE TypeOK'
    <2>1. [files EXCEPT !.outbox = {}] \in Files
      BY DEF TypeOK, Files
    <2> QED BY <1>1, <1>26, <2>1, ChangeType DEF DeleteOutbox, TypeOK, Outbox
  <1>27. CASE UNCHANGED vars
    BY <1>27 DEF vars, TypeOK
  <1>28. ASSUME NEW p \in Procs, Card(p) PROVE TypeOK'
    <2>1. CASE Finish(p)
      BY <1>28, <2>1, CardMoves, FinishType DEF TypeOK
    <2>2. ASSUME NEW S \in SUBSET Nat,
                 mem' = [mem EXCEPT ![p] = [mem[p] EXCEPT !.prekeys = S]],
                 pc' = [pc EXCEPT ![p] = "save"], cmd' = [cmd EXCEPT ![p] = "card"],
                 UNCHANGED <<lock, found, held>>
          PROVE  TypeOK'
      <3>1. mem' \in [Procs -> Store]
        BY <2>2, DrawKeeps
      <3>2. /\ published' \subseteq Nat /\ draws' \in Nat
            /\ UNCHANGED <<files, durable, anchor, printed, deleted, shown, seals,
                           blocks, faults>>
        BY <1>28, CardMoves
      <3> QED BY <2>2, <3>1, <3>2 DEF TypeOK, Labels, Commands
    <2> QED BY <1>28, <2>1, <2>2, CardMoves
  <1>29. ASSUME NEW p \in Procs, ShowCard(p) PROVE TypeOK'
    <2>1. published' \subseteq Nat
      BY <1>29 DEF ShowCard, TypeOK, Store
    <2> QED BY <1>29, <2>1, FinishType DEF ShowCard, TypeOK
  <1> QED
    BY <1>3, <1>4, <1>5, <1>6, <1>7, <1>8, <1>9, <1>10, <1>11, <1>12, <1>13,
       <1>14, <1>15, <1>16, <1>17, <1>18, <1>19, <1>20, <1>21, <1>22, <1>23,
       <1>24, <1>25, <1>26, <1>27, <1>28, <1>29 DEF Next, Runs

(* Every reachable state is well typed, for every set of processes and     *)
(* every bound: no operation of the vault leaves a field undefined.        *)
THEOREM TypeCorrect == Spec => []TypeOK
BY TypeInit, TypeStep, PTL DEF Spec

-----------------------------------------------------------------------------
(* The lock.                                                               *)

(* A process works on the open vault exactly while it holds the lock.      *)
Holder == \A p \in Procs : Running(p) <=> p \in lock
LockInv == TypeOK /\ Holder

(* What a step of p does to pc and lock: it runs on, or it closes.         *)
RunsOn(p)  == lock' = lock /\ Running(p)
              /\ \E l \in Labels \ {"off", "armed"} : pc' = [pc EXCEPT ![p] = l]

LEMMA RunsOnHolder ==
  ASSUME LockInv, NEW p \in Procs, RunsOn(p) \/ Close(p)
  PROVE  Holder'
BY DEF LockInv, Holder, TypeOK, RunsOn, Close, Running

LEMMA RunsHolder ==
  ASSUME LockInv, NEW p \in Procs, Runs(p)
  PROVE  RunsOn(p) \/ Close(p)
  <1> USE DEF Labels, Running, RunsOn
  <1>1. CASE Enroll(p) BY <1>1 DEF Enroll
  <1>2. CASE Leave(p) BY <1>2 DEF Leave
  <1>3. CASE Encrypt(p)
    <2>1. lock' = lock /\ Running(p)
      BY <1>3 DEF Encrypt, Begins
    <2>2. pc' = [pc EXCEPT ![p] = "staged"] \/ pc' = [pc EXCEPT ![p] = "save"]
      BY <1>3, Zenon DEF Encrypt
    <2> QED BY <2>1, <2>2
  <1>4. CASE WriteOutbox(p) BY <1>4 DEF WriteOutbox
  <1>5. CASE FlushOutbox(p) BY <1>5 DEF FlushOutbox
  <1>6. CASE Update(p) BY <1>6 DEF Update, Begins
  <1>7. CASE WriteBlock(p) BY <1>7 DEF WriteBlock, Finish
  <1>8. CASE RemoveOutbox(p) BY <1>8 DEF RemoveOutbox
  <1>9. CASE CheckOutbox(p) BY <1>9 DEF CheckOutbox, Begins
  <1>10. CASE PrepareSave(p)
    <2>1. lock' = lock /\ Running(p)
      BY <1>10 DEF PrepareSave
    <2>2. pc' = [pc EXCEPT ![p] = "sealed"] \/ pc' = [pc EXCEPT ![p] = "failed"]
      BY <1>10 DEF PrepareSave
    <2> QED BY <2>1, <2>2
  <1>11. CASE WriteVault(p) BY <1>11 DEF WriteVault
  <1>12. CASE FlushVault(p) BY <1>12 DEF FlushVault
  <1>13. CASE Reanchor(p) BY <1>13 DEF Reanchor
  <1>14. CASE Done(p) BY <1>14 DEF Done, Finish
  <1>15. CASE Fail(p) BY <1>15 DEF Fail, Finish
  <1>16. CASE BeginRekey(p) BY <1>16 DEF BeginRekey, Begins
  <1>17. CASE Promote(p) BY <1>17 DEF Promote
  <1>18. CASE FlushRekey(p) BY <1>18 DEF FlushRekey
  <1>19. CASE FinishRekey(p) BY <1>19 DEF FinishRekey
  <1>20. CASE Card(p) BY <1>20, CardMoves DEF LockInv, Finish
  <1>21. CASE ShowCard(p) BY <1>21 DEF ShowCard, Finish
  <1> QED
    BY <1>1, <1>2, <1>3, <1>4, <1>5, <1>6, <1>7, <1>8, <1>9, <1>10, <1>11,
       <1>12, <1>13, <1>14, <1>15, <1>16, <1>17, <1>18, <1>19, <1>20, <1>21 DEF Runs

LEMMA LockInit == Init => LockInv
  <1> SUFFICES ASSUME Init PROVE Holder
    BY TypeInit DEF LockInv
  <1> QED BY DEF Init, Holder, Running

LEMMA LockStep == LockInv /\ [Next]_vars => LockInv'
  <1> SUFFICES ASSUME LockInv, [Next]_vars PROVE Holder'
    BY TypeStep DEF LockInv
  <1>1. ASSUME NEW p \in Procs, ReadOutbox(p) PROVE Holder'
    BY <1>1 DEF ReadOutbox, LockInv, Holder, TypeOK, Running
  <1>2. ASSUME NEW p \in Procs, NEW c \in Commands, Open(p, c) PROVE Holder'
    <2>1. CASE Close(p)
      BY <2>1, RunsOnHolder
    <2>2. CASE pc' = [pc EXCEPT ![p] = "open"] /\ lock' = {p}
      BY <1>2, <2>2 DEF Open, LockInv, Holder, TypeOK, Running
    <2> QED BY <1>2, <2>1, <2>2 DEF Open
  <1>3. ASSUME NEW p \in Procs, Runs(p) PROVE Holder'
    BY <1>3, RunsHolder, RunsOnHolder
  <1>4. ASSUME NEW p \in Procs, Kill(p) PROVE Holder'
    BY <1>4, RunsOnHolder DEF Kill
  <1>5. CASE LosePower
    BY <1>5 DEF LosePower, Holder, Running
  <1>6. CASE DeleteOutbox
    BY <1>6 DEF DeleteOutbox, LockInv, Holder, Running
  <1>7. CASE UNCHANGED vars
    BY <1>7 DEF vars, LockInv, Holder, Running
  <1> QED BY <1>1, <1>2, <1>3, <1>4, <1>5, <1>6, <1>7 DEF Next

(* Any number of command-line runs and interfaces started on one drive     *)
(* work on the vault one at a time, whichever of them is killed.           *)
THEOREM LockIsExclusive == Spec => []LockExclusive
  <1>1. LockInv => LockExclusive
    BY DEF LockInv, Holder, TypeOK, IsOption, LockExclusive
  <1> QED BY <1>1, LockInit, LockStep, PTL DEF Spec

-----------------------------------------------------------------------------
(* The pending outbox and the generations.                                 *)

(* A command-line run opened the container of the drive and nobody else    *)
(* replaces it, so the generation in memory is the one on the drive except *)
(* between preparing a save and its rename, or a rename and the end of a   *)
(* rekey.  (An interface whose save failed is ahead of the drive.)         *)
AtGen(p) ==
  p \in Cli =>
    /\ pc[p] \in {"open", "staged", "outboxed", "save", "renamed", "flushed",
                 "rekeying"} => mem[p].gen = files.vault.gen
    /\ pc[p] = "sealed" => mem[p].gen = files.vault.gen + 1

(* What a run has staged for the outbox is for the next generation, and    *)
(* its step is consumed in memory.                                         *)
Staged(p) ==
  pc[p] = "staged" =>
    /\ p \in Cli
    /\ \A o \in held[p] : o.gen = mem[p].gen + 1 /\ o.block \in mem[p].sent

(* A process that is about to save found no outbox, or wrote the outbox of *)
(* the very block it saves.  (A rekey looks once more as it promotes.)     *)
Covered(p) ==
  pc[p] \in {"outboxed", "save", "sealed"} =>
    \A o \in files.outbox : o.block \in mem[p].sent

ProcInv(p) == AtGen(p) /\ Staged(p) /\ Covered(p)
NotStale(d) ==
  \A o \in d.outbox : o.gen = d.vault.gen => o.block \in d.vault.sent

OutboxInv ==
  /\ LockInv
  /\ \A p \in Procs : ProcInv(p)
  /\ \A d \in durable : NotStale(d)

LEMMA Idle ==
  ASSUME NEW p, ~Running(p) PROVE ProcInv(p)
BY DEF Running, ProcInv, AtGen, Staged, Covered

(* While p runs nobody else does, before or after its step.                *)
LEMMA Alone ==
  ASSUME LockInv, NEW p \in Procs, Running(p), RunsOn(p) \/ Close(p),
         NEW q \in Procs, q # p
  PROVE  ~Running(q) /\ ~Running(q)'
BY DEF LockInv, Holder, TypeOK, IsOption, RunsOn, Close, Running

LEMMA RunsRunning ==
  ASSUME NEW p \in Procs, Runs(p) PROVE Running(p)
BY DEF Runs, Running, Enroll, Leave, Encrypt, WriteOutbox, FlushOutbox, Update,
       Card, ShowCard, WriteBlock, RemoveOutbox, CheckOutbox, PrepareSave, WriteVault,
       FlushVault, Reanchor, Done, Fail, BeginRekey, Promote, FlushRekey, FinishRekey,
       Begins

LEMMA ClosedIdle ==
  ASSUME TypeOK, NEW p \in Procs, Close(p) PROVE ~Running(p)'
BY DEF TypeOK, Close, Running

LEMMA OutboxInit == Init => OutboxInv
  <1> SUFFICES ASSUME Init PROVE OutboxInv
    OBVIOUS
  <1>1. \A p \in Procs : ~Running(p)
    BY DEF Init, Running
  <1> QED BY <1>1, Idle, LockInit DEF Init, OutboxInv, NotStale

(* What its own step leaves true of p.                                     *)
LEMMA RunsOutbox ==
  ASSUME OutboxInv, NEW p \in Procs, Runs(p)
  PROVE  ProcInv(p)' /\ \A d \in durable' : NotStale(d)
  <1> USE DEF Flush, Change, NotStale
  <1>0. /\ TypeOK /\ ProcInv(p) /\ files \in durable
        /\ mem[p].gen \in Nat /\ files.vault.gen \in Nat
        /\ \A d \in durable : NotStale(d)
    BY DEF OutboxInv, LockInv, TypeOK, Store, Files, Image
  <1>c. Close(p) => ProcInv(p)'
    BY <1>0, ClosedIdle DEF Running, ProcInv, AtGen, Staged, Covered
  <1>d. DEFINE bare == [files EXCEPT !.outbox = {}]
  <1>e. NotStale(bare)
    BY <1>0 DEF TypeOK, Files
  <1>1. CASE Enroll(p) BY <1>1, <1>0, <1>c DEF Enroll
  <1>2. CASE Leave(p) BY <1>2, <1>0, <1>c DEF Leave
  <1>3. CASE Encrypt(p)
    BY <1>3, <1>0 DEF Encrypt, Begins, ProcInv, AtGen, Staged, Covered, TypeOK, Store
  <1>4. CASE WriteOutbox(p)
    BY <1>4, <1>0, <1>c DEF WriteOutbox, ProcInv, AtGen, Staged, Covered, TypeOK, Files
  <1>5. CASE FlushOutbox(p)
    BY <1>5, <1>0, <1>c DEF FlushOutbox, ProcInv, AtGen, Staged, Covered, TypeOK
  <1>6. CASE Update(p)
    BY <1>6, <1>0 DEF Update, Begins, ProcInv, AtGen, Staged, Covered, TypeOK
  <1>7. CASE WriteBlock(p)
    BY <1>7, <1>0, <1>c DEF WriteBlock, Finish, ProcInv, AtGen, Staged, Covered, TypeOK
  <1>8. CASE RemoveOutbox(p)
    BY <1>8, <1>0, <1>c, <1>e DEF RemoveOutbox
  <1>9. CASE CheckOutbox(p)
    BY <1>9, <1>0, <1>c DEF CheckOutbox, ProcInv, AtGen, Staged, Covered, TypeOK
  <1>10. CASE PrepareSave(p)
    <2>1. CASE pc' = [pc EXCEPT ![p] = "failed"]
      BY <1>10, <2>1, <1>0 DEF PrepareSave, ProcInv, AtGen, Staged, Covered, TypeOK
    <2>2. CASE /\ pc' = [pc EXCEPT ![p] = "sealed"]
               /\ mem[p].gen < MaxGen
      <3>1. mem' = [mem EXCEPT ![p] =
                     [mem[p] EXCEPT !.prev = files.vault.digest,
                                    !.gen = IF @ < MaxGen THEN @ + 1 ELSE @]]
        BY <1>10, <2>2, <1>0 DEF PrepareSave, TypeOK
      <3>2. mem'[p].gen = mem[p].gen + 1 /\ mem'[p].sent = mem[p].sent
        BY <2>2, <3>1, <1>0 DEF TypeOK, Store
      <3> QED
        BY <1>10, <2>2, <3>2, <1>0
           DEF PrepareSave, ProcInv, AtGen, Staged, Covered, TypeOK
    <2> QED BY <1>10, <2>1, <2>2 DEF PrepareSave
  <1>11. CASE WriteVault(p)
    BY <1>11, <1>0 DEF WriteVault, ProcInv, AtGen, Staged, Covered, TypeOK, Files, SealOf
  <1>12. CASE FlushVault(p)
    BY <1>12, <1>0 DEF FlushVault, ProcInv, AtGen, Staged, Covered, TypeOK
  <1>13. CASE Reanchor(p)
    BY <1>13, <1>0 DEF Reanchor, ProcInv, AtGen, Staged, Covered, TypeOK
  <1>14. CASE Done(p)
    BY <1>14, <1>0, <1>c DEF Done, Finish, ProcInv, AtGen, Staged, Covered, TypeOK
  <1>15. CASE Fail(p)
    BY <1>15, <1>0, <1>c, <1>e DEF Fail, Finish, ProcInv, AtGen, Staged, Covered, TypeOK
  <1>16. CASE BeginRekey(p)
    BY <1>16, <1>0 DEF BeginRekey, Begins, ProcInv, AtGen, Staged, Covered, TypeOK
  <1>17. CASE Promote(p)
    <2>1. CASE pc' = [pc EXCEPT ![p] = "failed"]
      BY <1>17, <2>1, <1>0 DEF Promote, ProcInv, AtGen, Staged, Covered, TypeOK
    <2> DEFINE v == [SealOf(mem[p], seals + 1) EXCEPT !.gen = mem[p].gen + 1,
                                                      !.key = seals + 1]
    <2>2. CASE /\ pc' = [pc EXCEPT ![p] = "promoted"] /\ files.outbox = {}
               /\ Change([files EXCEPT !.vault = v])
      <3> HIDE DEF v
      <3>1. NotStale([files EXCEPT !.vault = v])
        BY <2>2, <1>0 DEF TypeOK, Files
      <3>2. \A d \in durable' : NotStale(d)
        BY <2>2, <3>1, <1>0
      <3> QED BY <1>17, <2>2, <3>2, <1>0 DEF Promote, ProcInv, AtGen, Staged, Covered, TypeOK
    <2> HIDE DEF v
    <2>3. pc' = [pc EXCEPT ![p] = "failed"]
            \/ (pc' = [pc EXCEPT ![p] = "promoted"] /\ files.outbox = {}
                 /\ Change([files EXCEPT !.vault = v]))
      BY <1>17 DEF Promote, v
    <2> QED BY <2>1, <2>2, <2>3
  <1>18. CASE FlushRekey(p)
    BY <1>18, <1>0 DEF FlushRekey, ProcInv, AtGen, Staged, Covered, TypeOK
  <1>19. CASE FinishRekey(p)
    BY <1>19, <1>0, <1>c DEF FinishRekey, ProcInv, AtGen, Staged, Covered, TypeOK
  <1>20. CASE Card(p)
    <2>1. /\ pc[p] = "open" /\ UNCHANGED <<files, durable>>
      BY <1>20, <1>0, CardMoves
    <2>2. CASE Finish(p)
      BY <2>1, <2>2, <1>0, <1>c DEF Finish, ProcInv, AtGen, Staged, Covered, TypeOK
    <2>3. ASSUME NEW S \in SUBSET Nat,
                 mem' = [mem EXCEPT ![p] = [mem[p] EXCEPT !.prekeys = S]],
                 pc' = [pc EXCEPT ![p] = "save"], files.outbox = {}
          PROVE  ProcInv(p)'
      BY <2>1, <2>3, <1>0, DrawKeeps DEF ProcInv, AtGen, Staged, Covered, TypeOK
    <2> QED BY <1>20, <1>0, <2>1, <2>2, <2>3, CardMoves
  <1>21. CASE ShowCard(p)
    BY <1>21, <1>0, <1>c DEF ShowCard, Finish, ProcInv, AtGen, Staged, Covered, TypeOK
  <1> QED
    BY <1>1, <1>2, <1>3, <1>4, <1>5, <1>6, <1>7, <1>8, <1>9, <1>10, <1>11,
       <1>12, <1>13, <1>14, <1>15, <1>16, <1>17, <1>18, <1>19, <1>20, <1>21 DEF Runs

LEMMA OutboxStep == OutboxInv /\ [Next]_vars => OutboxInv'
  <1> SUFFICES ASSUME OutboxInv, [Next]_vars
               PROVE  /\ \A q \in Procs : ProcInv(q)'
                      /\ \A d \in durable' : NotStale(d)
    BY LockStep DEF OutboxInv, NotStale
  <1>0. LockInv /\ TypeOK
    BY DEF OutboxInv, LockInv
  <1>1. ASSUME NEW p \in Procs, ReadOutbox(p)
        PROVE  \A q \in Procs : ProcInv(q)'
    <2> SUFFICES ASSUME NEW q \in Procs PROVE ProcInv(q)'
      OBVIOUS
    <2>1. CASE q = p
      BY <1>0, <1>1, <2>1, Idle DEF ReadOutbox, TypeOK, Running, ProcInv, AtGen, Staged, Covered
    <2>2. CASE q # p
      BY <1>0, <1>1, <2>2 DEF ReadOutbox, TypeOK, OutboxInv, ProcInv, AtGen, Staged, Covered
    <2> QED BY <2>1, <2>2
  <1>2. ASSUME NEW p \in Procs, NEW c \in Commands, Open(p, c)
        PROVE  \A q \in Procs : ProcInv(q)'
    <2> SUFFICES ASSUME NEW q \in Procs PROVE ProcInv(q)'
      OBVIOUS
    <2>1. CASE q # p
      <3>1. ~Running(q)
        BY <1>0, <1>2 DEF Open, LockInv, Holder
      <3>2. pc'[q] = pc[q]
        BY <1>0, <1>2, <2>1 DEF Open, Close, TypeOK
      <3>3. ~Running(q)'
        BY <3>1, <3>2 DEF Running
      <3> QED BY <3>3, Idle DEF Running, ProcInv, AtGen, Staged, Covered
    <2>2. CASE q = p /\ Close(p)
      BY <1>0, <2>2, ClosedIdle DEF Running, ProcInv, AtGen, Staged, Covered
    <2>3. CASE /\ q = p /\ pc' = [pc EXCEPT ![p] = "open"]
               /\ mem' = [mem EXCEPT ![p] = StoreOf(files.vault)]
      BY <1>0, <1>2, <2>3 DEF Open, StoreOf, TypeOK, ProcInv, AtGen, Staged, Covered
    <2> QED BY <1>2, <2>1, <2>2, <2>3 DEF Open
  <1>3. ASSUME NEW p \in Procs, Runs(p)
        PROVE  \A q \in Procs : ProcInv(q)'
    <2>1. \A q \in Procs : q # p => ~Running(q)'
      BY <1>0, <1>3, RunsRunning, RunsHolder, Alone
    <2>2. \A q \in Procs : q # p => ProcInv(q)'
      BY <2>1 DEF Running, ProcInv, AtGen, Staged, Covered
    <2> QED BY <2>2, <1>3, RunsOutbox
  <1>4. ASSUME NEW p \in Procs, Kill(p)
        PROVE  \A q \in Procs : ProcInv(q)'
    <2> SUFFICES ASSUME NEW q \in Procs PROVE ProcInv(q)'
      OBVIOUS
    <2>1. CASE q = p
      BY <1>0, <1>4, <2>1, ClosedIdle
         DEF Kill, Running, ProcInv, AtGen, Staged, Covered
    <2>2. CASE q # p
      BY <1>0, <1>4, <2>2
         DEF Kill, Close, TypeOK, OutboxInv, ProcInv, AtGen, Staged, Covered
    <2> QED BY <2>1, <2>2
  <1>5. CASE LosePower
    BY <1>5 DEF LosePower, OutboxInv, ProcInv, AtGen, Staged, Covered
  <1>6. CASE DeleteOutbox
    <2>1. files' = [files EXCEPT !.outbox = {}]
      BY <1>6 DEF DeleteOutbox, Change
    <2>2. files'.vault = files.vault /\ files'.outbox = {}
      BY <1>0, <2>1 DEF TypeOK, Files
    <2>3. \A q \in Procs : ProcInv(q)'
      BY <1>6, <2>2 DEF DeleteOutbox, OutboxInv, ProcInv, AtGen, Staged, Covered
    <2>4. durable' \subseteq durable \cup {files'}
      BY <1>6, <2>1 DEF DeleteOutbox, Change
    <2>5. NotStale(files')
      BY <2>2 DEF NotStale
    <2> QED BY <2>3, <2>4, <2>5 DEF OutboxInv
  <1>7. CASE UNCHANGED vars
    BY <1>7 DEF vars, OutboxInv, ProcInv, AtGen, Staged, Covered
  <1>8. ASSUME NEW p \in Procs, ReadOutbox(p) \/ (\E c \in Commands : Open(p, c)) \/ Kill(p)
        PROVE  \A d \in durable' : NotStale(d)
    BY <1>8 DEF ReadOutbox, Open, Kill, OutboxInv
  <1>9. ASSUME NEW p \in Procs, Runs(p) PROVE \A d \in durable' : NotStale(d)
    BY <1>9, RunsOutbox
  <1> QED BY <1>1, <1>2, <1>3, <1>4, <1>5, <1>6, <1>7, <1>8, <1>9 DEF Next

(* A block left over from a save that did not happen never carries the     *)
(* generation of the vault on the drive: `outbox` cannot mistake it for a  *)
(* saved one, whatever commands, interfaces, kills and power losses follow.*)
THEOREM OutboxNeverStale == Spec => []StaleOutboxNeverMatches
  <1>1. OutboxInv => StaleOutboxNeverMatches
    BY DEF OutboxInv, LockInv, TypeOK, NotStale, StaleOutboxNeverMatches
  <1> QED BY <1>1, OutboxInit, OutboxStep, PTL DEF Spec

-----------------------------------------------------------------------------
(* The anchor.                                                             *)

(* Only commands, on a drive that keeps what it was given: with interfaces,*)
(* or with power losses, both properties fail in the model as in the code. *)
OnlyCommands == Ui = {} /\ PowerLoss = FALSE

NotRefused(f) == \A a \in anchor : ~Refused(a, f.vault.gen, f.vault.digest)
AnchorInv == OutboxInv /\ NotRefused(files)

(* Every new container is one generation on.                               *)
LEMMA CommandAdvances ==
  ASSUME OnlyCommands, OutboxInv, [Next]_vars, files'.vault # files.vault
  PROVE  files'.vault.gen = files.vault.gen + 1 /\ UNCHANGED anchor
  <1>0. /\ TypeOK /\ files.vault.gen \in Nat /\ Cli = Procs
        /\ \A p \in Procs : AtGen(p) /\ mem[p].gen \in Nat
    BY DEF OnlyCommands, OutboxInv, LockInv, TypeOK, ProcInv, Files, Image, Store
  <1>1. \A F : [files EXCEPT !.outbox = F].vault = files.vault
    BY <1>0 DEF TypeOK, Files
  <1>2. ASSUME NEW p \in Procs, WriteVault(p)
        PROVE  files'.vault.gen = files.vault.gen + 1 /\ UNCHANGED anchor
    BY <1>0, <1>2 DEF WriteVault, Change, AtGen, SealOf, TypeOK, Files
  <1>3. ASSUME NEW p \in Procs, Promote(p)
        PROVE  files'.vault.gen = files.vault.gen + 1 /\ UNCHANGED anchor
    <2>1. mem[p].gen = files.vault.gen
      BY <1>0, <1>3 DEF Promote, AtGen
    <2> DEFINE v == [SealOf(mem[p], seals + 1) EXCEPT !.gen = mem[p].gen + 1,
                                                      !.key = seals + 1]
    <2>2. v.gen = mem[p].gen + 1
      BY DEF SealOf
    <2> HIDE DEF v
    <2>3. files' = [files EXCEPT !.vault = v] /\ UNCHANGED anchor
      BY <1>3 DEF Promote, Change, v
    <2> QED BY <1>0, <2>1, <2>2, <2>3 DEF TypeOK, Files
  <1>4. ASSUME NEW p \in Procs, Runs(p), ~WriteVault(p), ~Promote(p)
        PROVE  files'.vault = files.vault
    BY <1>1, <1>4 DEF Runs, Change, Flush, Enroll, Leave, Encrypt, WriteOutbox,
       FlushOutbox, Update, Card, ShowCard, WriteBlock, RemoveOutbox, CheckOutbox, PrepareSave,
       FlushVault, Reanchor, Done, Fail, BeginRekey, FlushRekey, FinishRekey
  <1>5. ASSUME ~\E p \in Procs : Runs(p) PROVE files'.vault = files.vault
    <2>1. CASE DeleteOutbox
      BY <1>1, <2>1 DEF DeleteOutbox, Change
    <2>2. CASE LosePower
      BY <2>2 DEF LosePower, OnlyCommands
    <2>3. ASSUME NEW p \in Procs,
                 ReadOutbox(p) \/ (\E c \in Commands : Open(p, c)) \/ Kill(p)
          PROVE  files'.vault = files.vault
      BY <2>3 DEF ReadOutbox, Open, Kill
    <2>4. CASE UNCHANGED vars
      BY <2>4 DEF vars
    <2> QED BY <1>5, <2>1, <2>2, <2>3, <2>4 DEF Next
  <1> QED BY <1>2, <1>3, <1>4, <1>5

(* The anchor only ever takes the generation and digest of the container   *)
(* on the drive.                                                           *)
LEMMA AnchorFollows ==
  ASSUME OnlyCommands, OutboxInv, [Next]_vars, files'.vault = files.vault
  PROVE  anchor' \in {anchor, {[gen |-> files.vault.gen,
                                digest |-> files.vault.digest]}}
  <1> DEFINE here == {[gen |-> files.vault.gen, digest |-> files.vault.digest]}
  <1>0. TypeOK /\ Cli = Procs /\ \A p \in Procs : AtGen(p)
    BY DEF OnlyCommands, OutboxInv, LockInv, ProcInv
  <1>1. ASSUME NEW p \in Procs, Enroll(p) PROVE anchor' \in {anchor, here}
    BY <1>0, <1>1 DEF Enroll, Begins, AtGen
  <1>2. ASSUME NEW p \in Procs, PrepareSave(p) PROVE anchor' \in {anchor, here}
    BY <1>0, <1>2 DEF PrepareSave, AtGen
  <1>3. ASSUME NEW p \in Procs, Reanchor(p) PROVE anchor' \in {anchor, here}
    BY <1>0, <1>3 DEF Reanchor, AtGen
  <1>4. ASSUME NEW p \in Procs, FinishRekey(p) PROVE anchor' \in {anchor, here}
    BY <1>0, <1>4 DEF FinishRekey, TypeOK, IsOption
  <1>5. ASSUME NEW p \in Procs, NEW c \in Commands, Open(p, c)
        PROVE  anchor' \in {anchor, here}
    BY <1>5 DEF Open
  <1>6. ASSUME NEW p \in Procs, Runs(p) PROVE anchor' \in {anchor, here}
    BY <1>1, <1>2, <1>3, <1>4, <1>6 DEF Runs, Leave, Encrypt, WriteOutbox,
       FlushOutbox, Update, Card, ShowCard, WriteBlock, RemoveOutbox, CheckOutbox, WriteVault,
       FlushVault, Done, Fail, BeginRekey, Promote, FlushRekey
  <1> QED
    BY <1>5, <1>6 DEF Next, vars, ReadOutbox, Kill, LosePower, DeleteOutbox

LEMMA AnchorStep ==
  ASSUME OnlyCommands
  PROVE  AnchorInv /\ [Next]_vars => AnchorInv'
  <1> SUFFICES ASSUME AnchorInv, [Next]_vars PROVE NotRefused(files)'
    BY OutboxStep DEF AnchorInv
  <1>0. /\ OutboxInv /\ NotRefused(files)
        /\ files.vault.gen \in Nat /\ \A a \in anchor : a.gen \in Nat
    BY DEF AnchorInv, OutboxInv, LockInv, TypeOK, IsOption, Anchor, Files, Image
  <1>1. CASE files'.vault # files.vault
    <2>1. files'.vault.gen = files.vault.gen + 1 /\ anchor' = anchor
      BY <1>0, <1>1, CommandAdvances
    <2> QED BY <1>0, <2>1 DEF NotRefused, Refused
  <1>2. CASE files'.vault = files.vault
    BY <1>0, <1>2, AnchorFollows DEF NotRefused, Refused
  <1> QED BY <1>1, <1>2

LEMMA AnchorInit == Init => AnchorInv
  <1> SUFFICES ASSUME Init PROVE NotRefused(files)
    BY OutboxInit DEF AnchorInv
  <1> QED BY DEF Init, NotRefused, Refused

(* However many commands fail, are killed or lose their keyring writes,    *)
(* the anchor never refuses the vault this host wrote.                     *)
THEOREM CommandsNeverLockOut ==
  ASSUME OnlyCommands PROVE Spec => []NoFalseRollback
  <1>1. AnchorInv => NoFalseRollback
    BY DEF AnchorInv, NotRefused, NoFalseRollback
  <1> QED BY <1>1, AnchorInit, AnchorStep, PTL DEF Spec

(* No generation is given to two containers, so the anchor's comparison of *)
(* generations orders everything the host ever wrote.                      *)
THEOREM CommandsAdvance ==
  ASSUME OnlyCommands PROVE Spec => GenerationAdvances
  <1>1. OutboxInv /\ [Next]_vars
          => [files'.vault # files.vault => files'.vault.gen > files.vault.gen]_vars
    <2> SUFFICES ASSUME OutboxInv, [Next]_vars, files'.vault # files.vault
                 PROVE  files'.vault.gen > files.vault.gen
      OBVIOUS
    <2>1. files.vault.gen \in Nat
      BY DEF OutboxInv, LockInv, TypeOK, Files, Image
    <2> QED BY <2>1, CommandAdvances
  <1> QED BY <1>1, OutboxInit, OutboxStep, PTL DEF Spec, GenerationAdvances
-----------------------------------------------------------------------------
(* What the vault promises about messages, one command at a time.  With    *)
(* two, `outbox` may read its file before another command replaces it.     *)
OneCommand == OnlyCommands /\ \A p, q \in Procs : p = q

Writing == {"save", "sealed"}
Sending(p) ==
  pc[p] \in {"staged", "outboxed"} \/ (pc[p] \in Writing /\ cmd[p] = "send")

(* The commands that reach a program point.                                *)
Command(p) ==
  /\ pc[p] = "armed" => cmd[p] = "outbox"
  /\ pc[p] \in {"staged", "outboxed"} => cmd[p] = "send"
  /\ pc[p] \in Writing \cup {"renamed", "flushed"} => cmd[p] \in {"send", "update", "card"}
  /\ pc[p] = "rekeying" => cmd[p] = "rekey"
  /\ pc[p] = "printed" => cmd[p] \in {"send", "outbox"}

(* The ratchet in memory is the one on the drive, or one step ahead of it, *)
(* by the block that is being sent.                                        *)
InStep(p) ==
  /\ pc[p] \in {"open", "rekeying"} \/ (pc[p] \in Writing /\ cmd[p] \in {"update", "card"})
       => mem[p].sent = files.vault.sent /\ mem[p].step = files.vault.step
  /\ Sending(p) =>
       \E b \in {o.block : o \in held[p]} :
         /\ held[p] = {[gen |-> files.vault.gen + 1, block |-> b]}
         /\ b.step = files.vault.step + 1 /\ mem[p].step = b.step
         /\ mem[p].sent = files.vault.sent \cup {b}

(* What a command holds for the outbox, or has read from it, is what the   *)
(* file holds, unless the user deleted it.                                 *)
Holds(p) ==
  /\ IsOption(held[p], Outbox)
  /\ held[p] # {} => files.outbox \subseteq held[p]
  /\ cmd[p] = "send" /\ pc[p] \notin {"off", "open"} => held[p] # {}
  /\ pc[p] = "outboxed" => files.outbox = held[p] \/ \A o \in held[p] : o.block \in deleted
  /\ Sending(p) /\ pc[p] \in Writing =>
       files.outbox = held[p] \/ \A o \in held[p] : o.block \in deleted
  /\ cmd[p] \in {"update", "card", "rekey"} /\ pc[p] \notin {"off", "open"}
       => files.outbox = {}

(* When it may be printed, and that it was before it is removed.           *)
Printable(p) ==
  /\ cmd[p] = "outbox" =>
       \A o \in held[p] : o.gen = files.vault.gen => o.block \in files.vault.sent
  /\ pc[p] \in {"renamed", "flushed", "saved"} /\ cmd[p] \in {"send", "outbox"} =>
       held[p] # {} /\ \A o \in held[p] : o.block \in files.vault.sent
  /\ pc[p] = "printed" => held[p] # {} /\ \A o \in held[p] : o.block \in printed

StepsOnce ==
  /\ \A b \in files.vault.sent : b.step <= files.vault.step
  /\ \A b, c \in files.vault.sent : b.step = c.step => b = c

CommandInv(p) == Command(p) /\ InStep(p) /\ Holds(p) /\ Printable(p)
LogInv ==
  /\ OutboxInv
  /\ StepsOnce /\ ExportedIsCommitted /\ CommittedIsRecoverable
  /\ IsOption(files.outbox, Outbox)
  /\ \A p \in Procs : CommandInv(p)

LEMMA ClosedCommand ==
  ASSUME OutboxInv, NEW p \in Procs, Close(p) PROVE CommandInv(p)'
BY DEF OutboxInv, LockInv, TypeOK, Close, CommandInv, Command, InStep, Sending,
       Writing, Holds, Printable, IsOption

(* The facts that every step starts from.                                  *)
LEMMA LogFacts ==
  ASSUME OneCommand, LogInv, NEW p \in Procs
  PROVE  /\ TypeOK /\ Cli = Procs /\ \A q \in Procs : q = p
         /\ CommandInv(p) /\ AtGen(p) /\ NotStale(files)
         /\ files.vault.gen \in Nat /\ files.vault.step \in Nat
         /\ \A b \in files.vault.sent : b.step \in Nat
         /\ mem[p].gen \in Nat /\ mem[p].step \in Nat
         /\ \A F : /\ [files EXCEPT !.outbox = F].vault = files.vault
                   /\ [files EXCEPT !.outbox = F].outbox = F
  <1>1. TypeOK /\ Cli = Procs /\ \A q \in Procs : q = p
    BY DEF OneCommand, OnlyCommands, LogInv, OutboxInv, LockInv
  <1>2. CommandInv(p) /\ AtGen(p) /\ NotStale(files)
    BY <1>1 DEF LogInv, OutboxInv, ProcInv, TypeOK
  <1>3. /\ files.vault.gen \in Nat /\ files.vault.step \in Nat
        /\ \A b \in files.vault.sent : b.step \in Nat
    BY <1>1 DEF TypeOK, Files, Image, Block
  <1>4. mem[p].gen \in Nat /\ mem[p].step \in Nat
    BY <1>1 DEF TypeOK, Store
  <1>5. \A F : /\ [files EXCEPT !.outbox = F].vault = files.vault
               /\ [files EXCEPT !.outbox = F].outbox = F
    BY <1>1 DEF TypeOK, Files
  <1> QED BY <1>1, <1>2, <1>3, <1>4, <1>5

(* The part of the invariant that is not about a process.                  *)
DriveInv ==
  /\ StepsOnce /\ ExportedIsCommitted /\ CommittedIsRecoverable
  /\ IsOption(files.outbox, Outbox)

LEMMA DriveSame ==
  ASSUME LogInv, UNCHANGED <<files, printed, deleted>> PROVE DriveInv'
BY DEF LogInv, DriveInv, StepsOnce, ExportedIsCommitted, CommittedIsRecoverable, IsOption

(* An outbox may go if nothing it holds waits to be printed.               *)
LEMMA DriveBare ==
  ASSUME OneCommand, LogInv, Change([files EXCEPT !.outbox = {}]),
         printed' = printed, deleted \subseteq deleted',
         \A o \in files.outbox :
           o.gen = files.vault.gen => o.block \in printed \cup deleted'
  PROVE  DriveInv'
  <1>1. files'.vault = files.vault /\ files'.outbox = {}
    BY DEF LogInv, OutboxInv, LockInv, TypeOK, Files, Change
  <1>2. CommittedIsRecoverable'
    BY <1>1 DEF LogInv, CommittedIsRecoverable
  <1>3. StepsOnce' /\ ExportedIsCommitted' /\ IsOption(files.outbox, Outbox)'
    BY <1>1 DEF LogInv, StepsOnce, ExportedIsCommitted, IsOption
  <1> QED BY <1>2, <1>3 DEF DriveInv

(* A new container: the same ratchet with no outbox, or one step on with   *)
(* the block that its outbox holds.                                        *)
LEMMA DriveSealed ==
  ASSUME OneCommand, LogInv, NEW v, files' = [files EXCEPT !.vault = v],
         UNCHANGED <<printed, deleted>>,
         \/ /\ files.outbox = {}
            /\ v.sent = files.vault.sent /\ v.step = files.vault.step
         \/ \E b \in Block :
              /\ v.sent = files.vault.sent \cup {b}
              /\ b.step = files.vault.step + 1 /\ v.step = b.step
              /\ \A o \in files.outbox : o.gen # files.vault.gen
              /\ b \in deleted \/ \E o \in files.outbox : o.gen = v.gen /\ o.block = b
  PROVE  DriveInv'
  <1>0. /\ files.vault.step \in Nat /\ \A b \in files.vault.sent : b.step \in Nat
        /\ files'.vault = v /\ files'.outbox = files.outbox
    BY DEF LogInv, OutboxInv, LockInv, TypeOK, Files, Image, Block
  <1>1. CASE /\ files.outbox = {}
             /\ v.sent = files.vault.sent /\ v.step = files.vault.step
    BY <1>0, <1>1 DEF LogInv, DriveInv, StepsOnce, ExportedIsCommitted,
                      CommittedIsRecoverable, IsOption
  <1>2. ASSUME NEW b \in Block,
               v.sent = files.vault.sent \cup {b},
               b.step = files.vault.step + 1, v.step = b.step,
               \A o \in files.outbox : o.gen # files.vault.gen,
               b \in deleted \/ \E o \in files.outbox : o.gen = v.gen /\ o.block = b
        PROVE  DriveInv'
    <2>1. StepsOnce'
      BY <1>0, <1>2 DEF LogInv, StepsOnce
    <2>2. ExportedIsCommitted' /\ IsOption(files.outbox, Outbox)'
      BY <1>0, <1>2 DEF LogInv, ExportedIsCommitted, IsOption
    <2>3. CommittedIsRecoverable'
      BY <1>0, <1>2 DEF LogInv, CommittedIsRecoverable
    <2> QED BY <2>1, <2>2, <2>3 DEF DriveInv
  <1> QED BY <1>1, <1>2

(* A run that moves on with what it has.                                   *)
LEMMA RunsLog ==
  ASSUME OneCommand, LogInv, NEW p \in Procs, Runs(p)
  PROVE  DriveInv' /\ CommandInv(p)'
  <1> USE DEF Flush, CommandInv, Command, Writing
  <1>0. /\ TypeOK /\ Cli = Procs /\ CommandInv(p) /\ AtGen(p) /\ OutboxInv
        /\ files.vault.gen \in Nat /\ files.vault.step \in Nat
        /\ mem[p].gen \in Nat /\ mem[p].step \in Nat
        /\ \A F : /\ [files EXCEPT !.outbox = F].vault = files.vault
                  /\ [files EXCEPT !.outbox = F].outbox = F
    BY LogFacts DEF LogInv
  <1>c. Close(p) => CommandInv(p)'
    BY <1>0, ClosedCommand
  <1>s. UNCHANGED <<files, printed, deleted>> => DriveInv'
    BY DriveSame
  <1>1. CASE Enroll(p) BY <1>1, <1>c, <1>s DEF Enroll
  <1>2. CASE Leave(p) BY <1>2, <1>c, <1>s DEF Leave
  <1>3. CASE Encrypt(p)
    <2> DEFINE b == [id |-> blocks, step |-> mem[p].step + 1]
    <2>1. /\ pc[p] = "open" /\ pc' = [pc EXCEPT ![p] = "staged"]
          /\ cmd' = [cmd EXCEPT ![p] = "send"]
          /\ files.outbox = {} /\ files' = files /\ printed' = printed /\ deleted' = deleted
      BY <1>3, <1>0 DEF Encrypt, Begins
    <2>2. mem' = [mem EXCEPT ![p] = [mem[p] EXCEPT !.step = @ + 1, !.sent = @ \cup {b}]]
      BY <1>3, Zenon DEF Encrypt
    <2>3. held' = [held EXCEPT ![p] = {[gen |-> mem[p].gen + 1, block |-> b]}]
      BY <1>3, Zenon DEF Encrypt
    <2>4. b \in Block /\ b.step = mem[p].step + 1
      BY <1>0 DEF TypeOK, Block
    <2>5. mem[p].sent = files.vault.sent /\ mem[p].step = files.vault.step
          /\ mem[p].gen = files.vault.gen
      BY <2>1, <1>0 DEF InStep, AtGen
    <2> HIDE DEF b
    <2>6. /\ mem'[p].step = mem[p].step + 1 /\ mem'[p].sent = mem[p].sent \cup {b}
          /\ held'[p] = {[gen |-> mem[p].gen + 1, block |-> b]}
          /\ pc'[p] = "staged" /\ cmd'[p] = "send"
      BY <2>1, <2>2, <2>3, <1>0 DEF TypeOK, Store
    <2>7. InStep(p)'
      BY <2>1, <2>4, <2>5, <2>6 DEF InStep, Sending
    <2>8. Holds(p)'
      BY <2>1, <2>4, <2>6, <1>0 DEF Holds, Sending, IsOption, Outbox
    <2>9. Command(p)' /\ Printable(p)'
      BY <2>6 DEF Printable
    <2> QED BY <2>1, <2>7, <2>8, <2>9, <1>s
  <1>4. CASE WriteOutbox(p)
    <2>1. CASE Close(p) /\ UNCHANGED files
      BY <1>4, <2>1, <1>c, <1>s DEF WriteOutbox
    <2>2. CASE Change([files EXCEPT !.outbox = held[p]]) /\ Step(p, "outboxed")
      <3>1. /\ files'.vault = files.vault /\ files'.outbox = held[p]
            /\ UNCHANGED <<printed, deleted, cmd, mem, held>>
            /\ pc[p] = "staged" /\ pc'[p] = "outboxed"
        BY <1>4, <2>2, <1>0 DEF WriteOutbox, Change, TypeOK
      <3>2. \A o \in files.outbox : o.gen # files.vault.gen
        BY <3>1, <1>0 DEF InStep, Holds, Sending
      <3>3. CommittedIsRecoverable'
        BY <3>1, <3>2 DEF LogInv, CommittedIsRecoverable
      <3>4. DriveInv'
        BY <3>1, <3>3, <1>0 DEF LogInv, DriveInv, StepsOnce, ExportedIsCommitted, Holds, IsOption
      <3>5. CommandInv(p)'
        BY <3>1, <1>0 DEF InStep, Sending, Holds, Printable, IsOption
      <3> QED BY <3>4, <3>5
    <2> QED BY <1>4, <2>1, <2>2 DEF WriteOutbox
  <1>5. CASE FlushOutbox(p)
    BY <1>5, <1>0, <1>c, <1>s DEF FlushOutbox, InStep, Sending, Holds, Printable, IsOption, TypeOK
  <1>6. CASE Update(p)
    BY <1>6, <1>0, <1>s DEF Update, Begins, InStep, Sending, Holds, Printable, IsOption, TypeOK
  <1>7. CASE WriteBlock(p)
    <2>1. CASE Close(p) /\ UNCHANGED printed
      BY <1>7, <2>1, <1>c, <1>s DEF WriteBlock
    <2>2. CASE printed' = printed \cup {o.block : o \in held[p]} /\ Step(p, "printed")
      <3>1. /\ UNCHANGED <<files, deleted, cmd, mem, held>>
            /\ pc[p] = "saved" /\ cmd[p] \in {"send", "outbox"} /\ pc'[p] = "printed"
        BY <1>7, <2>2, <1>0 DEF WriteBlock, TypeOK
      <3>2. held[p] # {} /\ \A o \in held[p] : o.block \in files.vault.sent
        BY <3>1, <1>0 DEF Printable
      <3>3. DriveInv'
        BY <2>2, <3>1, <3>2 DEF LogInv, DriveInv, StepsOnce, ExportedIsCommitted,
           CommittedIsRecoverable, IsOption
      <3>4. CommandInv(p)'
        BY <2>2, <3>1, <3>2, <1>0 DEF InStep, Sending, Holds, Printable, IsOption
      <3> QED BY <3>3, <3>4
    <2> QED BY <1>7, <2>1, <2>2, <1>0 DEF WriteBlock
  <1>8. CASE RemoveOutbox(p)
    <2>1. CASE Change([files EXCEPT !.outbox = {}])
      <3>1. \A o \in files.outbox : o.block \in printed
        BY <1>8, <1>0 DEF RemoveOutbox, Holds, Printable
      <3> QED BY <1>8, <2>1, <3>1, <1>c, DriveBare DEF RemoveOutbox
    <2> QED BY <1>8, <2>1, <1>c, <1>s DEF RemoveOutbox
  <1>9. CASE CheckOutbox(p)
    <2>1. CASE Close(p)
      BY <1>9, <2>1, <1>c, <1>s DEF CheckOutbox
    <2>2. CASE Step(p, "saved") /\ \E o \in held[p] : o.gen = mem[p].gen
      <3>1. /\ UNCHANGED <<files, printed, deleted, cmd, mem, held>>
            /\ pc[p] = "open" /\ cmd[p] = "outbox" /\ pc'[p] = "saved"
        BY <1>9, <2>2, <1>0 DEF CheckOutbox, Begins, TypeOK
      <3>2. held[p] # {} /\ \A o \in held[p] : o.block \in files.vault.sent
        BY <2>2, <3>1, <1>0 DEF Printable, Holds, IsOption, AtGen
      <3> QED BY <3>1, <3>2, <1>0, <1>s DEF InStep, Sending, Holds, Printable, IsOption
    <2> QED BY <1>9, <2>1, <2>2 DEF CheckOutbox
  <1>10. CASE PrepareSave(p)
    <2>1. /\ UNCHANGED <<files, printed, deleted, cmd, held>> /\ pc[p] = "save"
          /\ pc'[p] \in {"sealed", "failed"}
      BY <1>10, <1>0 DEF PrepareSave, TypeOK
    <2>2. CASE UNCHANGED mem
      BY <2>1, <2>2, <1>0, <1>s DEF InStep, Sending, Holds, Printable, IsOption
    <2>3. CASE mem' = [mem EXCEPT ![p] =
                         [mem[p] EXCEPT !.prev = files.vault.digest,
                                        !.gen = IF @ < MaxGen THEN @ + 1 ELSE @]]
      <3>1. mem'[p].sent = mem[p].sent /\ mem'[p].step = mem[p].step
        BY <2>3, <1>0 DEF TypeOK, Store
      <3> QED BY <2>1, <3>1, <1>0, <1>s DEF InStep, Sending, Holds, Printable, IsOption
    <2> QED BY <1>10, <2>2, <2>3 DEF PrepareSave
  <1>11. CASE WriteVault(p)
    <2> DEFINE v == SealOf(mem[p], seals + 1)
    <2>0. UNCHANGED <<printed, deleted>> /\ pc[p] = "sealed" /\ UNCHANGED <<cmd, mem, held>>
      BY <1>11 DEF WriteVault
    <2>1. CASE Step(p, "failed") /\ UNCHANGED files
      BY <2>0, <2>1, <1>0, <1>s DEF InStep, Sending, Holds, Printable, IsOption, TypeOK
    <2>2. CASE Change([files EXCEPT !.vault = v]) /\ Step(p, "renamed")
      <3>1. v.sent = mem[p].sent /\ v.step = mem[p].step /\ v.gen = files.vault.gen + 1
        BY <2>0, <1>0 DEF SealOf, AtGen
      <3> HIDE DEF v
      <3>2. /\ files' = [files EXCEPT !.vault = v]
            /\ files'.vault = v /\ files'.outbox = files.outbox /\ pc'[p] = "renamed"
        BY <2>2, <1>0 DEF Change, TypeOK, Files
      <3>3. CASE cmd[p] \in {"update", "card"}
        <4>1. files.outbox = {} /\ v.sent = files.vault.sent /\ v.step = files.vault.step
          BY <2>0, <3>1, <3>3, <1>0 DEF InStep, Holds
        <4>2. DriveInv'
          BY <2>0, <3>2, <4>1, DriveSealed
        <4> QED BY <2>0, <3>2, <3>3, <4>1, <4>2, <1>0 DEF InStep, Sending, Holds, Printable, IsOption
      <3>4. CASE cmd[p] = "send"
        <4>1. PICK b \in {o.block : o \in held[p]} :
                /\ held[p] = {[gen |-> files.vault.gen + 1, block |-> b]}
                /\ b.step = files.vault.step + 1 /\ mem[p].step = b.step
                /\ mem[p].sent = files.vault.sent \cup {b}
          BY <2>0, <3>4, <1>0 DEF InStep, Sending
        <4>2. b \in Block
          BY <1>0 DEF TypeOK, Outbox
        <4>3. \A o \in files.outbox : o.gen # files.vault.gen
          BY <4>1, <1>0 DEF Holds
        <4>4. b \in deleted \/ \E o \in files.outbox : o.gen = v.gen /\ o.block = b
          BY <2>0, <3>1, <3>4, <4>1, <1>0 DEF Holds, Sending
        <4>5. DriveInv'
          BY <2>0, <3>1, <3>2, <4>1, <4>2, <4>3, <4>4, DriveSealed
        <4>6. Printable(p)'
          BY <2>0, <3>1, <3>2, <3>4, <4>1 DEF Printable
        <4> QED BY <2>0, <3>2, <3>4, <4>5, <4>6, <1>0 DEF InStep, Sending, Holds, IsOption
      <3> QED BY <2>0, <3>3, <3>4, <1>0
    <2> HIDE DEF v
    <2> QED BY <1>11, <2>1, <2>2 DEF WriteVault, v
  <1>12. CASE FlushVault(p)
    BY <1>12, <1>0, <1>s DEF FlushVault, InStep, Sending, Holds, Printable, IsOption, TypeOK
  <1>13. CASE Reanchor(p)
    BY <1>13, <1>0, <1>s DEF Reanchor, InStep, Sending, Holds, Printable, IsOption, TypeOK
  <1>14. CASE Done(p)
    BY <1>14, <1>0, <1>c, <1>s DEF Done, Finish
  <1>15. CASE Fail(p)
    <2>1. CASE /\ Change([files EXCEPT !.outbox = {}])
               /\ cmd[p] = "send"
               /\ \A o \in held[p] : o.gen # files.vault.gen
      <3>1. \A o \in files.outbox : o.gen # files.vault.gen
        BY <1>15, <2>1, <1>0 DEF Fail, Holds
      <3>2. UNCHANGED <<printed, deleted>> /\ Finish(p)
        BY <1>15 DEF Fail
      <3>4. CommandInv(p)'
        BY <3>2, <1>0, <1>c DEF Finish
      <3>3. DriveInv'
        BY <2>1, <3>1, <3>2, DriveBare
      <3> QED BY <3>4, <3>3
    <2>2. CASE UNCHANGED files
      BY <1>15, <2>2, <1>0, <1>c, <1>s DEF Fail, Finish
    <2> QED BY <1>15, <2>1, <2>2 DEF Fail
  <1>16. CASE BeginRekey(p)
    BY <1>16, <1>0, <1>s DEF BeginRekey, Begins, InStep, Sending, Holds, Printable, IsOption, TypeOK
  <1>17. CASE Promote(p)
    <2> DEFINE v == [SealOf(mem[p], seals + 1) EXCEPT !.gen = mem[p].gen + 1,
                                                      !.key = seals + 1]
    <2>0. /\ UNCHANGED <<printed, deleted>> /\ pc[p] = "rekeying" /\ cmd[p] = "rekey"
          /\ UNCHANGED <<cmd, mem, held>>
      BY <1>17, <1>0 DEF Promote
    <2>1. CASE Step(p, "failed") /\ UNCHANGED files
      BY <2>0, <2>1, <1>0, <1>s DEF InStep, Sending, Holds, Printable, IsOption, TypeOK
    <2>2. CASE Change([files EXCEPT !.vault = v]) /\ Step(p, "promoted")
      <3>1. v.sent = mem[p].sent /\ v.step = mem[p].step
        BY DEF SealOf
      <3> HIDE DEF v
      <3>2. /\ files' = [files EXCEPT !.vault = v]
            /\ files'.vault = v /\ files'.outbox = files.outbox /\ pc'[p] = "promoted"
        BY <2>2, <1>0 DEF Change, TypeOK, Files
      <3>3. files.outbox = {} /\ v.sent = files.vault.sent /\ v.step = files.vault.step
        BY <2>0, <3>1, <1>0 DEF InStep, Holds
      <3>4. DriveInv'
        BY <2>0, <3>2, <3>3, DriveSealed
      <3> QED BY <2>0, <3>2, <3>3, <3>4, <1>0 DEF InStep, Sending, Holds, Printable, IsOption
    <2> HIDE DEF v
    <2> QED BY <1>17, <2>1, <2>2 DEF Promote, v
  <1>18. CASE FlushRekey(p)
    BY <1>18, <1>0, <1>s DEF FlushRekey, InStep, Sending, Holds, Printable, IsOption, TypeOK
  <1>19. CASE FinishRekey(p)
    <2>1. CASE Close(p)
      BY <1>19, <2>1, <1>c, <1>s DEF FinishRekey
    <2>2. CASE Step(p, "failed")
      BY <1>19, <2>2, <1>0, <1>s DEF FinishRekey, InStep, Sending, Holds, Printable, IsOption, TypeOK
    <2> QED BY <1>19, <2>1, <2>2, <1>0 DEF FinishRekey
  <1>20. CASE Card(p)
    <2>1. /\ pc[p] = "open" /\ UNCHANGED <<files, printed, deleted>>
      BY <1>20, <1>0, CardMoves
    <2>2. CASE Finish(p)
      BY <2>1, <2>2, <1>0, <1>c, <1>s DEF Finish
    <2>3. ASSUME NEW S \in SUBSET Nat,
                 mem' = [mem EXCEPT ![p] = [mem[p] EXCEPT !.prekeys = S]],
                 pc' = [pc EXCEPT ![p] = "save"], cmd' = [cmd EXCEPT ![p] = "card"],
                 files.outbox = {}, UNCHANGED held
          PROVE  CommandInv(p)'
      <3>1. /\ pc'[p] = "save" /\ cmd'[p] = "card"
            /\ mem'[p].sent = mem[p].sent /\ mem'[p].step = mem[p].step
        BY <2>3, <1>0, DrawKeeps DEF TypeOK
      <3> QED BY <2>1, <2>3, <3>1, <1>0 DEF InStep, Sending, Holds, Printable, IsOption
    <2> QED BY <1>20, <1>0, <1>s, <2>1, <2>2, <2>3, CardMoves
  <1>21. CASE ShowCard(p)
    BY <1>21, <1>0, <1>c, <1>s DEF ShowCard, Finish
  <1> QED
    BY <1>1, <1>2, <1>3, <1>4, <1>5, <1>6, <1>7, <1>8, <1>9, <1>10, <1>11,
       <1>12, <1>13, <1>14, <1>15, <1>16, <1>17, <1>18, <1>19, <1>20, <1>21 DEF Runs

LEMMA LogInit == Init => LogInv
  <1> SUFFICES ASSUME Init PROVE LogInv
    OBVIOUS
  <1>1. \A p \in Procs : CommandInv(p)
    BY DEF Init, CommandInv, Command, InStep, Sending, Writing, Holds, Printable, IsOption
  <1> QED
    BY <1>1, OutboxInit DEF Init, LogInv, StepsOnce, ExportedIsCommitted,
       CommittedIsRecoverable, IsOption

LEMMA LogStep ==
  ASSUME OneCommand
  PROVE  LogInv /\ [Next]_vars => LogInv'
  <1> USE DEF CommandInv, Command, Writing
  <1> SUFFICES ASSUME LogInv, [Next]_vars
               PROVE  DriveInv' /\ \A p \in Procs : CommandInv(p)'
    BY OutboxStep DEF LogInv, DriveInv
  <1>s. UNCHANGED <<files, printed, deleted>> => DriveInv'
    BY DriveSame
  <1>0. \A p, q \in Procs : p = q
    BY DEF OneCommand
  <1>1. ASSUME NEW p \in Procs, ReadOutbox(p)
        PROVE  DriveInv' /\ CommandInv(p)'
    <2>1. /\ TypeOK /\ CommandInv(p) /\ NotStale(files) /\ IsOption(files.outbox, Outbox)
      BY LogFacts DEF LogInv
    <2>2. /\ UNCHANGED <<files, printed, deleted>> /\ pc'[p] = "armed"
          /\ cmd'[p] = "outbox" /\ held'[p] = files.outbox
      BY <1>1, <2>1 DEF ReadOutbox, TypeOK
    <2> QED BY <2>1, <2>2, <1>s DEF NotStale, InStep, Sending, Holds, Printable, IsOption
  <1>2. ASSUME NEW p \in Procs, NEW c \in Commands, Open(p, c)
        PROVE  DriveInv' /\ CommandInv(p)'
    <2>1. /\ TypeOK /\ CommandInv(p) /\ UNCHANGED <<files, printed, deleted>>
      BY <1>2, LogFacts DEF Open
    <2>2. CASE Close(p)
      BY <2>1, <2>2, <1>s, ClosedCommand DEF LogInv
    <2>3. CASE /\ pc' = [pc EXCEPT ![p] = "open"]
               /\ cmd' = [cmd EXCEPT ![p] = c]
               /\ mem' = [mem EXCEPT ![p] = StoreOf(files.vault)]
               /\ UNCHANGED held
      <3>1. /\ pc'[p] = "open" /\ cmd'[p] = c
            /\ mem'[p].sent = files.vault.sent /\ mem'[p].step = files.vault.step
        BY <2>1, <2>3 DEF TypeOK, StoreOf
      <3>2. c = "outbox" => cmd[p] = "outbox"
        BY <1>2, <2>1 DEF Open
      <3> QED BY <2>1, <2>3, <3>1, <3>2, <1>s DEF InStep, Sending, Holds, Printable, IsOption
    <2> QED BY <1>2, <2>2, <2>3 DEF Open
  <1>3. ASSUME NEW p \in Procs, Runs(p)
        PROVE  DriveInv' /\ CommandInv(p)'
    BY <1>3, RunsLog
  <1>4. ASSUME NEW p \in Procs, Kill(p)
        PROVE  DriveInv' /\ CommandInv(p)'
    BY <1>4, <1>s, ClosedCommand DEF Kill, LogInv
  <1>5. CASE LosePower
    BY <1>5 DEF LosePower, OneCommand, OnlyCommands
  <1>6. CASE DeleteOutbox
    <2>1. /\ Change([files EXCEPT !.outbox = {}])
          /\ deleted' = deleted \cup {o.block : o \in files.outbox}
          /\ UNCHANGED <<pc, cmd, mem, held, printed>>
      BY <1>6 DEF DeleteOutbox
    <2>2. DriveInv'
      BY <2>1, DriveBare
    <2>3. ASSUME NEW p \in Procs PROVE CommandInv(p)'
      <3>1. CommandInv(p) /\ files'.vault = files.vault /\ files'.outbox = {}
        BY <2>1, LogFacts DEF Change
      <3> QED BY <2>1, <3>1 DEF InStep, Sending, Holds, Printable, IsOption
    <2> QED BY <2>2, <2>3
  <1>7. CASE UNCHANGED vars
    BY <1>7, <1>s DEF vars, LogInv, InStep, Sending, Holds, Printable, IsOption
  <1> QED BY <1>0, <1>1, <1>2, <1>3, <1>4, <1>5, <1>6, <1>7 DEF Next

(* A message whose ratchet step the vault has consumed was printed, or     *)
(* waits in the outbox, or the user deleted that: whatever commands fail   *)
(* or are killed, as long as one runs at a time.                           *)
THEOREM MessagesRecoverable ==
  ASSUME OneCommand PROVE Spec => []CommittedIsRecoverable
  <1>1. LogInv => CommittedIsRecoverable
    BY DEF LogInv
  <1> QED BY <1>1, LogInit, LogStep, PTL DEF Spec

(* No two blocks that were printed used the same ratchet step.             *)
THEOREM StepsExportedOnce ==
  ASSUME OneCommand PROVE Spec => []NoStepExportedTwice
  <1>1. LogInv => NoStepExportedTwice
    BY DEF LogInv, StepsOnce, ExportedIsCommitted, NoStepExportedTwice
  <1> QED BY <1>1, LogInit, LogStep, PTL DEF Spec

(* What a step does to the log: it commits or prints one block.            *)
LEMMA LogMoves ==
  ASSUME OneCommand, LogInv, LogInv', [Next]_vars
  PROVE  \/ files.vault.sent \subseteq files'.vault.sent /\ UNCHANGED printed
         \/ /\ \E b \in files.vault.sent : printed' = printed \cup {b}
            /\ files'.vault.sent = files.vault.sent
  <1> DEFINE Goal == \/ files.vault.sent \subseteq files'.vault.sent /\ UNCHANGED printed
                     \/ /\ \E b \in files.vault.sent : printed' = printed \cup {b}
                        /\ files'.vault.sent = files.vault.sent
  <1>1. ASSUME NEW p \in Procs, WriteVault(p) PROVE Goal
    <2>1. /\ TypeOK /\ CommandInv(p)
      BY LogFacts
    <2>2. pc[p] = "sealed" /\ UNCHANGED printed
      BY <1>1 DEF WriteVault
    <2>3. files.vault.sent \subseteq mem[p].sent
      BY <2>1, <2>2 DEF CommandInv, Command, Writing, InStep, Sending
    <2>4. files'.vault.sent \in {files.vault.sent, mem[p].sent}
      BY <1>1, <2>1 DEF WriteVault, Change, SealOf, TypeOK, Files
    <2> QED BY <2>2, <2>3, <2>4
  <1>2. ASSUME NEW p \in Procs, Promote(p) PROVE Goal
    <2>1. /\ TypeOK /\ CommandInv(p)
      BY LogFacts
    <2>2. pc[p] = "rekeying" /\ UNCHANGED printed
      BY <1>2 DEF Promote
    <2>3. files.vault.sent = mem[p].sent
      BY <2>1, <2>2 DEF CommandInv, InStep
    <2> DEFINE v == [SealOf(mem[p], seals + 1) EXCEPT !.gen = mem[p].gen + 1,
                                                      !.key = seals + 1]
    <2>4. v.sent = mem[p].sent
      BY DEF SealOf
    <2> HIDE DEF v
    <2>5. files' = files \/ files' = [files EXCEPT !.vault = v]
      BY <1>2 DEF Promote, Change, v
    <2>6. files'.vault \in {files.vault, v}
      BY <2>5, <2>1 DEF TypeOK, Files
    <2> QED BY <2>2, <2>3, <2>4, <2>6
  <1>3. ASSUME NEW p \in Procs, WriteBlock(p) PROVE Goal
    <2>1. /\ TypeOK /\ CommandInv(p) /\ files' = files
      BY <1>3, LogFacts DEF WriteBlock
    <2>2. CASE printed' = printed \cup {o.block : o \in held[p]}
      <3>1. held[p] # {} /\ \A o \in held[p] : o.block \in files.vault.sent
        BY <1>3, <2>1 DEF WriteBlock, CommandInv, Printable
      <3>2. PICK o \in held[p] : held[p] = {o}
        BY <2>1, <3>1 DEF CommandInv, Holds, IsOption
      <3>3. printed' = printed \cup {o.block}
        BY <2>2, <3>2
      <3> QED BY <2>1, <3>1, <3>3
    <2> QED BY <1>3, <2>1, <2>2 DEF WriteBlock
  <1>4. ASSUME ~(\E p \in Procs : WriteVault(p) \/ Promote(p) \/ WriteBlock(p))
        PROVE  Goal
    <2> SUFFICES files'.vault = files.vault /\ UNCHANGED printed
      OBVIOUS
    <2>1. \A F : [files EXCEPT !.outbox = F].vault = files.vault
      BY DEF LogInv, OutboxInv, LockInv, TypeOK, Files
    <2>2. ASSUME NEW p \in Procs, Runs(p)
          PROVE  files'.vault = files.vault /\ UNCHANGED printed
      BY <1>4, <2>1, <2>2 DEF Runs, Change, Flush, Enroll, Leave, Encrypt, WriteOutbox,
         FlushOutbox, Update, Card, ShowCard, RemoveOutbox, CheckOutbox, PrepareSave,
         FlushVault, Reanchor, Done, Fail, BeginRekey, FlushRekey, FinishRekey
    <2>3. ASSUME NEW p \in Procs,
                 ReadOutbox(p) \/ (\E c \in Commands : Open(p, c)) \/ Kill(p)
          PROVE  files'.vault = files.vault /\ UNCHANGED printed
      BY <2>3 DEF ReadOutbox, Open, Kill
    <2>4. CASE DeleteOutbox
      BY <2>1, <2>4 DEF DeleteOutbox, Change
    <2>5. CASE LosePower
      BY <2>5 DEF LosePower, OneCommand, OnlyCommands
    <2>6. CASE UNCHANGED vars
      BY <2>6 DEF vars
    <2> QED BY <2>2, <2>3, <2>4, <2>5, <2>6 DEF Next
  <1> QED BY <1>1, <1>2, <1>3, <1>4

(* The vault with its files, anchors and crashes keeps the promise of      *)
(* MessageLog: a block is committed, once per step and for good, before it *)
(* is handed out.                                                          *)
THEOREM VaultKeepsLog ==
  ASSUME OneCommand PROVE Spec => KeepsMessageLog
  <1>1. Init => Log!Init
    BY DEF Init, Log!Init
  <1>2. LogInv /\ LogInv' /\ [Next]_vars => [Log!Next]_(Log!vars)
    <2> SUFFICES ASSUME LogInv, LogInv', [Next]_vars PROVE Log!Next \/ UNCHANGED Log!vars
      OBVIOUS
    <2>1. Log!OneBlockPerStep(files'.vault.sent)
      BY DEF LogInv, StepsOnce, Log!OneBlockPerStep
    <2> QED BY <2>1, LogMoves DEF Log!Next, Log!Commit, Log!Export, Log!vars
  <1> QED BY <1>1, <1>2, LogInit, LogStep, PTL DEF Spec, KeepsMessageLog, Log!Spec

-----------------------------------------------------------------------------
(* The passphrases.                                                        *)

(* A running process works under a phrase the user was shown, and a rekey  *)
(* has shown the one it is about to use: the next container is its own,    *)
(* because nobody else runs.                                               *)
Known(p) ==
  /\ Running(p) => mem[p].key \in shown
  /\ pc[p] = "rekeying" => seals + 1 \in shown
PhraseInv == LockInv /\ VaultOpenable /\ \A p \in Procs : Known(p)

LEMMA PhraseInit == Init => PhraseInv
BY LockInit DEF Init, PhraseInv, VaultOpenable, Known, Running

(* A change of the directory that keeps the container, or puts one in its  *)
(* place whose phrase was shown.                                           *)
LEMMA ChangeOpenable ==
  ASSUME PhraseInv, NEW f, Change(f), f.vault.key \in shown', shown \subseteq shown'
  PROVE  VaultOpenable'
BY DEF PhraseInv, VaultOpenable, Change

LEMMA OutboxOpenable ==
  ASSUME PhraseInv, NEW F, Change([files EXCEPT !.outbox = F]), shown \subseteq shown'
  PROVE  VaultOpenable'
  <1>1. [files EXCEPT !.outbox = F].vault.key \in shown
    BY DEF PhraseInv, LockInv, TypeOK, VaultOpenable, Files
  <1> QED BY <1>1 DEF PhraseInv, VaultOpenable, Change

LEMMA RunsPhrase ==
  ASSUME Gui = {}, PhraseInv, NEW p \in Procs, Runs(p)
  PROVE  VaultOpenable' /\ Known(p)'
  <1> USE DEF Known, Running
  <1>0. /\ TypeOK /\ VaultOpenable /\ files \in durable /\ Known(p)
        /\ files.vault.key \in shown
        /\ \A F : [files EXCEPT !.outbox = F].vault = files.vault
    BY DEF PhraseInv, LockInv, TypeOK, VaultOpenable, Files
  <1>c. Close(p) => Known(p)'
    BY <1>0 DEF TypeOK, Close
  <1>s. shown \subseteq shown' /\ (durable' = durable \/ durable' = {files})
          => VaultOpenable'
    BY <1>0 DEF VaultOpenable
  <1>b. ASSUME NEW F, Change([files EXCEPT !.outbox = F]), shown' = shown
        PROVE  VaultOpenable'
    BY <1>b, OutboxOpenable
  <1> USE DEF Flush
  <1>1. CASE Enroll(p) BY <1>1, <1>c, <1>s DEF Enroll
  <1>2. CASE Leave(p) BY <1>2, <1>c, <1>s DEF Leave
  <1>3. CASE Encrypt(p)
    <2>1. mem'[p].key = mem[p].key /\ pc'[p] \in {"staged", "save"}
      BY <1>3, <1>0 DEF Encrypt, TypeOK, Store
    <2> QED BY <1>3, <2>1, <1>0, <1>s DEF Encrypt, Begins
  <1>4. CASE WriteOutbox(p)
    BY <1>4, <1>0, <1>c, <1>s, <1>b DEF WriteOutbox, TypeOK
  <1>5. CASE FlushOutbox(p)
    BY <1>5, <1>0, <1>c, <1>s DEF FlushOutbox, TypeOK
  <1>6. CASE Update(p)
    BY <1>6, <1>0, <1>s DEF Update, Begins, TypeOK
  <1>7. CASE WriteBlock(p)
    BY <1>7, <1>0, <1>c, <1>s DEF WriteBlock, Finish, TypeOK
  <1>8. CASE RemoveOutbox(p)
    BY <1>8, <1>0, <1>c, <1>s, <1>b DEF RemoveOutbox
  <1>9. CASE CheckOutbox(p)
    BY <1>9, <1>0, <1>c, <1>s DEF CheckOutbox, Begins, TypeOK
  <1>10. CASE PrepareSave(p)
    <2>1. mem'[p].key = mem[p].key /\ pc'[p] \in {"sealed", "failed"}
      <3>1. pc'[p] \in {"sealed", "failed"}
        BY <1>10, <1>0 DEF PrepareSave, TypeOK
      <3>2. \/ mem' = mem
            \/ mem' = [mem EXCEPT ![p] =
                         [mem[p] EXCEPT !.prev = files.vault.digest,
                                        !.gen = IF @ < MaxGen THEN @ + 1 ELSE @]]
        BY <1>10 DEF PrepareSave
      <3> QED BY <3>1, <3>2, <1>0 DEF TypeOK, Store
    <2> QED BY <1>10, <2>1, <1>0, <1>s DEF PrepareSave
  <1>11. CASE WriteVault(p)
    <2>1. mem' = mem /\ shown' = shown /\ pc[p] = "sealed" /\ pc'[p] \in {"renamed", "failed"}
      BY <1>11, <1>0 DEF WriteVault, TypeOK
    <2>2. Known(p)'
      BY <2>1, <1>0
    <2>3. CASE Change([files EXCEPT !.vault = SealOf(mem[p], seals + 1)])
      <3>1. [files EXCEPT !.vault = SealOf(mem[p], seals + 1)].vault.key = mem[p].key
        BY <1>0 DEF SealOf, TypeOK, Files
      <3> QED BY <2>1, <2>2, <2>3, <3>1, <1>0, ChangeOpenable
    <2> QED BY <1>11, <2>1, <2>2, <2>3, <1>s DEF WriteVault
  <1>12. CASE FlushVault(p)
    BY <1>12, <1>0, <1>s DEF FlushVault, TypeOK
  <1>13. CASE Reanchor(p)
    BY <1>13, <1>0, <1>s DEF Reanchor, TypeOK
  <1>14. CASE Done(p)
    BY <1>14, <1>0, <1>c, <1>s DEF Done, Finish, TypeOK
  <1>15. CASE Fail(p)
    <2>1. VaultOpenable'
      BY <1>15, <1>s, <1>b DEF Fail
    <2> QED BY <1>15, <2>1, <1>0, <1>c DEF Fail, Finish, TypeOK
  <1>16. CASE BeginRekey(p)
    BY <1>16, <1>0, <1>s DEF BeginRekey, Begins, TypeOK
  <1>17. CASE Promote(p)
    <2> DEFINE v == [SealOf(mem[p], seals + 1) EXCEPT !.gen = mem[p].gen + 1,
                                                      !.key = seals + 1]
    <2>1. /\ UNCHANGED <<mem, shown>> /\ pc[p] = "rekeying"
          /\ pc'[p] \in {"promoted", "failed"}
      BY <1>17, <1>0 DEF Promote, TypeOK
    <2>2. Known(p)'
      BY <2>1, <1>0
    <2>3. v.key = seals + 1
      BY DEF SealOf
    <2> HIDE DEF v
    <2>4. [files EXCEPT !.vault = v].vault.key \in shown
      BY <2>1, <2>3, <1>0 DEF TypeOK, Files
    <2>5. Change([files EXCEPT !.vault = v]) => VaultOpenable'
      BY <2>1, <2>4, ChangeOpenable
    <2>6. Change([files EXCEPT !.vault = v]) \/ durable' = durable
      BY <1>17 DEF Promote, v
    <2> QED BY <2>1, <2>2, <2>5, <2>6, <1>s
  <1>18. CASE FlushRekey(p)
    <2>1. mem'[p].key = mem[p].key /\ pc'[p] \in {"rekeyed", "failed"}
      BY <1>18, <1>0 DEF FlushRekey, TypeOK, Store
    <2> QED BY <1>18, <2>1, <1>0, <1>s DEF FlushRekey
  <1>19. CASE FinishRekey(p)
    <2>1. shown \subseteq shown' /\ durable' = durable
      BY <1>19 DEF FinishRekey
    <2>2. CASE Close(p)
      BY <2>1, <2>2, <1>c, <1>s
    <2>3. CASE /\ mem' = [mem EXCEPT ![p].key = files.vault.key]
               /\ pc' = [pc EXCEPT ![p] = "open"]
      <3>1. mem'[p].key = files.vault.key /\ pc'[p] = "open"
        BY <2>3, <1>0 DEF TypeOK, Store
      <3> QED BY <2>1, <3>1, <1>0, <1>s
    <2>4. CASE Step(p, "failed")
      BY <1>19, <2>1, <2>4, <1>0, <1>s DEF FinishRekey, TypeOK
    <2> QED BY <1>19, <2>2, <2>3, <2>4 DEF FinishRekey
  <1>20. CASE Card(p)
    <2>1. /\ pc[p] = "open" /\ UNCHANGED <<durable, shown, seals>>
      BY <1>20, <1>0, CardMoves
    <2>2. CASE Finish(p)
      BY <2>1, <2>2, <1>0, <1>c, <1>s DEF Finish, TypeOK
    <2>3. ASSUME NEW S \in SUBSET Nat,
                 mem' = [mem EXCEPT ![p] = [mem[p] EXCEPT !.prekeys = S]],
                 pc' = [pc EXCEPT ![p] = "save"]
          PROVE  Known(p)'
      BY <2>1, <2>3, <1>0, DrawKeeps DEF TypeOK
    <2> QED BY <1>20, <1>0, <1>s, <2>1, <2>2, <2>3, CardMoves
  <1>21. CASE ShowCard(p)
    BY <1>21, <1>0, <1>c, <1>s DEF ShowCard, Finish, TypeOK
  <1> QED
    BY <1>1, <1>2, <1>3, <1>4, <1>5, <1>6, <1>7, <1>8, <1>9, <1>10, <1>11,
       <1>12, <1>13, <1>14, <1>15, <1>16, <1>17, <1>18, <1>19, <1>20, <1>21 DEF Runs

LEMMA PhraseStep ==
  ASSUME Gui = {}
  PROVE  PhraseInv /\ [Next]_vars => PhraseInv'
  <1> SUFFICES ASSUME PhraseInv, [Next]_vars
               PROVE  VaultOpenable' /\ \A q \in Procs : Known(q)'
    BY LockStep DEF PhraseInv
  <1>0. LockInv /\ TypeOK /\ files.vault.key \in shown
    BY DEF PhraseInv, LockInv, TypeOK, VaultOpenable
  <1>1. ASSUME NEW p \in Procs, ReadOutbox(p)
        PROVE  VaultOpenable' /\ \A q \in Procs : Known(q)'
    BY <1>0, <1>1 DEF ReadOutbox, PhraseInv, VaultOpenable, Known, Running, TypeOK
  <1>2. ASSUME NEW p \in Procs, NEW c \in Commands, Open(p, c)
        PROVE  VaultOpenable' /\ \A q \in Procs : Known(q)'
    <2>1. VaultOpenable' /\ UNCHANGED <<shown, seals>>
      BY <1>2 DEF Open, PhraseInv, VaultOpenable
    <2>2. CASE Close(p)
      BY <1>0, <2>1, <2>2 DEF Close, PhraseInv, Known, Running, TypeOK
    <2>3. CASE /\ pc' = [pc EXCEPT ![p] = "open"]
               /\ mem' = [mem EXCEPT ![p] = StoreOf(files.vault)]
      BY <1>0, <2>1, <2>3 DEF StoreOf, PhraseInv, Known, Running, TypeOK
    <2> QED BY <1>2, <2>1, <2>2, <2>3 DEF Open
  <1>3. ASSUME NEW p \in Procs, Runs(p)
        PROVE  VaultOpenable' /\ \A q \in Procs : Known(q)'
    <2>1. \A q \in Procs : q # p => ~Running(q)'
      BY <1>0, <1>3, RunsRunning, RunsHolder, Alone
    <2>2. \A q \in Procs : q # p => Known(q)'
      BY <2>1 DEF Running, Known
    <2> QED BY <2>2, <1>3, RunsPhrase
  <1>4. ASSUME NEW p \in Procs, Kill(p)
        PROVE  VaultOpenable' /\ \A q \in Procs : Known(q)'
    BY <1>0, <1>4 DEF Kill, Close, PhraseInv, VaultOpenable, Known, Running, TypeOK
  <1>5. CASE LosePower
    BY <1>5 DEF LosePower, PhraseInv, VaultOpenable, Known, Running
  <1>6. CASE DeleteOutbox
    <2>1. VaultOpenable'
      BY <1>6, OutboxOpenable DEF DeleteOutbox
    <2> QED BY <1>6, <2>1 DEF DeleteOutbox, PhraseInv, Known, Running
  <1>7. CASE UNCHANGED vars
    BY <1>7 DEF vars, PhraseInv, VaultOpenable, Known, Running
  <1> QED BY <1>1, <1>2, <1>3, <1>4, <1>5, <1>6, <1>7 DEF Next

(* Whoever was shown the phrases can open the vault, and every vault that  *)
(* a power loss may bring back, whatever rekeys fail or are killed, with   *)
(* commands and interfaces together; except under --structured-output.     *)
THEOREM PhrasesOpenVault ==
  ASSUME Gui = {} PROVE Spec => []VaultOpenable
  <1>1. PhraseInv => VaultOpenable
    BY DEF PhraseInv
  <1> QED BY <1>1, PhraseInit, PhraseStep, PTL DEF Spec

-----------------------------------------------------------------------------
(* What interfaces show.                                                   *)

(* An interface never writes an outbox.  Its store has consumed at least   *)
(* what the drive has; the block it sends is consumed in memory, and, once *)
(* the save is through, on the drive, which then has nothing left to flush.*)
Saved(p) ==
  /\ cmd[p] # "outbox"
  /\ pc[p] \notin {"armed", "staged", "outboxed", "printed"}
  /\ Running(p) => files.vault.sent \subseteq mem[p].sent
  /\ pc[p] \in Writing /\ cmd[p] = "send" =>
       \A o \in held[p] : o.block \in mem[p].sent
  /\ pc[p] \in {"renamed", "flushed", "saved"} /\ cmd[p] = "send" =>
       \A o \in held[p] : o.block \in files.vault.sent
  /\ pc[p] \in {"flushed", "saved"} => durable = {files}

Kept(d) == d.outbox = {} /\ printed \subseteq d.vault.sent
ShownInv ==
  /\ LockInv
  /\ \A d \in durable : Kept(d)
  /\ \A p \in Procs : Saved(p)

LEMMA ShownInit == Init => ShownInv
  <1> SUFFICES ASSUME Init PROVE ShownInv
    OBVIOUS
  <1> QED BY LockInit DEF Init, ShownInv, Kept, Saved, Running, Writing

(* A new container that has consumed what the old one had.                 *)
LEMMA KeptSealed ==
  ASSUME ShownInv, NEW v, Change([files EXCEPT !.vault = v]),
         files.vault.sent \subseteq v.sent, printed' = printed
  PROVE  /\ \A d \in durable' : Kept(d)'
         /\ files'.vault = v
  <1>1. files \in durable /\ files \in Files
    BY DEF ShownInv, LockInv, TypeOK
  <1>2. /\ [files EXCEPT !.vault = v].vault = v
        /\ [files EXCEPT !.vault = v].outbox = files.outbox
    BY <1>1 DEF Files
  <1> DEFINE new == [files EXCEPT !.vault = v]
  <1>3. new.vault = v /\ new.outbox = files.outbox
    BY <1>2
  <1>4. files' = new /\ durable' \subseteq durable \cup {new}
    BY DEF Change
  <1> HIDE DEF new
  <1> QED BY <1>1, <1>3, <1>4 DEF ShownInv, Kept

LEMMA RunsShown ==
  ASSUME Cli = {}, ShownInv, NEW p \in Procs, Runs(p)
  PROVE  (\A d \in durable' : Kept(d)') /\ Saved(p)'
  <1> USE DEF Saved, Running, Writing, Flush
  <1>0. /\ TypeOK /\ Saved(p) /\ files \in durable /\ Running(p) /\ p \notin Cli
        /\ \A d \in durable : Kept(d)
    BY RunsRunning DEF ShownInv, LockInv, TypeOK
  <1>s. printed' = printed /\ (durable' = durable \/ durable' = {files})
          => \A d \in durable' : Kept(d)'
    BY <1>0 DEF Kept
  <1>c. Close(p) => Saved(p)'
    BY <1>0 DEF Close, TypeOK
  <1>1. CASE Enroll(p) BY <1>1, <1>c, <1>s DEF Enroll
  <1>2. CASE Leave(p) BY <1>2, <1>c, <1>s DEF Leave
  <1>3. CASE Encrypt(p)
    <2> DEFINE b == [id |-> blocks, step |-> mem[p].step + 1]
    <2>1. mem' = [mem EXCEPT ![p] = [mem[p] EXCEPT !.step = @ + 1, !.sent = @ \cup {b}]]
      BY <1>3, Zenon DEF Encrypt
    <2>2. held' = [held EXCEPT ![p] = {[gen |-> mem[p].gen + 1, block |-> b]}]
      BY <1>3, Zenon DEF Encrypt
    <2>3. /\ pc' = [pc EXCEPT ![p] = "save"] /\ cmd' = [cmd EXCEPT ![p] = "send"]
          /\ UNCHANGED <<files, durable, printed>>
      BY <1>3, <1>0 DEF Encrypt
    <2> HIDE DEF b
    <2>4. /\ mem'[p].sent = mem[p].sent \cup {b}
          /\ held'[p] = {[gen |-> mem[p].gen + 1, block |-> b]}
          /\ pc'[p] = "save" /\ cmd'[p] = "send"
      BY <2>1, <2>2, <2>3, <1>0 DEF TypeOK, Store
    <2> QED BY <2>3, <2>4, <1>0, <1>s
  <1>4. CASE WriteOutbox(p) BY <1>4, <1>0 DEF WriteOutbox
  <1>5. CASE FlushOutbox(p) BY <1>5, <1>0 DEF FlushOutbox
  <1>6. CASE Update(p) BY <1>6, <1>0, <1>s DEF Update, TypeOK
  <1>7. CASE WriteBlock(p)
    <2>1. /\ printed' = printed \cup {o.block : o \in held[p]} /\ Finish(p)
          /\ UNCHANGED <<files, durable>> /\ pc[p] = "saved" /\ cmd[p] = "send"
      BY <1>7, <1>0 DEF WriteBlock
    <2>2. durable' = {files} /\ \A o \in held[p] : o.block \in files.vault.sent
      BY <2>1, <1>0
    <2>3. \A d \in durable' : Kept(d)'
      BY <2>1, <2>2, <1>0 DEF Kept
    <2>4. Saved(p)'
      BY <2>1, <1>0 DEF Finish, TypeOK
    <2> QED BY <2>3, <2>4
  <1>8. CASE RemoveOutbox(p) BY <1>8, <1>0 DEF RemoveOutbox
  <1>9. CASE CheckOutbox(p) BY <1>9, <1>0 DEF CheckOutbox, Begins
  <1>10. CASE PrepareSave(p)
    <2>1. /\ UNCHANGED <<files, durable, printed, cmd, held>> /\ pc[p] = "save"
          /\ pc'[p] \in {"sealed", "failed"}
      BY <1>10, <1>0 DEF PrepareSave, TypeOK
    <2>2. \/ mem' = mem
          \/ mem' = [mem EXCEPT ![p] =
                       [mem[p] EXCEPT !.prev = files.vault.digest,
                                      !.gen = IF @ < MaxGen THEN @ + 1 ELSE @]]
      BY <1>10 DEF PrepareSave
    <2>3. mem'[p].sent = mem[p].sent
      BY <2>2, <1>0 DEF TypeOK, Store
    <2> QED BY <2>1, <2>3, <1>0, <1>s
  <1>11. CASE WriteVault(p)
    <2> DEFINE v == SealOf(mem[p], seals + 1)
    <2>0. /\ UNCHANGED <<printed, cmd, mem, held>> /\ pc[p] = "sealed"
          /\ pc'[p] \in {"renamed", "failed"}
      BY <1>11, <1>0 DEF WriteVault, TypeOK
    <2>1. v.sent = mem[p].sent
      BY DEF SealOf
    <2> HIDE DEF v
    <2>2. CASE Step(p, "failed") /\ UNCHANGED <<files, durable>>
      BY <2>0, <2>2, <1>0, <1>s DEF TypeOK
    <2>3. CASE Change([files EXCEPT !.vault = v]) /\ Step(p, "renamed")
      <3>1. (\A d \in durable' : Kept(d)') /\ files'.vault = v
        BY <2>0, <2>1, <2>3, <1>0, KeptSealed
      <3>2. pc'[p] = "renamed"
        BY <2>3, <1>0 DEF TypeOK
      <3> QED BY <2>0, <2>1, <3>1, <3>2, <1>0
    <2> QED BY <1>11, <2>2, <2>3 DEF WriteVault, v
  <1>12. CASE FlushVault(p) BY <1>12, <1>0, <1>s DEF FlushVault, TypeOK
  <1>13. CASE Reanchor(p) BY <1>13, <1>0, <1>s DEF Reanchor, TypeOK
  <1>14. CASE Done(p) BY <1>14, <1>0, <1>c, <1>s DEF Done, Finish, TypeOK
  <1>15. CASE Fail(p) BY <1>15, <1>0, <1>c, <1>s DEF Fail, Finish, TypeOK
  <1>16. CASE BeginRekey(p) BY <1>16, <1>0, <1>s DEF BeginRekey, Begins, TypeOK
  <1>17. CASE Promote(p)
    <2> DEFINE v == [SealOf(mem[p], seals + 1) EXCEPT !.gen = mem[p].gen + 1,
                                                      !.key = seals + 1]
    <2>0. /\ UNCHANGED <<printed, cmd, mem, held>> /\ pc[p] = "rekeying"
          /\ pc'[p] \in {"promoted", "failed"}
      BY <1>17, <1>0 DEF Promote, TypeOK
    <2>1. v.sent = mem[p].sent
      BY DEF SealOf
    <2> HIDE DEF v
    <2>2. CASE Step(p, "failed") /\ UNCHANGED <<files, durable>>
      BY <2>0, <2>2, <1>0, <1>s DEF TypeOK
    <2>3. CASE Change([files EXCEPT !.vault = v]) /\ Step(p, "promoted")
      <3>1. (\A d \in durable' : Kept(d)') /\ files'.vault = v
        BY <2>0, <2>1, <2>3, <1>0, KeptSealed
      <3>2. pc'[p] = "promoted"
        BY <2>3, <1>0 DEF TypeOK
      <3> QED BY <2>0, <2>1, <3>1, <3>2, <1>0
    <2> QED BY <1>17, <2>2, <2>3 DEF Promote, v
  <1>18. CASE FlushRekey(p)
    <2>1. mem'[p].sent = mem[p].sent /\ pc'[p] \in {"rekeyed", "failed"}
      BY <1>18, <1>0 DEF FlushRekey, TypeOK, Store
    <2> QED BY <1>18, <2>1, <1>0, <1>s DEF FlushRekey
  <1>19. CASE FinishRekey(p)
    <2>1. /\ UNCHANGED <<files, durable, printed>> /\ pc'[p] \in {"open", "failed"}
          /\ cmd'[p] \in {"none", cmd[p]} /\ mem'[p].sent = mem[p].sent
      BY <1>19, <1>0 DEF FinishRekey, TypeOK, Store
    <2> QED BY <2>1, <1>0, <1>s
  <1>20. CASE Card(p)
    <2>1. /\ pc[p] = "open" /\ UNCHANGED <<files, durable, printed>>
      BY <1>20, <1>0, CardMoves
    <2>2. CASE Finish(p)
      BY <2>1, <2>2, <1>0, <1>s DEF Finish, TypeOK
    <2>3. ASSUME NEW S \in SUBSET Nat,
                 mem' = [mem EXCEPT ![p] = [mem[p] EXCEPT !.prekeys = S]],
                 pc' = [pc EXCEPT ![p] = "save"], cmd' = [cmd EXCEPT ![p] = "card"]
          PROVE  Saved(p)'
      <3>1. pc'[p] = "save" /\ cmd'[p] = "card" /\ mem'[p].sent = mem[p].sent
        BY <2>3, <1>0, DrawKeeps DEF TypeOK
      <3> QED BY <2>1, <3>1, <1>0
    <2> QED BY <1>20, <1>0, <1>s, <2>1, <2>2, <2>3, CardMoves
  <1>21. CASE ShowCard(p)
    BY <1>21, <1>0, <1>s DEF ShowCard, Finish, TypeOK
  <1> QED
    BY <1>1, <1>2, <1>3, <1>4, <1>5, <1>6, <1>7, <1>8, <1>9, <1>10, <1>11,
       <1>12, <1>13, <1>14, <1>15, <1>16, <1>17, <1>18, <1>19, <1>20, <1>21 DEF Runs

LEMMA ShownStep ==
  ASSUME Cli = {}
  PROVE  ShownInv /\ [Next]_vars => ShownInv'
  <1> SUFFICES ASSUME ShownInv, [Next]_vars
               PROVE  (\A d \in durable' : Kept(d)') /\ \A q \in Procs : Saved(q)'
    BY LockStep DEF ShownInv
  <1>0. LockInv /\ TypeOK /\ files \in durable /\ \A d \in durable : Kept(d)
    BY DEF ShownInv, LockInv, TypeOK
  <1>1. ASSUME NEW p \in Procs, NEW c \in Commands, Open(p, c)
        PROVE  (\A d \in durable' : Kept(d)') /\ \A q \in Procs : Saved(q)'
    <2>1. UNCHANGED <<files, durable, printed>> /\ c = "none"
      BY <1>1 DEF Open
    <2>2. CASE Close(p)
      BY <1>0, <2>1, <2>2 DEF Close, ShownInv, Kept, Saved, Running, Writing, TypeOK
    <2>3. CASE /\ pc' = [pc EXCEPT ![p] = "open"]
               /\ cmd' = [cmd EXCEPT ![p] = c]
               /\ mem' = [mem EXCEPT ![p] = StoreOf(files.vault)]
               /\ UNCHANGED held
      BY <1>0, <2>1, <2>3 DEF StoreOf, ShownInv, Kept, Saved, Running, Writing, TypeOK
    <2> QED BY <1>1, <2>2, <2>3 DEF Open
  <1>2. ASSUME NEW p \in Procs, Runs(p)
        PROVE  (\A d \in durable' : Kept(d)') /\ \A q \in Procs : Saved(q)'
    <2>1. ASSUME NEW q \in Procs, q # p PROVE Saved(q)'
      <3>1. ~Running(q) /\ ~Running(q)'
        BY <1>0, <1>2, <2>1, RunsRunning, RunsHolder, Alone
      <3>2. cmd'[q] = cmd[q] /\ pc'[q] = pc[q]
        <4>1. pc'[q] = pc[q]
          BY <1>0, <1>2, <2>1, RunsHolder DEF RunsOn, Close, TypeOK
        <4>2. cmd'[q] = cmd[q]
          BY <1>0, <1>2, <2>1 DEF Runs, Close, Finish, TypeOK, Enroll, Leave, Encrypt,
             WriteOutbox, FlushOutbox, Update, Card, ShowCard, Draw, WriteBlock, RemoveOutbox, CheckOutbox,
             PrepareSave, WriteVault, FlushVault, Reanchor, Done, Fail, BeginRekey,
             Promote, FlushRekey, FinishRekey
        <4> QED BY <4>1, <4>2
      <3>3. Saved(q)
        BY DEF ShownInv
      <3> QED BY <3>1, <3>2, <3>3 DEF Saved, Running, Writing
    <2> QED BY <2>1, <1>2, RunsShown
  <1>3. ASSUME NEW p \in Procs, Kill(p)
        PROVE  (\A d \in durable' : Kept(d)') /\ \A q \in Procs : Saved(q)'
    BY <1>0, <1>3 DEF Kill, Close, ShownInv, Kept, Saved, Running, Writing, TypeOK
  <1>4. CASE LosePower
    BY <1>4 DEF LosePower, ShownInv, Kept, Saved, Running, Writing
  <1>5. ~DeleteOutbox /\ ~\E p \in Procs : ReadOutbox(p)
    BY <1>0 DEF DeleteOutbox, ReadOutbox, Kept
  <1>6. CASE UNCHANGED vars
    BY <1>6 DEF vars, ShownInv, Kept, Saved, Running, Writing
  <1> QED BY <1>1, <1>2, <1>3, <1>4, <1>5, <1>6 DEF Next

(* A block that interfaces put on the screen is consumed in the vault on   *)
(* the drive, and in any that a power loss brings back.                    *)
THEOREM InterfaceShowsCommitted ==
  ASSUME Cli = {} PROVE Spec => []ExportedIsCommitted
  <1>1. ShownInv => ExportedIsCommitted
    BY DEF ShownInv, LockInv, TypeOK, Kept, ExportedIsCommitted
  <1> QED BY <1>1, ShownInit, ShownStep, PTL DEF Spec

-----------------------------------------------------------------------------
(* What is handed out after a save.                                        *)

(* Container v has the block p sends and the prekeys of the card p shows.  *)
Covers(p, v) ==
  /\ mem[p].prekeys \subseteq v.prekeys
  /\ cmd[p] = "send" => \A o \in held[p] : o.block \in v.sent

(* From the moment p's container is on the drive it covers what p will     *)
(* hand out; from its flush on, so does every one that may come back.      *)
Ready(p) ==
  cmd[p] # "outbox" =>
    /\ pc[p] \in {"staged", "outboxed", "save", "sealed"} /\ cmd[p] = "send" =>
         \A o \in held[p] : o.block \in mem[p].sent
    /\ pc[p] = "renamed" => Covers(p, files.vault)
    /\ pc[p] \in {"flushed", "saved"} => \A d \in durable : Covers(p, d.vault)

ReadyInv == LockInv /\ \A p \in Procs : Ready(p)

LEMMA ReadyInit == Init => ReadyInv
  <1> SUFFICES ASSUME Init PROVE ReadyInv
    OBVIOUS
  <1> QED BY LockInit DEF Init, ReadyInv, Ready

LEMMA SealedVault ==
  ASSUME TypeOK, NEW v, files' = [files EXCEPT !.vault = v]
  PROVE  files'.vault = v
BY DEF TypeOK, Files

(* Only two steps of a save look at what is on the drive.                  *)
LEMMA RunsReady ==
  ASSUME ReadyInv, NEW p \in Procs, Runs(p)
  PROVE  Ready(p)'
  <1> USE DEF Ready, Covers
  <1>0. TypeOK /\ Ready(p) /\ files \in durable
    BY DEF ReadyInv, LockInv, TypeOK
  <1>c. Close(p) => Ready(p)'
    BY <1>0 DEF Close, TypeOK
  <1>f. Finish(p) => Ready(p)'
    BY <1>0, <1>c DEF Finish, TypeOK
  <1>1. CASE Enroll(p) BY <1>1, <1>c DEF Enroll
  <1>2. CASE Leave(p) BY <1>2, <1>c DEF Leave
  <1>3. CASE Encrypt(p)
    <2> DEFINE b == [id |-> blocks, step |-> mem[p].step + 1]
    <2>1. mem' = [mem EXCEPT ![p] = [mem[p] EXCEPT !.step = @ + 1, !.sent = @ \cup {b}]]
      BY <1>3, Zenon DEF Encrypt
    <2>2. held' = [held EXCEPT ![p] = {[gen |-> mem[p].gen + 1, block |-> b]}]
      BY <1>3, Zenon DEF Encrypt, OutboxFor
    <2>3. pc'[p] \in {"staged", "save"}
      BY <1>3, <1>0 DEF Encrypt, AfterEncrypt, TypeOK
    <2> HIDE DEF b
    <2>4. /\ mem'[p].sent = mem[p].sent \cup {b}
          /\ held'[p] = {[gen |-> mem[p].gen + 1, block |-> b]}
      BY <2>1, <2>2, <1>0 DEF TypeOK, Store
    <2> QED BY <2>3, <2>4
  <1>4. CASE WriteOutbox(p)
    BY <1>4, <1>0, <1>c DEF WriteOutbox, TypeOK
  <1>5. CASE FlushOutbox(p)
    BY <1>5, <1>0, <1>c DEF FlushOutbox, TypeOK
  <1>6. CASE Update(p) BY <1>6, <1>0 DEF Update, TypeOK
  <1>7. CASE WriteBlock(p)
    BY <1>7, <1>0, <1>c, <1>f DEF WriteBlock, TypeOK
  <1>8. CASE RemoveOutbox(p) BY <1>8, <1>c DEF RemoveOutbox
  <1>9. CASE CheckOutbox(p)
    BY <1>9, <1>0, <1>c DEF CheckOutbox, Begins, TypeOK
  <1>10. CASE PrepareSave(p)
    <2>1. /\ UNCHANGED <<cmd, held>> /\ pc[p] = "save"
          /\ pc'[p] \in {"sealed", "failed"}
      BY <1>10, <1>0 DEF PrepareSave, TypeOK
    <2>2. \/ mem' = mem
          \/ mem' = [mem EXCEPT ![p] =
                       [mem[p] EXCEPT !.prev = files.vault.digest,
                                      !.gen = IF @ < MaxGen THEN @ + 1 ELSE @]]
      BY <1>10 DEF PrepareSave
    <2>3. mem'[p].sent = mem[p].sent
      BY <2>2, <1>0 DEF TypeOK, Store
    <2> QED BY <2>1, <2>3, <1>0
  <1>11. CASE WriteVault(p)
    <2> DEFINE v == SealOf(mem[p], seals + 1)
    <2>0. UNCHANGED <<cmd, mem, held>> /\ pc[p] = "sealed"
      BY <1>11 DEF WriteVault
    <2>1. v.sent = mem[p].sent /\ v.prekeys = mem[p].prekeys
      BY DEF SealOf
    <2> HIDE DEF v
    <2>2. CASE Step(p, "failed")
      BY <2>2, <1>0 DEF TypeOK
    <2>3. CASE Change([files EXCEPT !.vault = v]) /\ Step(p, "renamed")
      <3>1. files'.vault = v
        BY <2>3, <1>0, SealedVault DEF Change
      <3>2. pc'[p] = "renamed"
        BY <2>3, <1>0 DEF TypeOK
      <3> QED BY <2>0, <2>1, <3>1, <3>2, <1>0
    <2> QED BY <1>11, <2>2, <2>3 DEF WriteVault, v
  <1>12. CASE FlushVault(p)
    BY <1>12, <1>0 DEF FlushVault, Flush, TypeOK
  <1>13. CASE Reanchor(p) BY <1>13, <1>0 DEF Reanchor, TypeOK
  <1>14. CASE Done(p) BY <1>14, <1>f DEF Done
  <1>15. CASE Fail(p) BY <1>15, <1>f DEF Fail
  <1>16. CASE BeginRekey(p) BY <1>16, <1>0 DEF BeginRekey, TypeOK
  <1>17. CASE Promote(p)
    <2>1. pc'[p] \in {"promoted", "failed"}
      BY <1>17, <1>0 DEF Promote, TypeOK
    <2> QED BY <2>1
  <1>18. CASE FlushRekey(p)
    <2>1. pc'[p] \in {"rekeyed", "failed"}
      BY <1>18, <1>0 DEF FlushRekey, TypeOK
    <2> QED BY <2>1
  <1>19. CASE FinishRekey(p)
    <2>1. pc'[p] \in {"off", "open", "failed"}
      BY <1>19, <1>0 DEF FinishRekey, Close, TypeOK
    <2> QED BY <2>1
  <1>20. CASE Card(p)
    <2>1. Finish(p) \/ (pc'[p] = "save" /\ cmd'[p] = "card")
      BY <1>20, <1>0, CardMoves DEF TypeOK
    <2> QED BY <2>1, <1>f
  <1>21. CASE ShowCard(p) BY <1>21, <1>f DEF ShowCard
  <1> QED
    BY <1>1, <1>2, <1>3, <1>4, <1>5, <1>6, <1>7, <1>8, <1>9, <1>10, <1>11,
       <1>12, <1>13, <1>14, <1>15, <1>16, <1>17, <1>18, <1>19, <1>20, <1>21 DEF Runs

LEMMA ReadyStep == ReadyInv /\ [Next]_vars => ReadyInv'
  <1> SUFFICES ASSUME ReadyInv, [Next]_vars
               PROVE  \A q \in Procs : Ready(q)'
    BY LockStep DEF ReadyInv
  <1>0. LockInv /\ TypeOK /\ files \in durable /\ \A q \in Procs : Ready(q)
    BY DEF ReadyInv, LockInv, TypeOK
  <1>i. ASSUME NEW q \in Procs, pc'[q] \in {"off", "armed", "open"} PROVE Ready(q)'
    BY <1>i DEF Ready
  <1>1. ASSUME NEW p \in Procs, NEW c \in Commands, Open(p, c)
        PROVE  \A q \in Procs : Ready(q)'
    <2>1. UNCHANGED <<files, durable>> /\ pc'[p] \in {"off", "open"}
      BY <1>0, <1>1 DEF Open, Close, TypeOK
    <2>2. ASSUME NEW q \in Procs, q # p PROVE Ready(q)'
      <3>1. /\ pc'[q] = pc[q] /\ cmd'[q] = cmd[q] /\ mem'[q] = mem[q]
            /\ held'[q] = held[q]
        BY <1>0, <1>1, <2>2 DEF Open, Close, TypeOK
      <3> QED BY <1>0, <2>1, <3>1 DEF Ready, Covers
    <2> QED BY <2>1, <2>2, <1>i
  <1>2. ASSUME NEW p \in Procs, Runs(p)
        PROVE  \A q \in Procs : Ready(q)'
    <2>1. ASSUME NEW q \in Procs, q # p PROVE Ready(q)'
      <3>1. ~Running(q)'
        BY <1>0, <1>2, <2>1, RunsRunning, RunsHolder, Alone
      <3> QED BY <3>1, <1>i DEF Running
    <2> QED BY <2>1, <1>2, RunsReady
  <1>3. ASSUME NEW p \in Procs, Kill(p)
        PROVE  \A q \in Procs : Ready(q)'
    BY <1>0, <1>3 DEF Kill, Close, Ready, Covers, TypeOK
  <1>4. CASE LosePower
    BY <1>4 DEF LosePower, Ready
  <1>5. CASE DeleteOutbox
    <2>1. UNCHANGED <<pc, cmd, mem, held>> /\ Change([files EXCEPT !.outbox = {}])
      BY <1>5 DEF DeleteOutbox
    <2>2. files'.vault = files.vault
      BY <2>1, <1>0 DEF Change, TypeOK, Files
    <2>3. \A d \in durable' : d \in durable \/ d.vault = files.vault
      BY <2>1, <2>2 DEF Change
    <2> QED BY <1>0, <2>1, <2>2, <2>3 DEF Ready, Covers
  <1>6. ASSUME NEW p \in Procs, ReadOutbox(p)
        PROVE  \A q \in Procs : Ready(q)'
    <2>1. /\ pc' = [pc EXCEPT ![p] = "armed"] /\ cmd' = [cmd EXCEPT ![p] = "outbox"]
          /\ held' = [held EXCEPT ![p] = files.outbox]
          /\ UNCHANGED <<files, durable, mem>>
      BY <1>6 DEF ReadOutbox
    <2>2. pc'[p] = "armed" /\ cmd'[p] = "outbox"
      BY <2>1, <1>0 DEF TypeOK
    <2>3. ASSUME NEW q \in Procs, q # p PROVE Ready(q)'
      BY <1>0, <2>1, <2>3 DEF Ready, Covers, TypeOK
    <2> QED BY <2>2, <2>3, <1>i
  <1>7. CASE UNCHANGED vars
    BY <1>0, <1>7 DEF vars, Ready, Covers
  <1> QED BY <1>1, <1>2, <1>3, <1>4, <1>5, <1>6, <1>7 DEF Next

(* The block a send or the interface prints, and the card the interface    *)
(* shows, after a save: their ratchet step and their prekeys are in every  *)
(* vault a power loss may bring back.                                      *)
THEOREM HandedOutIsFlushed == Spec => HandedOutAfterFlush
  <1> DEFINE FlushedFirst ==
        \A p \in Procs, d \in durable' :
          pc[p] = "saved" /\ cmd[p] # "outbox" =>
            /\ printed' \ printed \subseteq d.vault.sent
            /\ published' \ published \subseteq d.vault.prekeys
  <1>1. ReadyInv /\ [Next]_vars => [FlushedFirst]_vars
    <2> SUFFICES ASSUME ReadyInv, Next, NEW p \in Procs, NEW d \in durable',
                        pc[p] = "saved", cmd[p] # "outbox"
                 PROVE  /\ printed' \ printed \subseteq d.vault.sent
                        /\ published' \ published \subseteq d.vault.prekeys
      BY Zenon
    <2>0. /\ LockInv /\ TypeOK /\ Running(p)
          /\ \A e \in durable : Covers(p, e.vault)
      BY DEF ReadyInv, Ready, LockInv, Running
    <2>1. CASE Runs(p)
      <3>1. CASE WriteBlock(p)
        BY <2>0, <3>1 DEF WriteBlock, Covers
      <3>2. CASE ShowCard(p)
        BY <2>0, <3>2 DEF ShowCard, Covers
      <3>3. CASE ~WriteBlock(p) /\ ~ShowCard(p)
        BY <2>1, <3>3 DEF Runs, Enroll, Leave, Encrypt, WriteOutbox, FlushOutbox,
           Update, Card, RemoveOutbox, CheckOutbox, PrepareSave, WriteVault,
           FlushVault, Reanchor, Done, Fail, BeginRekey, Promote, FlushRekey,
           FinishRekey, Begins, World
      <3> QED BY <3>1, <3>2, <3>3
    <2>2. ASSUME NEW q \in Procs, Runs(q), q # p PROVE FALSE
      BY <2>0, <2>2, RunsRunning, RunsHolder, Alone
    <2>3. \/ Runs(p) \/ (\E q \in Procs : Runs(q) /\ q # p)
          \/ UNCHANGED <<printed, published>>
      BY DEF Next, ReadOutbox, Open, Kill, LosePower, DeleteOutbox, World
    <2> QED BY <2>1, <2>2, <2>3
  <1> QED BY <1>1, ReadyInit, ReadyStep, PTL DEF Spec, HandedOutAfterFlush
=============================================================================
