---------------------------- MODULE GroupProofs -----------------------------
(***************************************************************************)
(* Theorems about Group, for any members and bounds: an operation works on *)
(* a copy of the vault it began with, and the copy says exactly which      *)
(* steps and message keys the operation has used, so that committing or    *)
(* dropping it leaves nothing half done.                                   *)
(***************************************************************************)
EXTENDS Group, SequenceTheorems, TLAPS

(* The operations, apart.                                                  *)
SendOp == [at : {"send"}, todo : SUBSET Members, id : Nat, copy : [Members -> Nat],
           wrappers : Seq(Envelope)]
ReceiveOp == [at : {"receive"}, block : Block, left : Seq(Envelope),
              copy : SUBSET Envelope]
ContentOp == [at : {"content"}, found : Envelope, copy : SUBSET Envelope]

LEMMA OpCases ==
  ASSUME NEW o \in Op
  PROVE  /\ o.at = "send" => o \in SendOp
         /\ o.at = "receive" => o \in ReceiveOp
         /\ o.at = "content" => o \in ContentOp
         /\ o.at \in {"idle", "send", "receive", "content"}
  <1>1. CASE o = Idle
    BY <1>1 DEF Idle
  <1>2. CASE o \in SendOp
    BY <1>2 DEF SendOp
  <1>3. CASE o \in ReceiveOp
    BY <1>3 DEF ReceiveOp
  <1>4. CASE o \in ContentOp
    BY <1>4 DEF ContentOp
  <1> QED BY <1>1, <1>2, <1>3, <1>4 DEF Op, SendOp, ReceiveOp, ContentOp

LEMMA OpTypes ==
  /\ Idle \in Op
  /\ \A todo \in SUBSET Members, id \in Nat, copy \in [Members -> Nat],
        w \in Seq(Envelope) : Sending(todo, id, copy, w) \in Op
  /\ \A b \in Block, left \in Seq(Envelope), copy \in SUBSET Envelope :
        Receiving(b, left, copy) \in Op
  /\ \A e \in Envelope, copy \in SUBSET Envelope : Content(e, copy) \in Op
BY DEF Op, Sending, Receiving, Content

LEMMA BlockFields ==
  ASSUME NEW b \in Block
  PROVE  b.id \in Nat /\ b.from \in Members /\ b.wrappers \in Seq(Envelope)
BY DEF Block

-----------------------------------------------------------------------------
(* Types.                                                                  *)

LEMMA TypeInit == Init => TypeOK
BY OpTypes DEF Init, TypeOK, Block

LEMMA TypeStep == TypeOK /\ [Next]_vars => TypeOK'
  <1> SUFFICES ASSUME TypeOK, [Next]_vars PROVE TypeOK'
    OBVIOUS
  <1>1. CASE UNCHANGED vars
    BY <1>1 DEF TypeOK, vars
  <1>2. ASSUME NEW m \in Members,
               \/ BeginSend(m) \/ Wrap(m) \/ CommitSend(m)
               \/ BeginReceive(m) \/ TryWrapper(m) \/ CommitReceive(m)
               \/ SendDirect(m) \/ ReceiveDirect(m) \/ OtherClient(m)
               \/ Trust(m) \/ Throw(m)
        PROVE  TypeOK'
    <2> USE DEF TypeOK
    <2>0. op[m] \in Op
      OBVIOUS
    <2>1. CASE BeginSend(m)
      <3>1. /\ Len(blocks) + 1 \in Nat /\ chain[m] \in [Members -> Nat]
            /\ <<>> \in Seq(Envelope)
        OBVIOUS
      <3>2. PICK to \in SUBSET Members : Now(m, Sending(to, Len(blocks) + 1, chain[m], <<>>))
        BY <2>1 DEF BeginSend
      <3>3. Sending(to, Len(blocks) + 1, chain[m], <<>>) \in Op
        BY <3>1, OpTypes
      <3> QED BY <2>1, <3>2, <3>3 DEF BeginSend, Now
    <2>2. CASE Wrap(m)
      <3>1. PICK c \in op[m].todo \cap verified[m] :
              LET o == op[m]
                  e == [from |-> m, to |-> c, n |-> o.copy[c] + 1, group |-> o.id]
              IN Now(m, Sending(o.todo \ {c}, o.id, [o.copy EXCEPT ![c] = @ + 1],
                                Append(o.wrappers, e)))
        BY <2>2 DEF Wrap
      <3>2. op[m] \in SendOp
        BY <2>0, <2>2, OpCases DEF Wrap
      <3>3. op[m].todo \in SUBSET Members /\ op[m].id \in Nat
            /\ op[m].copy \in [Members -> Nat] /\ op[m].wrappers \in Seq(Envelope)
        BY <3>2 DEF SendOp
      <3> DEFINE e == [from |-> m, to |-> c, n |-> op[m].copy[c] + 1, group |-> op[m].id]
      <3>4. c \in Members /\ e \in Envelope
        BY <3>3 DEF Envelope
      <3>5. /\ [op[m].copy EXCEPT ![c] = @ + 1] \in [Members -> Nat]
            /\ op[m].todo \ {c} \in SUBSET Members
            /\ Append(op[m].wrappers, e) \in Seq(Envelope)
        BY <3>3, <3>4
      <3>6. Sending(op[m].todo \ {c}, op[m].id, [op[m].copy EXCEPT ![c] = @ + 1],
                    Append(op[m].wrappers, e)) \in Op
        BY <3>3, <3>5, OpTypes
      <3> QED BY <2>2, <3>1, <3>6 DEF Wrap, Now
    <2>3. CASE CommitSend(m)
      <3>1. op[m] \in SendOp
        BY <2>0, <2>3, OpCases DEF CommitSend
      <3>2. /\ op[m].id \in Nat
            /\ op[m].copy \in [Members -> Nat] /\ op[m].wrappers \in Seq(Envelope)
        BY <3>1 DEF SendOp
      <3>3. [id |-> op[m].id, from |-> m, wrappers |-> op[m].wrappers] \in Block
        BY <3>2 DEF Block
      <3> QED BY <2>3, <3>2, <3>3, OpTypes DEF CommitSend, Now
    <2>4. CASE BeginReceive(m)
      <3>1. PICK i \in DOMAIN blocks : Now(m, Receiving(blocks[i], blocks[i].wrappers, taken[m]))
        BY <2>4 DEF BeginReceive
      <3>2. blocks[i] \in Block
        OBVIOUS
      <3>3. Receiving(blocks[i], blocks[i].wrappers, taken[m]) \in Op
        BY <3>2, BlockFields, OpTypes
      <3> QED BY <2>4, <3>1, <3>3 DEF BeginReceive, Now
    <2>5. CASE TryWrapper(m)
      <3>1. op[m] \in ReceiveOp
        BY <2>0, <2>5, OpCases DEF TryWrapper
      <3>2. op[m].block \in Block /\ op[m].left \in Seq(Envelope)
            /\ op[m].copy \in SUBSET Envelope /\ op[m].left # <<>>
        BY <3>1, <2>5 DEF ReceiveOp, TryWrapper
      <3>3. Head(op[m].left) \in Envelope /\ Tail(op[m].left) \in Seq(Envelope)
        BY <3>2
      <3>4. /\ Receiving(op[m].block, Tail(op[m].left), op[m].copy) \in Op
            /\ Content(Head(op[m].left), op[m].copy \cup {Head(op[m].left)}) \in Op
            /\ Idle \in Op
        BY <3>2, <3>3, OpTypes
      <3>5. \E o \in Op : Now(m, o)
        BY <2>5, <3>4 DEF TryWrapper, Attempt
      <3> QED BY <2>5, <3>5 DEF TryWrapper, Now
    <2>6. CASE CommitReceive(m)
      <3>1. op[m] \in ContentOp
        BY <2>0, <2>6, OpCases DEF CommitReceive
      <3>2. op[m].found \in Envelope /\ op[m].copy \in SUBSET Envelope
        BY <3>1 DEF ContentOp
      <3> QED BY <2>6, <3>2, OpTypes DEF CommitReceive, Now
    <2>7. CASE SendDirect(m)
      <3>1. PICK c \in verified[m] :
              /\ chain' = [chain EXCEPT ![m][c] = @ + 1]
              /\ direct' = direct \cup {[from |-> m, to |-> c, n |-> chain[m][c] + 1,
                                         group |-> 0]}
        BY <2>7 DEF SendDirect
      <3>2. c \in Members /\ chain[m] \in [Members -> Nat] /\ chain[m][c] \in Nat
        OBVIOUS
      <3>3. [from |-> m, to |-> c, n |-> chain[m][c] + 1, group |-> 0] \in Envelope
        BY <3>2 DEF Envelope
      <3>4. chain' \in [Members -> [Members -> Nat]]
        BY <3>1, <3>2
      <3> QED BY <2>7, <3>1, <3>3, <3>4 DEF SendDirect
    <2>8. CASE ReceiveDirect(m)
      BY <2>8 DEF ReceiveDirect
    <2>9. CASE OtherClient(m)
      <3>1. PICK e \in direct, i \in DOMAIN blocks :
              blocks' = Append(blocks, [blocks[i] EXCEPT !.wrappers = <<e>> \o @])
        BY <2>9 DEF OtherClient
      <3>2. blocks[i] \in Block /\ blocks[i].wrappers \in Seq(Envelope) /\ e \in Envelope
        BY BlockFields
      <3>3. <<e>> \o blocks[i].wrappers \in Seq(Envelope)
        BY <3>2, ConcatProperties
      <3>4. [blocks[i] EXCEPT !.wrappers = <<e>> \o @] \in Block
        BY <3>2, <3>3 DEF Block
      <3> QED BY <2>9, <3>1, <3>4 DEF OtherClient
    <2>10. CASE Trust(m)
      BY <2>10 DEF Trust
    <2>11. CASE Throw(m)
      BY <2>11, OpTypes DEF Throw, Now
    <2> QED BY <1>2, <2>1, <2>2, <2>3, <2>4, <2>5, <2>6, <2>7, <2>8, <2>9, <2>10, <2>11
  <1> QED BY <1>1, <1>2 DEF Next

(* Every variable stays within its type.                                   *)
THEOREM TypeCorrect == Spec => []TypeOK
  <1>1. Init => TypeOK
    BY TypeInit
  <1>2. TypeOK /\ [Next]_vars => TypeOK'
    BY TypeStep
  <1> QED BY <1>1, <1>2, PTL DEF Spec

-----------------------------------------------------------------------------
(* Receiving.                                                              *)

ReadInv == TypeOK /\ ReceiveCopy /\ TakenIsRead

LEMMA ReadInit == Init => ReceiveCopy /\ TakenIsRead
BY DEF Init, Idle, ReceiveCopy, TakenIsRead

LEMMA ReadStep == ReadInv /\ [Next]_vars => ReceiveCopy' /\ TakenIsRead'
  <1> SUFFICES ASSUME ReadInv, [Next]_vars PROVE ReceiveCopy' /\ TakenIsRead'
    OBVIOUS
  <1> USE DEF ReadInv
  <1>1. CASE UNCHANGED vars
    BY <1>1 DEF ReceiveCopy, TakenIsRead, vars
  <1>2. ASSUME NEW m \in Members,
               \/ BeginSend(m) \/ Wrap(m) \/ CommitSend(m)
               \/ BeginReceive(m) \/ TryWrapper(m) \/ CommitReceive(m)
               \/ SendDirect(m) \/ ReceiveDirect(m) \/ OtherClient(m)
               \/ Trust(m) \/ Throw(m)
        PROVE  ReceiveCopy' /\ TakenIsRead'
    <2>0. op \in [Members -> Op] /\ taken \in [Members -> SUBSET Envelope]
          /\ read \in [Members -> SUBSET Envelope]
      BY DEF TypeOK
    <2> USE <2>0
    <2>1. CASE BeginSend(m)
      BY <2>1 DEF BeginSend, Now, Sending, ReceiveCopy, TakenIsRead
    <2>2. CASE Wrap(m)
      BY <2>2 DEF Wrap, Now, Sending, ReceiveCopy, TakenIsRead
    <2>3. CASE CommitSend(m)
      BY <2>3 DEF CommitSend, Now, Idle, ReceiveCopy, TakenIsRead
    <2>4. CASE BeginReceive(m)
      BY <2>4 DEF BeginReceive, Now, Receiving, ReceiveCopy, TakenIsRead
    <2>5. CASE TryWrapper(m)
      <3> DEFINE o == op[m]
                 e == Head(o.left)
      <3>1. o.copy = taken[m]
        BY <2>5 DEF TryWrapper, ReceiveCopy
      <3>2. CASE Now(m, Receiving(o.block, Tail(o.left), o.copy))
        BY <2>5, <3>1, <3>2 DEF TryWrapper, Now, Receiving, ReceiveCopy, TakenIsRead
      <3>3. CASE Now(m, Content(e, o.copy \cup {e}))
        BY <2>5, <3>1, <3>3 DEF TryWrapper, Now, Content, ReceiveCopy, TakenIsRead
      <3>4. CASE Now(m, Idle)
        BY <2>5, <3>4 DEF TryWrapper, Now, Idle, ReceiveCopy, TakenIsRead
      <3> QED BY <2>5, <3>2, <3>3, <3>4 DEF TryWrapper, Attempt
    <2>6. CASE CommitReceive(m)
      BY <2>6 DEF CommitReceive, Now, Idle, ReceiveCopy, TakenIsRead
    <2>7. CASE SendDirect(m)
      BY <2>7 DEF SendDirect, ReceiveCopy, TakenIsRead
    <2>8. CASE ReceiveDirect(m)
      <3>1. op[m] = Idle
        BY <2>8 DEF ReceiveDirect, Quiet
      <3> QED BY <2>8, <3>1 DEF ReceiveDirect, Idle, ReceiveCopy, TakenIsRead
    <2>9. CASE OtherClient(m)
      BY <2>9 DEF OtherClient, ReceiveCopy, TakenIsRead
    <2>10. CASE Trust(m)
      BY <2>10 DEF Trust, ReceiveCopy, TakenIsRead
    <2>11. CASE Throw(m)
      BY <2>11 DEF Throw, Now, Idle, ReceiveCopy, TakenIsRead
    <2> QED BY <1>2, <2>1, <2>2, <2>3, <2>4, <2>5, <2>6, <2>7, <2>8, <2>9, <2>10, <2>11
  <1> QED BY <1>1, <1>2 DEF Next

(* A message key is used up only together with its text being shown:       *)
(* wrappers are tried on copies (group.cpp, receive).                      *)
THEOREM NoKeyWasted == Spec => []TakenIsRead
  <1>1. Init => ReadInv
    BY TypeInit, ReadInit DEF ReadInv
  <1>2. ReadInv /\ [Next]_vars => ReadInv'
    BY TypeStep, ReadStep DEF ReadInv
  <1>3. ReadInv => TakenIsRead
    BY DEF ReadInv
  <1> QED BY <1>1, <1>2, <1>3, PTL DEF Spec

-----------------------------------------------------------------------------
(* Sending.                                                                *)

(* Some envelope of the set s carries step n of m's chain to c.            *)
Carries(s, m, c, n) == \E e \in s : e.from = m /\ e.to = c /\ e.n = n

LEMMA HandedOutTyped == TypeOK => HandedOut \subseteq Envelope
  <1> SUFFICES ASSUME TypeOK PROVE HandedOut \subseteq Envelope
    OBVIOUS
  <1>1. \A i \in DOMAIN blocks : blocks[i].wrappers \in Seq(Envelope)
    BY BlockFields DEF TypeOK
  <1> QED BY <1>1 DEF HandedOut, TypeOK

ByChain ==
  \A m, c \in Members : \A n \in Nat :
    Carries(HandedOut, m, c, n) <=> n \in 1 .. chain[m][c]

LEMMA StepsByChain == TypeOK => (StepsHandedOut <=> ByChain)
  <1> SUFFICES ASSUME TypeOK PROVE StepsHandedOut <=> ByChain
    OBVIOUS
  <1>1. \A e \in HandedOut : e.n \in Nat
    BY HandedOutTyped DEF Envelope
  <1>2. \A m, c \in Members : chain[m][c] \in Nat
    BY DEF TypeOK
  <1>3. ASSUME NEW m \in Members, NEW c \in Members
        PROVE  ({e.n : e \in {x \in HandedOut : x.from = m /\ x.to = c}} = 1 .. chain[m][c])
                 <=> \A n \in Nat : Carries(HandedOut, m, c, n) <=> n \in 1 .. chain[m][c]
    <2> DEFINE S == {e.n : e \in {x \in HandedOut : x.from = m /\ x.to = c}}
    <2>1. \A n : n \in S <=> Carries(HandedOut, m, c, n)
      BY DEF Carries
    <2>2. S \subseteq Nat
      BY <1>1
    <2>3. 1 .. chain[m][c] \subseteq Nat
      BY <1>2
    <2> HIDE DEF S
    <2> QED BY <2>1, <2>2, <2>3 DEF S
  <1> QED BY <1>3 DEF StepsHandedOut, ByChain

(* SendCopy, of one operation o of a member whose chains are ch.           *)
AheadOf(o, ch, m) ==
  o.at = "send" =>
    /\ \A j \in DOMAIN o.wrappers : o.wrappers[j].from = m
    /\ \A c \in Members, n \in Nat :
         /\ ch[c] <= o.copy[c]
         /\ (\E j \in DOMAIN o.wrappers : o.wrappers[j].to = c /\ o.wrappers[j].n = n)
              <=> n \in ch[c] + 1 .. o.copy[c]

LEMMA SendCopyNow == SendCopy <=> \A m \in Members : AheadOf(op[m], chain[m], m)
BY DEF SendCopy, AheadOf

LEMMA SendCopyNext == SendCopy' <=> \A m \in Members : AheadOf(op'[m], chain'[m], m)
BY DEF SendCopy, AheadOf

StepsInv == TypeOK /\ SendCopy /\ StepsHandedOut

LEMMA StepsInit == Init => SendCopy /\ StepsHandedOut
  <1> SUFFICES ASSUME Init PROVE SendCopy /\ StepsHandedOut
    OBVIOUS
  <1>1. SendCopy
    BY DEF Init, Idle, SendCopy
  <1>2. HandedOut = {}
    BY DEF Init, HandedOut
  <1>3. \A m, c \in Members : chain[m][c] = 0
    BY DEF Init
  <1> QED BY <1>1, <1>2, <1>3 DEF StepsHandedOut

(* Most steps hand nothing out and move no chain.                          *)
LEMMA StepsFrame ==
  ASSUME StepsHandedOut, UNCHANGED <<chain, blocks, direct>>
  PROVE  StepsHandedOut'
  <1>1. HandedOut' = HandedOut
    BY DEF HandedOut
  <1> QED BY <1>1 DEF StepsHandedOut

(* What a block adds to what was handed out.                               *)
LEMMA BlockHandsOut ==
  ASSUME TypeOK, NEW b \in Block, blocks' = Append(blocks, b), UNCHANGED direct
  PROVE  HandedOut' = HandedOut \cup {b.wrappers[j] : j \in DOMAIN b.wrappers}
  <1>1. blocks \in Seq(Block)
    BY DEF TypeOK
  <1>2. /\ DOMAIN blocks' = DOMAIN blocks \cup {Len(blocks) + 1}
        /\ \A i \in DOMAIN blocks : blocks'[i] = blocks[i]
        /\ blocks'[Len(blocks) + 1] = b
    BY <1>1, AppendProperties
  <1> DEFINE H(q) == UNION {{q[i].wrappers[j] : j \in DOMAIN q[i].wrappers} : i \in DOMAIN q}
  <1>3. H(blocks') = H(blocks) \cup {b.wrappers[j] : j \in DOMAIN b.wrappers}
    BY <1>2
  <1>4. HandedOut = direct \cup H(blocks) /\ HandedOut' = direct \cup H(blocks')
    BY DEF HandedOut
  <1> HIDE DEF H
  <1> QED BY <1>3, <1>4

LEMMA StepsStep == StepsInv /\ [Next]_vars => SendCopy' /\ StepsHandedOut'
  <1> SUFFICES ASSUME StepsInv, [Next]_vars PROVE SendCopy' /\ StepsHandedOut'
    OBVIOUS
  <1>0. TypeOK /\ TypeOK'
    BY TypeStep DEF StepsInv
  <1>1. CASE UNCHANGED vars
    BY <1>1, StepsFrame DEF StepsInv, SendCopy, vars
  <1>2. ASSUME NEW m \in Members,
               \/ BeginSend(m) \/ Wrap(m) \/ CommitSend(m)
               \/ BeginReceive(m) \/ TryWrapper(m) \/ CommitReceive(m)
               \/ SendDirect(m) \/ ReceiveDirect(m) \/ OtherClient(m)
               \/ Trust(m) \/ Throw(m)
        PROVE  SendCopy' /\ StepsHandedOut'
    <2>0. /\ op \in [Members -> Op] /\ chain \in [Members -> [Members -> Nat]]
          /\ blocks \in Seq(Block) /\ SendCopy /\ StepsHandedOut
      BY <1>0 DEF TypeOK, StepsInv
    <2>1. CASE BeginSend(m)
      <3>1. PICK to \in SUBSET Members :
              Now(m, Sending(to, Len(blocks) + 1, chain[m], <<>>))
        BY <2>1 DEF BeginSend
      <3>2. /\ op'[m].at = "send" /\ op'[m].copy = chain[m] /\ op'[m].wrappers = <<>>
            /\ \A x \in Members : x # m => op'[x] = op[x]
        BY <2>0, <3>1 DEF Now, Sending
      <3>3. chain' = chain
        BY <2>1 DEF BeginSend
      <3>4. AheadOf(op'[m], chain[m], m)
        BY <2>0, <3>2 DEF AheadOf
      <3>5. SendCopy'
        BY <2>0, <3>2, <3>3, <3>4, SendCopyNow, SendCopyNext
      <3> QED BY <2>0, <2>1, <3>5, StepsFrame DEF BeginSend
    <2>2. CASE Wrap(m)
      <3> DEFINE o == op[m]
      <3>1. PICK c \in o.todo \cap verified[m] :
              Now(m, Sending(o.todo \ {c}, o.id, [o.copy EXCEPT ![c] = @ + 1],
                     Append(o.wrappers, [from |-> m, to |-> c, n |-> o.copy[c] + 1,
                                         group |-> o.id])))
        BY <2>2 DEF Wrap
      <3> DEFINE e == [from |-> m, to |-> c, n |-> o.copy[c] + 1, group |-> o.id]
      <3>2. o \in SendOp
        BY <2>0, <2>2, OpCases DEF Wrap
      <3>3. c \in Members /\ o.copy \in [Members -> Nat] /\ o.wrappers \in Seq(Envelope)
            /\ o.id \in Nat
        BY <3>2 DEF SendOp
      <3>4. e \in Envelope
        BY <3>3 DEF Envelope
      <3> HIDE DEF e
      <3>5. /\ op'[m].at = "send" /\ op'[m].copy = [o.copy EXCEPT ![c] = @ + 1]
            /\ op'[m].wrappers = Append(o.wrappers, e)
            /\ \A x \in Members : x # m => op'[x] = op[x]
        BY <2>0, <3>1 DEF Now, Sending, e
      <3>6. /\ DOMAIN op'[m].wrappers = DOMAIN o.wrappers \cup {Len(o.wrappers) + 1}
            /\ \A j \in DOMAIN o.wrappers : op'[m].wrappers[j] = o.wrappers[j]
            /\ op'[m].wrappers[Len(o.wrappers) + 1] = e
        BY <3>3, <3>4, <3>5, AppendProperties
      <3>7. e.from = m /\ e.to = c /\ e.n = o.copy[c] + 1
        BY DEF e
      <3>8. chain' = chain
        BY <2>2 DEF Wrap
      <3>9. /\ \A j \in DOMAIN o.wrappers : o.wrappers[j].from = m
            /\ \A d \in Members, n \in Nat :
                 /\ chain[m][d] <= o.copy[d]
                 /\ (\E j \in DOMAIN o.wrappers :
                       o.wrappers[j].to = d /\ o.wrappers[j].n = n)
                      <=> n \in chain[m][d] + 1 .. o.copy[d]
        BY <2>0, <2>2 DEF SendCopy, Wrap
      <3>10. \A j \in DOMAIN op'[m].wrappers : op'[m].wrappers[j].from = m
        BY <3>6, <3>7, <3>9
      <3>11. ASSUME NEW d \in Members, NEW n \in Nat
             PROVE  /\ chain[m][d] <= op'[m].copy[d]
                    /\ (\E j \in DOMAIN op'[m].wrappers :
                          op'[m].wrappers[j].to = d /\ op'[m].wrappers[j].n = n)
                         <=> n \in chain[m][d] + 1 .. op'[m].copy[d]
        <4>1. (\E j \in DOMAIN op'[m].wrappers :
                 op'[m].wrappers[j].to = d /\ op'[m].wrappers[j].n = n)
               <=> \/ \E j \in DOMAIN o.wrappers :
                        o.wrappers[j].to = d /\ o.wrappers[j].n = n
                   \/ d = c /\ n = o.copy[c] + 1
          BY <3>6, <3>7
        <4>2. o.copy[d] \in Nat /\ chain[m][d] \in Nat /\ chain[m][d] <= o.copy[d]
          BY <2>0, <3>3, <3>9
        <4>3. op'[m].copy[d] = IF d = c THEN o.copy[c] + 1 ELSE o.copy[d]
          BY <3>3, <3>5
        <4>4. n \in chain[m][d] + 1 .. op'[m].copy[d]
               <=> \/ n \in chain[m][d] + 1 .. o.copy[d]
                   \/ d = c /\ n = o.copy[c] + 1
          BY <4>2, <4>3
        <4> QED BY <3>9, <4>1, <4>2, <4>3, <4>4
      <3>12. AheadOf(op'[m], chain[m], m)
        BY <3>10, <3>11 DEF AheadOf
      <3>13. SendCopy'
        BY <2>0, <3>5, <3>8, <3>12, SendCopyNow, SendCopyNext
      <3> QED BY <2>0, <2>2, <3>13, StepsFrame DEF Wrap
    <2>3. CASE CommitSend(m)
      <3> DEFINE o == op[m]
                 b == [id |-> o.id, from |-> m, wrappers |-> o.wrappers]
      <3>1. o \in SendOp
        BY <2>0, <2>3, OpCases DEF CommitSend
      <3>2. /\ o.id \in Nat /\ o.copy \in [Members -> Nat] /\ o.wrappers \in Seq(Envelope)
            /\ b \in Block /\ b.wrappers = o.wrappers
        BY <3>1 DEF SendOp, Block
      <3>3. /\ chain' = [chain EXCEPT ![m] = o.copy]
            /\ op' = [op EXCEPT ![m] = Idle]
            /\ blocks' = Append(blocks, b) /\ UNCHANGED direct
        BY <2>3 DEF CommitSend, Now
      <3>4. /\ op'[m] = Idle
            /\ \A x \in Members : x # m => op'[x] = op[x] /\ chain'[x] = chain[x]
        BY <2>0, <3>3
      <3>8. SendCopy'
        <4>1. AheadOf(Idle, chain'[m], m)
          BY DEF AheadOf, Idle
        <4> QED BY <2>0, <3>4, <4>1, SendCopyNow, SendCopyNext
      <3>5. HandedOut' = HandedOut \cup {o.wrappers[j] : j \in DOMAIN o.wrappers}
        <4> HIDE DEF b
        <4> QED BY <1>0, <3>2, <3>3, BlockHandsOut
      <3>6. ASSUME NEW x \in Members, NEW c \in Members, NEW n \in Nat
            PROVE  Carries(HandedOut', x, c, n) <=> n \in 1 .. chain'[x][c]
        <4>1. Carries(HandedOut, x, c, n) <=> n \in 1 .. chain[x][c]
          BY <1>0, <2>0, StepsByChain DEF ByChain
        <4>2. \A j \in DOMAIN o.wrappers : o.wrappers[j].from = m
          BY <2>0, <2>3 DEF SendCopy, CommitSend
        <4>3. /\ chain[m][c] <= o.copy[c]
              /\ (\E j \in DOMAIN o.wrappers :
                    o.wrappers[j].to = c /\ o.wrappers[j].n = n)
                   <=> n \in chain[m][c] + 1 .. o.copy[c]
          BY <2>0, <2>3 DEF SendCopy, CommitSend
        <4>4. Carries(HandedOut', x, c, n)
               <=> \/ Carries(HandedOut, x, c, n)
                   \/ x = m /\ n \in chain[m][c] + 1 .. o.copy[c]
          BY <3>5, <4>2, <4>3 DEF Carries
        <4>5. chain'[x] = IF x = m THEN o.copy ELSE chain[x]
          BY <2>0, <3>3
        <4>6. chain[x][c] \in Nat /\ o.copy[c] \in Nat
          BY <2>0, <3>2
        <4> QED BY <4>1, <4>3, <4>4, <4>5, <4>6
      <3>7. StepsHandedOut'
        <4>1. TypeOK' => (StepsHandedOut' <=> ByChain')
          BY StepsByChain, PTL
        <4>2. ByChain'
          BY <3>6 DEF ByChain, Carries
        <4> QED BY <1>0, <4>1, <4>2
      <3> QED BY <3>7, <3>8
    <2>4. CASE BeginReceive(m)
      BY <2>0, <2>4, StepsFrame DEF BeginReceive, Now, Receiving, SendCopy
    <2>5. CASE TryWrapper(m)
      <3> DEFINE e == Head(op[m].left)
                 next == Receiving(op[m].block, Tail(op[m].left), op[m].copy)
                 found == Content(e, op[m].copy \cup {e})
      <3>0. next.at # "send" /\ found.at # "send" /\ Idle.at # "send"
        BY DEF Receiving, Content, Idle
      <3> HIDE DEF next, found
      <3>1. Now(m, next) \/ Now(m, found) \/ Now(m, Idle)
        BY <2>5 DEF TryWrapper, Attempt, next, found
      <3>2. /\ op'[m].at # "send" /\ \A x \in Members : x # m => op'[x] = op[x]
            /\ UNCHANGED <<chain, blocks, direct>>
        BY <2>0, <2>5, <3>0, <3>1 DEF Now, TryWrapper
      <3>3. AheadOf(op'[m], chain'[m], m)
        BY <3>2 DEF AheadOf
      <3>4. SendCopy'
        BY <2>0, <3>2, <3>3, SendCopyNow, SendCopyNext
      <3> QED BY <2>0, <3>2, <3>4, StepsFrame
    <2>6. CASE CommitReceive(m)
      BY <2>0, <2>6, StepsFrame DEF CommitReceive, Now, Idle, SendCopy
    <2>7. CASE SendDirect(m)
      <3>1. PICK c \in verified[m] :
              /\ chain' = [chain EXCEPT ![m][c] = @ + 1]
              /\ direct' = direct \cup {[from |-> m, to |-> c, n |-> chain[m][c] + 1,
                                         group |-> 0]}
        BY <2>7 DEF SendDirect
      <3> DEFINE e == [from |-> m, to |-> c, n |-> chain[m][c] + 1, group |-> 0]
      <3>2. c \in Members /\ chain[m][c] \in Nat
        BY <1>0 DEF TypeOK
      <3>3. e.from = m /\ e.to = c /\ e.n = chain[m][c] + 1
        OBVIOUS
      <3>4. HandedOut' = HandedOut \cup {e}
        BY <2>7, <3>1 DEF SendDirect, HandedOut
      <3> HIDE DEF e
      <3>5. SendCopy'
        <4>1. op'[m] = Idle /\ op' = op
          BY <2>7 DEF SendDirect, Quiet
        <4>2. AheadOf(Idle, chain'[m], m)
          BY DEF AheadOf, Idle
        <4>3. \A x \in Members : x # m => chain'[x] = chain[x]
          BY <2>0, <3>1
        <4> QED BY <2>0, <4>1, <4>2, <4>3, SendCopyNow, SendCopyNext
      <3>6. ASSUME NEW x \in Members, NEW d \in Members, NEW n \in Nat
            PROVE  Carries(HandedOut', x, d, n) <=> n \in 1 .. chain'[x][d]
        <4>1. Carries(HandedOut, x, d, n) <=> n \in 1 .. chain[x][d]
          BY <1>0, <2>0, StepsByChain DEF ByChain
        <4>2. Carries(HandedOut', x, d, n)
               <=> \/ Carries(HandedOut, x, d, n)
                   \/ x = m /\ d = c /\ n = chain[m][c] + 1
          BY <3>3, <3>4 DEF Carries
        <4>3. chain'[x][d] = IF x = m /\ d = c THEN chain[m][c] + 1 ELSE chain[x][d]
          BY <2>0, <3>1, <3>2
        <4>4. chain[x][d] \in Nat
          BY <2>0
        <4> QED BY <3>2, <4>1, <4>2, <4>3, <4>4
      <3>7. StepsHandedOut'
        <4>1. TypeOK' => (StepsHandedOut' <=> ByChain')
          BY StepsByChain, PTL
        <4>2. ByChain'
          BY <3>6 DEF ByChain, Carries
        <4> QED BY <1>0, <4>1, <4>2
      <3> QED BY <3>5, <3>7
    <2>8. CASE ReceiveDirect(m)
      BY <2>0, <2>8, StepsFrame DEF ReceiveDirect, SendCopy
    <2>9. CASE OtherClient(m)
      <3>1. PICK e \in direct, i \in DOMAIN blocks :
              blocks' = Append(blocks, [blocks[i] EXCEPT !.wrappers = <<e>> \o @])
        BY <2>9 DEF OtherClient
      <3> DEFINE w == <<e>> \o blocks[i].wrappers
                 b == [blocks[i] EXCEPT !.wrappers = w]
      <3>2. blocks[i] \in Block /\ blocks[i].wrappers \in Seq(Envelope) /\ e \in Envelope
        BY <1>0, BlockFields DEF TypeOK
      <3>3. /\ w \in Seq(Envelope) /\ Len(w) = 1 + Len(blocks[i].wrappers)
            /\ w[1] = e
            /\ \A j \in 1 .. Len(w) : j > 1 => w[j] = blocks[i].wrappers[j - 1]
        BY <3>2, ConcatProperties
      <3> HIDE DEF w
      <3>4. b \in Block /\ b.wrappers = w
        BY <3>2, <3>3 DEF Block
      <3>5. HandedOut' = HandedOut \cup {w[j] : j \in DOMAIN w}
        <4>1. blocks' = Append(blocks, b)
          BY <3>1 DEF w
        <4> HIDE DEF b
        <4> QED BY <1>0, <2>9, <3>4, <4>1, BlockHandsOut DEF OtherClient
      <3>6. \A j \in DOMAIN w : w[j] \in HandedOut
        <4> SUFFICES ASSUME NEW j \in DOMAIN w PROVE w[j] \in HandedOut
          OBVIOUS
        <4>1. j \in 1 .. Len(w)
          BY <3>3
        <4>2. CASE j = 1
          BY <3>3, <4>2 DEF HandedOut
        <4>3. CASE j > 1
          <5>1. w[j] = blocks[i].wrappers[j - 1] /\ j - 1 \in DOMAIN blocks[i].wrappers
            BY <3>2, <3>3, <4>1, <4>3
          <5> QED BY <5>1 DEF HandedOut
        <4> QED BY <4>1, <4>2, <4>3
      <3>7. HandedOut' = HandedOut
        BY <3>5, <3>6
      <3> QED BY <2>0, <2>9, <3>7 DEF OtherClient, SendCopy, StepsHandedOut
    <2>10. CASE Trust(m)
      BY <2>0, <2>10, StepsFrame DEF Trust, SendCopy
    <2>11. CASE Throw(m)
      BY <2>0, <2>11, StepsFrame DEF Throw, Now, Idle, SendCopy
    <2> QED BY <1>2, <2>1, <2>2, <2>3, <2>4, <2>5, <2>6, <2>7, <2>8, <2>9,
            <2>10, <2>11
  <1> QED BY <1>1, <1>2 DEF Next

(* Every step a sending chain has taken is in a block its sender was given *)
(* (group.cpp, send: the copy replaces the vault only at the end).         *)
THEOREM AllOrNone == Spec => []StepsHandedOut
  <1>1. Init => StepsInv
    BY TypeInit, StepsInit DEF StepsInv
  <1>2. StepsInv /\ [Next]_vars => StepsInv'
    BY TypeStep, StepsStep DEF StepsInv
  <1>3. StepsInv => StepsHandedOut
    BY DEF StepsInv
  <1> QED BY <1>1, <1>2, <1>3, PTL DEF Spec
=============================================================================
