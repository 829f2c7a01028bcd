------------------------------- MODULE Group --------------------------------
(***************************************************************************)
(* Group messages: the content is encrypted once, and its key is wrapped   *)
(* for every member as an ordinary message of the session with that        *)
(* member.  Sending and receiving work on a copy of the vault that         *)
(* replaces it at the end, or not at all.  A session is its sending chain  *)
(* and the message keys taken from the receiving one; DoubleRatchet and    *)
(* Handshake model sessions in detail.                                     *)
(***************************************************************************)
EXTENDS Naturals, Sequences, FiniteSets

CONSTANTS
  Members,      \* identities; each is every other's contact
  MaxMembers,   \* kMaxMembers
  MaxDirect,    \* bound: messages sent outside groups
  MaxBlocks     \* bound: group blocks

ASSUME GroupAssumption == {MaxMembers, MaxDirect, MaxBlocks} \subseteq Nat

VARIABLES
  verified,   \* [m -> contacts m has verified]
  chain,      \* [m -> [c -> steps of m's sending chain to c]]
  taken,      \* [m -> envelopes whose message key m's vault has used]
  blocks,     \* GROUP blocks handed to their senders, in order
  direct,     \* MESSAGE blocks handed to theirs
  read,       \* [m -> envelopes whose text, or the group text whose key they
              \*       carry, m was shown]
  op          \* [m -> the operation m's program is in]

vars == <<verified, chain, taken, blocks, direct, read, op>>

(* Group 0 is a direct message; any other number names the group whose     *)
(* content key the envelope carries.                                       *)
Envelope == [from : Members, to : Members, n : Nat, group : Nat]
Block    == [id : Nat, from : Members, wrappers : Seq(Envelope)]

Idle == [at |-> "idle"]
Sending(todo, id, copy, wrappers) ==
  [at |-> "send", todo |-> todo, id |-> id, copy |-> copy, wrappers |-> wrappers]
Receiving(block, left, copy) ==
  [at |-> "receive", block |-> block, left |-> left, copy |-> copy]
Content(e, copy) == [at |-> "content", found |-> e, copy |-> copy]

Op == {Idle}
  \cup [at : {"send"}, todo : SUBSET Members, id : Nat, copy : [Members -> Nat],
        wrappers : Seq(Envelope)]
  \cup [at : {"receive"}, block : Block, left : Seq(Envelope), copy : SUBSET Envelope]
  \cup [at : {"content"}, found : Envelope, copy : SUBSET Envelope]

TypeOK ==
  /\ verified \in [Members -> SUBSET Members]
  /\ chain \in [Members -> [Members -> Nat]]
  /\ taken \in [Members -> SUBSET Envelope]
  /\ read \in [Members -> SUBSET Envelope]
  /\ blocks \in Seq(Block)
  /\ direct \in SUBSET Envelope
  /\ op \in [Members -> Op]

Init ==
  /\ verified \in [Members -> SUBSET Members]
  /\ \A m \in Members : m \notin verified[m]
  /\ chain = [m \in Members |-> [c \in Members |-> 0]]
  /\ taken = [m \in Members |-> {}] /\ read = [m \in Members |-> {}]
  /\ blocks = <<>> /\ direct = {}
  /\ op = [m \in Members |-> Idle]

Now(m, o) == op' = [op EXCEPT ![m] = o]

(* Bound: one program at a time is in an operation; programs share nothing *)
(* but the blocks that are handed out at its end.                          *)
Quiet == \A o \in Members : op[o] = Idle

(* Any throw: the copy is dropped with the operation.                      *)
Throw(m) ==
  /\ op[m].at # "idle" /\ Now(m, Idle)
  /\ UNCHANGED <<verified, chain, taken, blocks, direct, read>>

-----------------------------------------------------------------------------
(* group::send.                                                            *)

BeginSend(m) ==
  /\ Quiet /\ Len(blocks) < MaxBlocks
  /\ \E to \in SUBSET (Members \ {m}) :
       /\ Cardinality(to) \in 2..MaxMembers
       /\ Now(m, Sending(to, Len(blocks) + 1, chain[m], <<>>))
  /\ UNCHANGED <<verified, chain, taken, blocks, direct, read>>

(* Mutant of Wrap: each session is advanced in the vault itself.           *)
WrapInVault(m) ==
  /\ op[m].at = "send"
  /\ \E c \in op[m].todo \cap verified[m] :
       LET o == op[m]
           e == [from |-> m, to |-> c, n |-> o.copy[c] + 1, group |-> o.id]
       IN /\ Now(m, Sending(o.todo \ {c}, o.id, [o.copy EXCEPT ![c] = @ + 1],
                            Append(o.wrappers, e)))
          /\ chain' = [chain EXCEPT ![m][c] = @ + 1]
  /\ UNCHANGED <<verified, taken, blocks, direct, read>>

(* session::send for the next recipient, who must be verified (otherwise   *)
(* Throw), on the copy; seal_wrapper.                                      *)
Wrap(m) ==
  /\ op[m].at = "send"
  /\ \E c \in op[m].todo \cap verified[m] :
       LET o == op[m]
           e == [from |-> m, to |-> c, n |-> o.copy[c] + 1, group |-> o.id]
       IN Now(m, Sending(o.todo \ {c}, o.id, [o.copy EXCEPT ![c] = @ + 1],
                         Append(o.wrappers, e)))
  /\ UNCHANGED <<verified, chain, taken, blocks, direct, read>>

(* Every wrapper is there: sign, hand out the block, commit the copy.      *)
CommitSend(m) ==
  /\ op[m].at = "send" /\ op[m].todo = {}
  /\ chain' = [chain EXCEPT ![m] = op[m].copy]
  /\ blocks' = Append(blocks, [id |-> op[m].id, from |-> m,
                               wrappers |-> op[m].wrappers])
  /\ Now(m, Idle)
  /\ UNCHANGED <<verified, taken, direct, read>>

-----------------------------------------------------------------------------
(* group::receive.                                                         *)

(* Any block may arrive, any number of times.  One with a count of         *)
(* wrappers no group has, from a contact that is not verified, or with a   *)
(* broken signature is refused before anything is done.                    *)
BeginReceive(m) ==
  /\ Quiet
  /\ \E i \in DOMAIN blocks :
       /\ Len(blocks[i].wrappers) \in 2..MaxMembers
       /\ blocks[i].from \in verified[m]
       /\ Now(m, Receiving(blocks[i], blocks[i].wrappers, taken[m]))
  /\ UNCHANGED <<verified, chain, taken, blocks, direct, read>>

(* session::receive with the sealed box opened: the wrapper is for m and   *)
(* its message key has not been used.                                      *)
Opens(m, e, copy) == e.to = m /\ e \notin copy

(* Mutant of Attempt: a wrapper is tried on the working copy itself.       *)
SameCopy(copy, e) == copy \cup {e}

(* What a wrapper that opens but carries no group key leaves of the        *)
(* working copy: each is tried on a copy of its own.                       *)
Attempt(copy, e) == copy

(* The first wrapper that opens and carries a group key decides; one of    *)
(* another group, or of another sender than the block's, is an error.      *)
TryWrapper(m) ==
  /\ op[m].at = "receive" /\ op[m].left # <<>>
  /\ LET o == op[m]
         e == Head(o.left)
         next(copy) == Receiving(o.block, Tail(o.left), copy)
     IN \/ ~Opens(m, e, o.copy) /\ Now(m, next(o.copy))
        \/ Opens(m, e, o.copy) /\ e.group = 0 /\ Now(m, next(Attempt(o.copy, e)))
        \/ /\ Opens(m, e, o.copy) /\ e.group # 0
           /\ Now(m, IF e.group = o.block.id /\ e.from = o.block.from
                     THEN Content(e, o.copy \cup {e}) ELSE Idle)
  /\ UNCHANGED <<verified, chain, taken, blocks, direct, read>>

(* The content decrypts: commit the copy, show the text.                   *)
CommitReceive(m) ==
  /\ op[m].at = "content"
  /\ taken' = [taken EXCEPT ![m] = op[m].copy]
  /\ read' = [read EXCEPT ![m] = @ \cup {op[m].found}]
  /\ Now(m, Idle)
  /\ UNCHANGED <<verified, chain, blocks, direct>>

-----------------------------------------------------------------------------
(* Around it.                                                              *)

SendDirect(m) ==
  /\ Quiet /\ Cardinality(direct) < MaxDirect
  /\ \E c \in verified[m] :
       /\ chain' = [chain EXCEPT ![m][c] = @ + 1]
       /\ direct' = direct \cup {[from |-> m, to |-> c, n |-> chain[m][c] + 1,
                                  group |-> 0]}
  /\ UNCHANGED <<verified, taken, blocks, read, op>>

ReceiveDirect(m) ==
  /\ Quiet
  /\ \E e \in direct :
       /\ e.from \in verified[m] /\ Opens(m, e, taken[m])
       /\ taken' = [taken EXCEPT ![m] = @ \cup {e}]
       /\ read' = [read EXCEPT ![m] = @ \cup {e}]
  /\ UNCHANGED <<verified, chain, blocks, direct, op>>

(* Another client's block: a direct message among the wrappers             *)
(* (test/test_group.cpp, "a non-key wrapper does not consume ...").        *)
OtherClient(m) ==
  /\ Quiet /\ Len(blocks) < MaxBlocks
  /\ \E e \in direct, i \in DOMAIN blocks :
       /\ e.from = m /\ blocks[i].from = m
       /\ blocks' = Append(blocks, [blocks[i] EXCEPT !.wrappers = <<e>> \o @])
  /\ UNCHANGED <<verified, chain, taken, direct, read, op>>

(* cmd_trust; importing a changed card takes the verification back.        *)
Trust(m) ==
  /\ Quiet
  /\ \E c \in Members \ {m} :
       verified' = [verified EXCEPT ![m] = IF c \in @ THEN @ \ {c} ELSE @ \cup {c}]
  /\ UNCHANGED <<chain, taken, blocks, direct, read, op>>

Next ==
  \E m \in Members :
    \/ BeginSend(m) \/ Wrap(m) \/ CommitSend(m)
    \/ BeginReceive(m) \/ TryWrapper(m) \/ CommitReceive(m)
    \/ SendDirect(m) \/ ReceiveDirect(m) \/ OtherClient(m)
    \/ Trust(m) \/ Throw(m)

Spec == Init /\ [][Next]_vars

-----------------------------------------------------------------------------
(* Properties.                                                             *)

HandedOut == direct \cup UNION {{blocks[i].wrappers[j] :
                                   j \in DOMAIN blocks[i].wrappers} :
                                i \in DOMAIN blocks}

(* Every step of a sending chain is in a block its sender was given: a     *)
(* group send that fails halfway moves no member's session.                *)
StepsHandedOut ==
  \A m, c \in Members :
    {e.n : e \in {x \in HandedOut : x.from = m /\ x.to = c}} = 1..chain[m][c]

(* No message key is used up without its text being shown, whatever blocks *)
(* were tried and refused on the way.                                      *)
TakenIsRead == \A m \in Members : taken[m] \subseteq read[m]

-----------------------------------------------------------------------------
(* What an inductive proof needs besides.                                  *)

(* A receiving operation's copy is the vault, and what it has opened.      *)
ReceiveCopy ==
  \A m \in Members :
    /\ op[m].at = "receive" => op[m].copy = taken[m]
    /\ op[m].at = "content" => op[m].copy = taken[m] \cup {op[m].found}

(* A sending operation's wrappers are the steps its copy is ahead by.      *)
SendCopy ==
  \A m \in Members : op[m].at = "send" =>
    /\ \A j \in DOMAIN op[m].wrappers : op[m].wrappers[j].from = m
    /\ \A c \in Members, n \in Nat :
         /\ chain[m][c] <= op[m].copy[c]
         /\ (\E j \in DOMAIN op[m].wrappers :
               op[m].wrappers[j].to = c /\ op[m].wrappers[j].n = n)
              <=> n \in chain[m][c] + 1 .. op[m].copy[c]
=============================================================================
