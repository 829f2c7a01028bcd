------------------------------ MODULE PageLock ------------------------------
(***************************************************************************)
(* Guarded memory: the table of pages that hold live secrets, the calls    *)
(* that count blocks in and out of it, and the growth of a secret string   *)
(* or buffer, which moves it from one block to another.  mlock, munlock    *)
(* and madvise work on pages; a block is the pages it touches, several     *)
(* blocks may touch one page.  The program has one thread: one growth at a *)
(* time.  Moving a SecureString or SecureBuffer only renames its block.    *)
(* Of what the kernel is asked, only the answer of mlock is looked at:     *)
(* either madvise and munlock may fail without anybody noticing.           *)
(***************************************************************************)
EXTENDS Integers, FiniteSets

CONSTANTS
  Blocks,      \* allocations that hold secrets
  NoBlock,     \* a secret that has no block yet
  Pages,       \* page addresses, in order
  Regions      \* the runs of pages a block can touch

ASSUME PageLockAssumption ==
  /\ IsFiniteSet(Blocks) /\ NoBlock \notin Blocks
  /\ Pages \subseteq Int /\ Regions \subseteq SUBSET Pages

VARIABLES
  refs,        \* page_refs(): live blocks per page, 0 for no entry
  locked,      \* pages whose entry says our mlock succeeded
  excluded,    \* pages whose entry says a dump exclusion was asked for
  resident,    \* the kernel's view: mlocked pages
  nodump,      \* the kernel's view: pages kept out of a core dump
  exposed,     \* pages in the table whose dump exclusion failed, unnoticed
  stuck,       \* pages whose release failed once, unnoticed
  region,      \* per block: the pages it was locked with, {} when there is none
  secret,      \* blocks with secret bytes in them
  growth,      \* the growth under way
  degraded,    \* g_accounting_degraded
  unavailable  \* g_lock_unavailable

table == <<refs, locked, excluded>>
kernel == <<resident, nodump, exposed, stuck>>
vars == <<table, kernel, region, secret, growth, degraded, unavailable>>

Steps == {"idle", "reserved", "refused", "locked", "copied"}
Growth == [at : Steps, old : Blocks \cup {NoBlock}, new : Blocks \cup {NoBlock},
           pages : SUBSET Pages]

NoGrowth == [at |-> "idle", old |-> NoBlock, new |-> NoBlock, pages |-> {}]

TypeOK ==
  /\ refs \in [Pages -> Nat]
  /\ locked \in SUBSET Pages /\ excluded \in SUBSET Pages
  /\ resident \in SUBSET Pages /\ nodump \in SUBSET Pages
  /\ exposed \in SUBSET Pages /\ stuck \in SUBSET Pages
  /\ region \in [Blocks -> SUBSET Pages]
  /\ secret \in SUBSET Blocks
  /\ growth \in Growth
  /\ degraded \in BOOLEAN /\ unavailable \in BOOLEAN

Init ==
  /\ refs = [g \in Pages |-> 0]
  /\ locked = {} /\ excluded = {} /\ resident = {} /\ nodump = {}
  /\ exposed = {} /\ stuck = {}
  /\ region = [b \in Blocks |-> {}] /\ secret = {}
  /\ growth = NoGrowth
  /\ degraded = FALSE /\ unavailable = FALSE

-----------------------------------------------------------------------------
(* lock_region and unlock_region.                                          *)

(* Counts the pages `in`; those new to the table are excluded from dumps   *)
(* and locked, except where mlock refuses; whether the exclusion took is   *)
(* not asked.                                                              *)
CountIn(in, refused) ==
  LET first == {g \in in : refs[g] = 0}
  IN /\ refs' = [g \in Pages |-> IF g \in in THEN refs[g] + 1 ELSE refs[g]]
     /\ excluded' = excluded \cup first
     /\ \E ignored \in SUBSET first :
          nodump' = nodump \cup (first \ ignored) /\ exposed' = exposed \cup ignored
     /\ locked' = locked \cup (first \ refused)
     /\ resident' = resident \cup (first \ refused)
     /\ UNCHANGED stuck

(* Mutants of Last: a page is released with any block that leaves it, or   *)
(* only if it could be locked.                                             *)
LastOfAny(out) == {g \in out : refs[g] > 0}
LastIfLocked(out) == {g \in out : refs[g] = 1 /\ g \in locked}

(* The pages whose last block leaves.                                      *)
Last(out) == {g \in out : refs[g] = 1}

(* What the table says was asked for is asked back, and the entries go,    *)
(* whatever the kernel answers.                                            *)
CountOut(out) ==
  LET last == Last(out)
  IN /\ refs' = [g \in Pages |-> IF g \in out /\ refs[g] > 0 THEN refs[g] - 1
                                 ELSE refs[g]]
     /\ \E dump \in SUBSET (last \cap excluded), lock \in SUBSET (last \cap locked) :
          /\ nodump' = nodump \ ((last \cap excluded) \ dump)
          /\ resident' = resident \ ((last \cap locked) \ lock)
          /\ stuck' = stuck \cup dump \cup lock
     /\ excluded' = excluded \ last /\ locked' = locked \ last
     /\ exposed' = exposed \ last

(* An exception in the bookkeeping; bound: one is enough, since nothing is *)
(* promised after it.                                                      *)
Degrades == ~degraded /\ degraded' = TRUE

(* lock_region: the mutex may throw, with nothing counted, and so may the  *)
(* allocation of a table entry, with the pages before it counted.          *)
LockRegion(pages) ==
  \/ /\ \E refused \in SUBSET {g \in pages : refs[g] = 0} :
          /\ CountIn(pages, refused)
          /\ growth' = [growth EXCEPT !.at = IF refused = {} THEN "locked" ELSE "refused"]
     /\ UNCHANGED degraded
  \/ /\ \E in \in {{}} \cup {{g \in pages : g < at} : at \in {x \in pages : refs[x] = 0}} :
          \E refused \in SUBSET {g \in in : refs[g] = 0} : CountIn(in, refused)
     /\ growth' = [growth EXCEPT !.at = "refused"]
     /\ Degrades

(* unlock_region: the bytes are zeroed first; if the mutex throws, the     *)
(* pages stay counted.                                                     *)
UnlockRegion(b) ==
  /\ region' = [region EXCEPT ![b] = {}]
  /\ \/ CountOut(region[b]) /\ UNCHANGED degraded
     \/ UNCHANGED <<table, kernel>> /\ Degrades

-----------------------------------------------------------------------------
(* The secret types.                                                       *)

(* A SecureBytes is constructed, or a string or buffer outgrows its block. *)
Reserve ==
  /\ growth.at = "idle"
  /\ \E old \in {NoBlock} \cup {b \in Blocks : region[b] # {}},
        new \in {b \in Blocks : region[b] = {}}, pages \in Regions \ {{}} :
       growth' = [at |-> "reserved", old |-> old, new |-> new, pages |-> pages]
  /\ UNCHANGED <<table, kernel, region, secret, degraded, unavailable>>

Lock ==
  /\ growth.at = "reserved"
  /\ LockRegion(growth.pages)
  /\ region' = [region EXCEPT ![growth.new] = growth.pages]
  /\ UNCHANGED <<secret, unavailable>>

(* Mutant of NoteLockUnavailable: the result is ignored.                   *)
NoteNothing ==
  /\ growth.at = "refused" /\ growth' = [growth EXCEPT !.at = "locked"]
  /\ UNCHANGED <<table, kernel, region, secret, degraded, unavailable>>

NoteLockUnavailable ==
  /\ growth.at = "refused" /\ growth' = [growth EXCEPT !.at = "locked"]
  /\ unavailable' = TRUE
  /\ UNCHANGED <<table, kernel, region, secret, degraded>>

(* Only now does the new block get secret bytes.                           *)
Copy ==
  /\ growth.at = "locked" /\ growth' = [growth EXCEPT !.at = "copied"]
  /\ secret' = secret \cup {growth.new}
  /\ UNCHANGED <<table, kernel, region, degraded, unavailable>>

(* insert() throws: the new block is given up, the old one untouched.      *)
CopyThrows ==
  /\ growth.at = "locked" /\ growth.old # NoBlock
  /\ UnlockRegion(growth.new)
  /\ growth' = NoGrowth
  /\ UNCHANGED <<secret, unavailable>>

(* The old block goes; when a SecureBytes is moved it is only wiped.       *)
LetGo ==
  /\ growth.at = "copied" /\ growth' = NoGrowth
  /\ secret' = secret \ {growth.old}
  /\ IF growth.old = NoBlock THEN UNCHANGED <<table, kernel, region, degraded>>
     ELSE \/ UnlockRegion(growth.old)
          \/ UNCHANGED <<table, kernel, region, degraded>>
  /\ UNCHANGED unavailable

(* clear() and the destructors.                                            *)
Clear ==
  /\ growth.at = "idle"
  /\ \E b \in Blocks :
       /\ region[b] # {} /\ UnlockRegion(b)
       /\ secret' = secret \ {b}
  /\ UNCHANGED <<growth, unavailable>>

Next ==
  \/ Reserve \/ Lock \/ NoteLockUnavailable \/ Copy \/ CopyThrows \/ LetGo
  \/ Clear

Spec == Init /\ [][Next]_vars

-----------------------------------------------------------------------------
(* Properties.                                                             *)

(* While a block holds secret bytes its pages are in RAM, or                *)
(* memory_locking_degraded() says so; and they are out of core dumps, or    *)
(* that says so, or the kernel failed the exclusion when the page came into *)
(* the table: no other block that leaves the page, and no step of a growth, *)
(* takes either away.                                                       *)
Protected ==
  \A b \in secret : \A g \in region[b] :
    /\ g \in nodump \/ g \in exposed \/ degraded
    /\ g \in resident \/ degraded \/ unavailable

(* A page nobody holds a block on is given back whole, whether or not it   *)
(* could be locked, unless the accounting says it is incomplete or the     *)
(* kernel once failed to take the page back.                               *)
GivenBack ==
  \A g \in Pages :
    (~degraded /\ \A b \in Blocks : g \notin region[b])
      => /\ refs[g] = 0 /\ g \notin exposed
         /\ g \in stuck \/ (g \notin resident /\ g \notin nodump)

-----------------------------------------------------------------------------
(* What an inductive proof needs besides.                                  *)

Holders(g) == {b \in Blocks : g \in region[b]}

(* The count of a page is the number of blocks that hold it.               *)
Counted == ~degraded => \A g \in Pages : refs[g] = Cardinality(Holders(g))

(* The table's flags are what the kernel was asked for, and answered.      *)
FlagsTrue ==
  ~degraded => \A g \in Pages :
    /\ g \in excluded <=> refs[g] > 0
    /\ refs[g] > 0 => g \in nodump \/ g \in exposed
    /\ g \in exposed => refs[g] > 0
    /\ g \in nodump => refs[g] > 0 \/ g \in stuck
    /\ g \in locked => g \in resident /\ refs[g] > 0
    /\ g \in resident => g \in locked \/ g \in stuck
    /\ refs[g] > 0 => \/ g \in locked \/ unavailable
                      \/ growth.at = "refused" /\ Holders(g) = {growth.new}

(* The blocks of a growth are distinct, and the new one is not a secret's  *)
(* until it is copied.                                                     *)
GrowthSound ==
  /\ growth.at # "idle" =>
       /\ growth.new \in Blocks /\ growth.old # growth.new /\ growth.pages # {}
       /\ region[growth.new] # {} <=> growth.at # "reserved"
       /\ growth.old # NoBlock => region[growth.old] # {}
  /\ growth.at \in {"reserved", "refused", "locked"} => growth.new \notin secret
  /\ \A b \in secret : region[b] # {}
=============================================================================
