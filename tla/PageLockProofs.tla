--------------------------- MODULE PageLockProofs ---------------------------
(***************************************************************************)
(* Theorems about PageLock, for any blocks, pages and regions: a page's    *)
(* count is the number of blocks that hold it, so a live secret's pages    *)
(* stay protected and a page nobody holds is given back.                   *)
(***************************************************************************)
EXTENDS PageLock, FiniteSetTheorems, TLAPS

(* Blocks that hold a page, in a table of regions r.                       *)
HoldersIn(r, g) == {b \in Blocks : g \in r[b]}

LEMMA HoldersFinite ==
  ASSUME NEW r, NEW g
  PROVE  /\ IsFiniteSet(HoldersIn(r, g))
         /\ Cardinality(HoldersIn(r, g)) \in Nat
         /\ Cardinality(HoldersIn(r, g)) = 0 <=> HoldersIn(r, g) = {}
  <1>1. HoldersIn(r, g) \in SUBSET Blocks
    BY DEF HoldersIn
  <1>2. IsFiniteSet(HoldersIn(r, g))
    BY <1>1, FS_Subset, PageLockAssumption
  <1> QED BY <1>2, FS_CardinalityType, FS_EmptySet

LEMMA HolderAdded ==
  ASSUME NEW r, NEW g, NEW b \in Blocks, b \notin HoldersIn(r, g)
  PROVE  Cardinality(HoldersIn(r, g) \cup {b}) = Cardinality(HoldersIn(r, g)) + 1
  BY HoldersFinite, FS_AddElement

(* A block that lets its pages go is one holder less of each.              *)
LEMMA HolderRemoved ==
  ASSUME NEW r \in [Blocks -> SUBSET Pages], NEW b \in Blocks, NEW g \in Pages,
         NEW s, s = [r EXCEPT ![b] = {}]
  PROVE  /\ g \in r[b] => /\ Cardinality(HoldersIn(r, g)) > 0
                          /\ Cardinality(HoldersIn(s, g)) = Cardinality(HoldersIn(r, g)) - 1
         /\ g \notin r[b] => HoldersIn(s, g) = HoldersIn(r, g)
  <1>1. \A x \in Blocks : s[x] = IF x = b THEN {} ELSE r[x]
    OBVIOUS
  <1>2. HoldersIn(s, g) = HoldersIn(r, g) \ {b}
    BY <1>1 DEF HoldersIn
  <1>3. g \in r[b] <=> b \in HoldersIn(r, g)
    BY DEF HoldersIn
  <1>4. ASSUME b \in HoldersIn(r, g)
        PROVE  /\ Cardinality(HoldersIn(r, g)) > 0
               /\ Cardinality(HoldersIn(r, g) \ {b}) = Cardinality(HoldersIn(r, g)) - 1
    <2> DEFINE H == HoldersIn(r, g)
    <2>1. IsFiniteSet(H) /\ Cardinality(H) \in Nat /\ (Cardinality(H) = 0 <=> H = {})
      BY HoldersFinite
    <2>2. Cardinality(H \ {b}) = Cardinality(H) - 1
      BY <1>4, <2>1, FS_RemoveElement
    <2> HIDE DEF H
    <2>3. H # {}
      BY <1>4 DEF H
    <2> QED BY <2>1, <2>2, <2>3 DEF H
  <1>5. b \notin HoldersIn(r, g) => HoldersIn(r, g) \ {b} = HoldersIn(r, g)
    OBVIOUS
  <1> QED BY <1>2, <1>3, <1>4, <1>5

LEMMA HoldersNow == \A g : Holders(g) = HoldersIn(region, g)
BY DEF Holders, HoldersIn

LEMMA HoldersNext == \A g : Holders(g)' = HoldersIn(region', g)
BY DEF Holders, HoldersIn

-----------------------------------------------------------------------------
(* Types.                                                                  *)

LEMMA TypeInit == Init => TypeOK
  <1> SUFFICES ASSUME Init PROVE TypeOK
    OBVIOUS
  <1>1. growth \in Growth
    BY DEF Init, Growth, Steps, NoGrowth
  <1>2. refs \in [Pages -> Nat] /\ region \in [Blocks -> SUBSET Pages]
    BY DEF Init
  <1> QED BY <1>1, <1>2 DEF Init, TypeOK

LEMMA CountInType ==
  ASSUME TypeOK, NEW in \in SUBSET Pages, NEW refused, CountIn(in, refused)
  PROVE  /\ refs' \in [Pages -> Nat]
         /\ locked' \in SUBSET Pages /\ excluded' \in SUBSET Pages
         /\ resident' \in SUBSET Pages /\ nodump' \in SUBSET Pages
         /\ exposed' \in SUBSET Pages /\ stuck' \in SUBSET Pages
BY DEF TypeOK, CountIn

LEMMA UnlockType ==
  ASSUME TypeOK, NEW b \in Blocks, UnlockRegion(b)
  PROVE  /\ refs' \in [Pages -> Nat]
         /\ locked' \in SUBSET Pages /\ excluded' \in SUBSET Pages
         /\ resident' \in SUBSET Pages /\ nodump' \in SUBSET Pages
         /\ exposed' \in SUBSET Pages /\ stuck' \in SUBSET Pages
         /\ region' \in [Blocks -> SUBSET Pages]
         /\ degraded' \in BOOLEAN
  <1>1. region' \in [Blocks -> SUBSET Pages]
    BY DEF TypeOK, UnlockRegion
  <1>2. CASE CountOut(region[b]) /\ UNCHANGED degraded
    <2>1. refs' = [g \in Pages |-> IF g \in region[b] /\ refs[g] > 0 THEN refs[g] - 1
                                   ELSE refs[g]]
      BY <1>2 DEF CountOut
    <2>2. \A g \in Pages : refs[g] \in Nat
      BY DEF TypeOK
    <2>3. refs' \in [Pages -> Nat]
      BY <2>1, <2>2
    <2>4. /\ locked' \in SUBSET Pages /\ excluded' \in SUBSET Pages
          /\ resident' \in SUBSET Pages /\ nodump' \in SUBSET Pages
          /\ exposed' \in SUBSET Pages /\ stuck' \in SUBSET Pages
      BY <1>2 DEF TypeOK, CountOut, Last
    <2>5. degraded' \in BOOLEAN
      BY <1>2 DEF TypeOK
    <2> QED BY <1>1, <2>3, <2>4, <2>5
  <1>3. CASE UNCHANGED <<table, kernel>> /\ Degrades
    <2>1. /\ refs' = refs /\ locked' = locked /\ excluded' = excluded
          /\ resident' = resident /\ nodump' = nodump
          /\ exposed' = exposed /\ stuck' = stuck
      BY <1>3 DEF table, kernel
    <2>2. degraded' \in BOOLEAN
      BY <1>3 DEF Degrades
    <2> QED BY <1>1, <2>1, <2>2 DEF TypeOK
  <1>4. \/ CountOut(region[b]) /\ UNCHANGED degraded
        \/ UNCHANGED <<table, kernel>> /\ Degrades
    BY DEF UnlockRegion
  <1> QED BY <1>2, <1>3, <1>4

(* A growth under way has a block of its own.                              *)
LEMMA GrowthBlocks ==
  ASSUME TypeOK, GrowthSound
  PROVE  /\ growth.at # "idle" => growth.new \in Blocks
         /\ growth.old # NoBlock => growth.old \in Blocks
         /\ growth.pages \in SUBSET Pages
BY DEF TypeOK, Growth, GrowthSound

LEMMA TypeStep == TypeOK /\ GrowthSound /\ [Next]_vars => TypeOK'
  <1> SUFFICES ASSUME TypeOK, GrowthSound, [Next]_vars PROVE TypeOK'
    OBVIOUS
  <1> USE PageLockAssumption
  <1>0. NoGrowth \in Growth
    BY DEF NoGrowth, Growth, Steps
  <1>1. CASE Reserve
    BY <1>1 DEF Reserve, TypeOK, Growth, Steps, table, kernel
  <1>2. CASE Lock
    <2>1. growth.pages \in SUBSET Pages /\ growth.new \in Blocks
      BY <1>2, GrowthBlocks DEF Lock
    <2>2. region' \in [Blocks -> SUBSET Pages]
      BY <1>2, <2>1 DEF Lock, TypeOK
    <2>3. growth' \in Growth /\ degraded' \in BOOLEAN
      BY <1>2 DEF Lock, LockRegion, Degrades, TypeOK, Growth, Steps
    <2>4. \E in \in SUBSET Pages : \E refused : CountIn(in, refused)
      <3>1. CASE \E refused \in SUBSET {g \in growth.pages : refs[g] = 0} :
                   CountIn(growth.pages, refused)
        BY <3>1, <2>1
      <3>2. CASE \E in \in {{}} \cup {{g \in growth.pages : g < at} :
                                     at \in {x \in growth.pages : refs[x] = 0}} :
                   \E refused \in SUBSET {g \in in : refs[g] = 0} : CountIn(in, refused)
        BY <3>2, <2>1
      <3> QED BY <3>1, <3>2, <1>2 DEF Lock, LockRegion
    <2> QED BY <1>2, <2>2, <2>3, <2>4, CountInType DEF Lock, TypeOK
  <1>3. CASE NoteLockUnavailable
    BY <1>3 DEF NoteLockUnavailable, TypeOK, Growth, Steps, table, kernel
  <1>4. CASE Copy
    <2>1. growth' \in Growth
      BY <1>4 DEF Copy, TypeOK, Growth, Steps
    <2>2. secret' \in SUBSET Blocks
      BY <1>4, GrowthBlocks DEF Copy, TypeOK
    <2> QED BY <1>4, <2>1, <2>2 DEF Copy, TypeOK, table, kernel
  <1>5. CASE CopyThrows
    <2>1. growth.new \in Blocks /\ UnlockRegion(growth.new)
      BY <1>5, GrowthBlocks DEF CopyThrows
    <2> QED BY <1>5, <2>1, <1>0, UnlockType DEF CopyThrows, TypeOK
  <1>6. CASE LetGo
    <2>1. secret' \in SUBSET Blocks /\ growth' \in Growth /\ unavailable' \in BOOLEAN
      BY <1>6, <1>0 DEF LetGo, TypeOK
    <2>2. CASE UNCHANGED <<table, kernel, region, degraded>>
      BY <2>1, <2>2 DEF TypeOK, table, kernel
    <2>3. CASE growth.old # NoBlock /\ UnlockRegion(growth.old)
      BY <2>1, <2>3, GrowthBlocks, UnlockType DEF TypeOK
    <2>4. growth.old = NoBlock => UNCHANGED <<table, kernel, region, degraded>>
      BY <1>6 DEF LetGo
    <2> QED BY <1>6, <2>2, <2>3, <2>4 DEF LetGo
  <1>7. CASE Clear
    BY <1>7, UnlockType DEF Clear, TypeOK
  <1>8. CASE UNCHANGED vars
    BY <1>8 DEF vars, table, kernel, TypeOK
  <1> QED BY <1>1, <1>2, <1>3, <1>4, <1>5, <1>6, <1>7, <1>8 DEF Next

-----------------------------------------------------------------------------
(* Growth.                                                                 *)

LEMMA GrowthInit == Init => GrowthSound
BY DEF Init, GrowthSound, NoGrowth

LEMMA RegionAfterUnlock ==
  ASSUME TypeOK, NEW b \in Blocks, UnlockRegion(b)
  PROVE  region'[b] = {} /\ \A x \in Blocks \ {b} : region'[x] = region[x]
BY DEF TypeOK, UnlockRegion

LEMMA GrowthStep == TypeOK /\ GrowthSound /\ [Next]_vars => GrowthSound'
  <1> SUFFICES ASSUME TypeOK, GrowthSound, [Next]_vars PROVE GrowthSound'
    OBVIOUS
  <1> USE PageLockAssumption
  <1>1. CASE Reserve
    <2>1. PICK old \in {NoBlock} \cup {b \in Blocks : region[b] # {}},
               new \in {b \in Blocks : region[b] = {}}, pages \in Regions \ {{}} :
            growth' = [at |-> "reserved", old |-> old, new |-> new, pages |-> pages]
      BY <1>1 DEF Reserve
    <2> QED BY <1>1, <2>1 DEF Reserve, GrowthSound
  <1>2. CASE Lock
    <2>1. growth'.at \in {"locked", "refused"} /\ growth'.new = growth.new
            /\ growth'.old = growth.old /\ growth'.pages = growth.pages
      BY <1>2 DEF Lock, LockRegion, TypeOK, Growth
    <2>2. growth.new \in Blocks /\ growth.new \notin secret
      BY <1>2, GrowthBlocks DEF Lock, GrowthSound
    <2>3. \A x \in Blocks \ {growth.new} : region'[x] = region[x]
      BY <1>2 DEF Lock, TypeOK
    <2>4. growth.old = NoBlock \/ growth.old \in Blocks \ {growth.new}
      BY <1>2, GrowthBlocks DEF Lock, GrowthSound
    <2>5. secret' = secret /\ growth.at = "reserved" /\ secret \subseteq Blocks
      BY <1>2 DEF Lock, TypeOK
    <2>6. region'[growth.new] = growth.pages /\ growth.pages # {}
      BY <1>2, GrowthBlocks DEF Lock, GrowthSound, TypeOK
    <2> QED BY <2>1, <2>2, <2>3, <2>4, <2>5, <2>6 DEF GrowthSound
  <1>3. CASE NoteLockUnavailable
    BY <1>3 DEF NoteLockUnavailable, GrowthSound, TypeOK, Growth
  <1>4. CASE Copy
    <2>1. growth' = [growth EXCEPT !.at = "copied"] /\ region' = region
            /\ secret' = secret \cup {growth.new} /\ growth.at = "locked"
      BY <1>4 DEF Copy
    <2>2. growth'.at = "copied" /\ growth'.new = growth.new /\ growth'.old = growth.old
            /\ growth'.pages = growth.pages
      BY <2>1 DEF TypeOK, Growth
    <2>3. region[growth.new] # {}
      BY <2>1 DEF GrowthSound
    <2> QED BY <2>1, <2>2, <2>3 DEF GrowthSound
  <1>5. CASE CopyThrows
    <2>1. growth.new \in Blocks /\ growth.new \notin secret
      BY <1>5, GrowthBlocks DEF CopyThrows, GrowthSound
    <2>2. \A x \in Blocks \ {growth.new} : region'[x] = region[x]
      BY <1>5, <2>1, RegionAfterUnlock DEF CopyThrows
    <2>3. secret' = secret /\ growth' = NoGrowth /\ secret \subseteq Blocks
      BY <1>5 DEF CopyThrows, TypeOK
    <2> QED BY <2>1, <2>2, <2>3 DEF GrowthSound, NoGrowth
  <1>6. CASE LetGo
    <2>1. secret' = secret \ {growth.old} /\ growth' = NoGrowth /\ secret \subseteq Blocks
      BY <1>6 DEF LetGo, TypeOK
    <2>2. \A x \in Blocks \ {growth.old} : region'[x] = region[x]
      BY <1>6, GrowthBlocks, RegionAfterUnlock DEF LetGo
    <2> QED BY <2>1, <2>2 DEF GrowthSound, NoGrowth
  <1>7. CASE Clear
    <2>1. PICK b \in Blocks : UnlockRegion(b) /\ secret' = secret \ {b}
      BY <1>7 DEF Clear
    <2>2. \A x \in Blocks \ {b} : region'[x] = region[x]
      BY <2>1, RegionAfterUnlock
    <2>3. growth' = growth /\ growth.at = "idle" /\ secret \subseteq Blocks
      BY <1>7 DEF Clear, TypeOK
    <2> QED BY <2>1, <2>2, <2>3 DEF GrowthSound
  <1>8. CASE UNCHANGED vars
    BY <1>8 DEF vars, GrowthSound
  <1> QED BY <1>1, <1>2, <1>3, <1>4, <1>5, <1>6, <1>7, <1>8 DEF Next

(* Every variable stays within its type.                                   *)
THEOREM TypeCorrect == Spec => []TypeOK
  <1>1. Init => TypeOK /\ GrowthSound
    BY TypeInit, GrowthInit
  <1>2. TypeOK /\ GrowthSound /\ [Next]_vars => (TypeOK /\ GrowthSound)'
    BY TypeStep, GrowthStep
  <1> QED BY <1>1, <1>2, PTL DEF Spec

-----------------------------------------------------------------------------
(* The count of a page, and its flags.                                     *)

Inv == TypeOK /\ GrowthSound /\ Counted /\ FlagsTrue

LEMMA AccountInit == Init => Counted /\ FlagsTrue
  <1> SUFFICES ASSUME Init PROVE Counted /\ FlagsTrue
    OBVIOUS
  <1>1. \A g \in Pages : Holders(g) = {}
    BY DEF Init, Holders
  <1>2. \A g \in Pages : refs[g] = 0
    BY DEF Init
  <1>3. Counted
    BY <1>1, <1>2, FS_EmptySet DEF Counted
  <1>4. FlagsTrue
    BY <1>2 DEF Init, FlagsTrue
  <1> QED BY <1>3, <1>4

(* A lock that goes through counts one more on each of its pages, and      *)
(* leaves unlocked only pages no other block holds.                        *)
LEMMA AccountLock ==
  ASSUME Inv, Lock
  PROVE  Counted' /\ FlagsTrue'
  <1> SUFFICES ASSUME ~degraded' PROVE Counted' /\ FlagsTrue'
    BY DEF Counted, FlagsTrue
  <1>1. PICK pages \in SUBSET Pages, new \in Blocks :
          /\ pages = growth.pages /\ new = growth.new /\ region[new] = {}
          /\ region' = [region EXCEPT ![new] = pages]
    BY GrowthBlocks DEF Inv, Lock, GrowthSound
  <1> DEFINE first == {g \in pages : refs[g] = 0}
  <1>2. PICK refused \in SUBSET first :
          /\ CountIn(pages, refused)
          /\ growth' = [growth EXCEPT !.at = IF refused = {} THEN "locked" ELSE "refused"]
          /\ degraded' = degraded
    BY <1>1 DEF Lock, LockRegion, Degrades
  <1>3. ~degraded /\ growth.at = "reserved" /\ unavailable' = unavailable
    BY <1>2 DEF Lock
  <1>4. growth'.new = new /\ (refused # {} => growth'.at = "refused")
    BY <1>1, <1>2 DEF Inv, TypeOK, Growth
  <1>5. \A g \in Pages :
          /\ refs[g] \in Nat /\ refs[g] = Cardinality(HoldersIn(region, g))
          /\ refs'[g] = IF g \in pages THEN refs[g] + 1 ELSE refs[g]
    BY <1>2, <1>3, HoldersNow DEF Inv, Counted, TypeOK, CountIn
  <1>6. \A g \in Pages :
          /\ g \in pages => /\ HoldersIn(region', g) = HoldersIn(region, g) \cup {new}
                            /\ Cardinality(HoldersIn(region', g))
                                 = Cardinality(HoldersIn(region, g)) + 1
          /\ g \notin pages => HoldersIn(region', g) = HoldersIn(region, g)
    <2>1. /\ region'[new] = pages /\ region[new] = {}
          /\ \A x \in Blocks \ {new} : region'[x] = region[x]
      BY <1>1 DEF Inv, TypeOK
    <2> SUFFICES ASSUME NEW g \in Pages
                 PROVE  /\ g \in pages =>
                             /\ HoldersIn(region', g) = HoldersIn(region, g) \cup {new}
                             /\ Cardinality(HoldersIn(region', g))
                                  = Cardinality(HoldersIn(region, g)) + 1
                        /\ g \notin pages => HoldersIn(region', g) = HoldersIn(region, g)
      OBVIOUS
    <2>2. CASE g \in pages
      <3>1. g \in region'[new] /\ g \notin region[new]
        BY <2>1, <2>2
      <3>2. /\ HoldersIn(region', g) = HoldersIn(region, g) \cup {new}
            /\ Cardinality(HoldersIn(region', g)) = Cardinality(HoldersIn(region, g)) + 1
        <4>1. new \in Blocks /\ new \notin HoldersIn(region, g)
          BY <1>1, <3>1 DEF HoldersIn
        <4>2. HoldersIn(region', g) = HoldersIn(region, g) \cup {new}
          BY <2>1, <3>1, <4>1 DEF HoldersIn
        <4> QED BY <4>1, <4>2, HolderAdded
      <3> QED BY <2>2, <3>2
    <2>3. CASE g \notin pages
      <3>1. \A x \in Blocks : g \in region'[x] <=> g \in region[x]
        BY <2>1, <2>3
      <3>2. HoldersIn(region', g) = HoldersIn(region, g)
        BY <3>1 DEF HoldersIn
      <3> QED BY <2>3, <3>2
    <2> QED BY <2>2, <2>3
  <1>7. Counted'
    BY <1>5, <1>6, HoldersNext DEF Counted
  <1>8. FlagsTrue'
    <2> SUFFICES ASSUME NEW g \in Pages
                 PROVE  /\ g \in excluded' <=> refs'[g] > 0
                        /\ refs'[g] > 0 => g \in nodump' \/ g \in exposed'
                        /\ g \in exposed' => refs'[g] > 0
                        /\ g \in nodump' => refs'[g] > 0 \/ g \in stuck'
                        /\ g \in locked' => g \in resident' /\ refs'[g] > 0
                        /\ g \in resident' => g \in locked' \/ g \in stuck'
                        /\ refs'[g] > 0 => \/ g \in locked' \/ unavailable'
                                           \/ /\ growth'.at = "refused"
                                              /\ Holders(g)' = {growth'.new}
      BY DEF FlagsTrue
    <2>1. /\ g \in excluded <=> refs[g] > 0
          /\ refs[g] > 0 => g \in nodump \/ g \in exposed
          /\ g \in exposed => refs[g] > 0
          /\ g \in nodump => refs[g] > 0 \/ g \in stuck
          /\ g \in locked => g \in resident /\ refs[g] > 0
          /\ g \in resident => g \in locked \/ g \in stuck
          /\ refs[g] > 0 => g \in locked \/ unavailable
      BY <1>3 DEF Inv, FlagsTrue
    <2>2. PICK ignored \in SUBSET first :
            /\ excluded' = excluded \cup first /\ stuck' = stuck
            /\ nodump' = nodump \cup (first \ ignored) /\ exposed' = exposed \cup ignored
            /\ locked' = locked \cup (first \ refused)
            /\ resident' = resident \cup (first \ refused)
      BY <1>2 DEF CountIn
    <2>3. g \in first <=> g \in pages /\ refs[g] = 0
      OBVIOUS
    <2> HIDE DEF first
    <2>4. ASSUME g \in refused
          PROVE  growth'.at = "refused" /\ Holders(g)' = {growth'.new}
      <3>1. g \in pages /\ refs[g] = 0
        BY <2>3, <2>4
      <3>2. HoldersIn(region, g) = {}
        BY <3>1, <1>5, HoldersFinite
      <3> QED BY <2>4, <3>1, <3>2, <1>4, <1>6, HoldersNext
    <2>5. CASE g \in first
      BY <1>3, <1>5, <2>1, <2>2, <2>3, <2>4, <2>5
    <2>6. CASE g \notin first
      <3>1. refs'[g] > 0 <=> refs[g] > 0
        BY <1>5, <2>3, <2>6
      <3> QED BY <1>3, <2>1, <2>2, <2>6, <3>1
    <2> QED BY <2>5, <2>6
  <1> QED BY <1>7, <1>8

(* An unlock that goes through takes one off each of its pages.            *)
LEMMA AccountUnlock ==
  ASSUME Inv, NEW b \in Blocks, UnlockRegion(b), growth.at # "refused",
         unavailable' = unavailable
  PROVE  Counted' /\ FlagsTrue'
  <1> SUFFICES ASSUME ~degraded' PROVE Counted' /\ FlagsTrue'
    BY DEF Counted, FlagsTrue
  <1> DEFINE out == region[b]
  <1>1. CountOut(out) /\ degraded' = degraded /\ region' = [region EXCEPT ![b] = {}]
    BY DEF UnlockRegion, Degrades
  <1>2. \A g \in Pages :
          /\ refs[g] \in Nat /\ refs[g] = Cardinality(HoldersIn(region, g))
          /\ refs'[g] = IF g \in out /\ refs[g] > 0 THEN refs[g] - 1 ELSE refs[g]
    BY <1>1, HoldersNow DEF Inv, Counted, TypeOK, CountOut
  <1>3. \A g \in Pages :
          /\ g \in out => /\ Cardinality(HoldersIn(region, g)) > 0
                          /\ Cardinality(HoldersIn(region', g))
                               = Cardinality(HoldersIn(region, g)) - 1
          /\ g \notin out => HoldersIn(region', g) = HoldersIn(region, g)
    BY <1>1, HolderRemoved DEF Inv, TypeOK
  <1>4. Counted'
    BY <1>2, <1>3, HoldersNext DEF Counted
  <1>5. FlagsTrue'
    <2> SUFFICES ASSUME NEW g \in Pages
                 PROVE  /\ g \in excluded' <=> refs'[g] > 0
                        /\ refs'[g] > 0 => g \in nodump' \/ g \in exposed'
                        /\ g \in exposed' => refs'[g] > 0
                        /\ g \in nodump' => refs'[g] > 0 \/ g \in stuck'
                        /\ g \in locked' => g \in resident' /\ refs'[g] > 0
                        /\ g \in resident' => g \in locked' \/ g \in stuck'
                        /\ refs'[g] > 0 => g \in locked' \/ unavailable'
      BY DEF FlagsTrue
    <2>1. /\ g \in excluded <=> refs[g] > 0
          /\ refs[g] > 0 => g \in nodump \/ g \in exposed
          /\ g \in exposed => refs[g] > 0
          /\ g \in nodump => refs[g] > 0 \/ g \in stuck
          /\ g \in locked => g \in resident /\ refs[g] > 0
          /\ g \in resident => g \in locked \/ g \in stuck
          /\ refs[g] > 0 => g \in locked \/ unavailable
      BY <1>1 DEF Inv, FlagsTrue
    <2> DEFINE last == Last(out)
    <2>2. PICK dump \in SUBSET (last \cap excluded), lock \in SUBSET (last \cap locked) :
            /\ nodump' = nodump \ ((last \cap excluded) \ dump)
            /\ resident' = resident \ ((last \cap locked) \ lock)
            /\ stuck' = stuck \cup dump \cup lock
            /\ excluded' = excluded \ last /\ locked' = locked \ last
            /\ exposed' = exposed \ last
      BY <1>1 DEF CountOut
    <2>3. g \in last <=> g \in out /\ refs[g] = 1
      BY DEF Last
    <2> HIDE DEF last
    <2>4. CASE g \in last
      <3>1. refs'[g] = 0
        BY <1>2, <2>3, <2>4
      <3> QED BY <2>1, <2>2, <2>3, <2>4, <3>1
    <2>5. CASE g \notin last
      <3>1. refs'[g] > 0 <=> refs[g] > 0
        BY <1>2, <2>3, <2>5
      <3> QED BY <2>1, <2>2, <2>5, <3>1
    <2> QED BY <2>4, <2>5
  <1> QED BY <1>4, <1>5

LEMMA AccountStep == Inv /\ [Next]_vars => Counted' /\ FlagsTrue'
  <1> SUFFICES ASSUME Inv, [Next]_vars PROVE Counted' /\ FlagsTrue'
    OBVIOUS
  (* Steps that leave table and regions alone, and the flag they set.      *)
  <1>1. ASSUME UNCHANGED <<table, kernel, region, degraded>>,
               unavailable \/ growth.at = "refused" => unavailable'
        PROVE  Counted' /\ FlagsTrue'
    <2>1. /\ refs' = refs /\ locked' = locked /\ excluded' = excluded
          /\ resident' = resident /\ nodump' = nodump
          /\ exposed' = exposed /\ stuck' = stuck
          /\ region' = region /\ degraded' = degraded
      BY <1>1 DEF table, kernel
    <2>2. \A g : Holders(g)' = Holders(g)
      BY <2>1, HoldersNow, HoldersNext
    <2>3. Counted'
      BY <2>1, <2>2 DEF Inv, Counted
    <2>4. FlagsTrue'
      BY <1>1, <2>1, <2>2 DEF Inv, FlagsTrue
    <2> QED BY <2>3, <2>4
  <1>2. CASE Reserve
    BY <1>1, <1>2 DEF Reserve
  <1>3. CASE Lock
    BY <1>3, AccountLock
  <1>4. CASE NoteLockUnavailable
    BY <1>1, <1>4 DEF NoteLockUnavailable
  <1>5. CASE Copy
    BY <1>1, <1>5 DEF Copy
  <1>6. CASE CopyThrows
    BY <1>6, GrowthBlocks, AccountUnlock DEF CopyThrows, Inv
  <1>7. CASE LetGo
    <2>1. CASE UNCHANGED <<table, kernel, region, degraded>>
      BY <1>1, <1>7, <2>1 DEF LetGo
    <2>2. CASE growth.old # NoBlock /\ UnlockRegion(growth.old)
      BY <1>7, <2>2, GrowthBlocks, AccountUnlock DEF LetGo, Inv
    <2> QED BY <1>7, <2>1, <2>2 DEF LetGo
  <1>8. CASE Clear
    BY <1>8, AccountUnlock DEF Clear
  <1>9. CASE UNCHANGED vars
    <2>1. Counted'
      BY <1>9, HoldersNow, HoldersNext DEF vars, table, Inv, Counted
    <2>2. FlagsTrue'
      BY <1>9, HoldersNow, HoldersNext DEF vars, table, kernel, Inv, FlagsTrue
    <2> QED BY <2>1, <2>2
  <1> QED BY <1>2, <1>3, <1>4, <1>5, <1>6, <1>7, <1>8, <1>9 DEF Next

LEMMA Invariance == Spec => []Inv
  <1>1. Init => Inv
    BY TypeInit, GrowthInit, AccountInit DEF Inv
  <1>2. Inv /\ [Next]_vars => Inv'
    BY TypeStep, GrowthStep, AccountStep DEF Inv
  <1> QED BY <1>1, <1>2, PTL DEF Spec

(* Unless the process reports otherwise, the pages under a live secret     *)
(* stay locked in RAM, and out of core dumps where the kernel took the     *)
(* exclusion when the page was first used, whatever else comes and goes on *)
(* the same pages (secure.cpp, lock_region and unlock_region).  That the   *)
(* exclusion took is not claimed: the code cannot tell.                    *)
THEOREM SecretsProtected == Spec => []Protected
  <1>1. Inv => Protected
    <2> SUFFICES ASSUME Inv, NEW b \in secret, NEW g \in region[b], ~degraded
                 PROVE  (g \in nodump \/ g \in exposed) /\ (g \in resident \/ unavailable)
      BY DEF Protected
    <2>1. b \in Blocks /\ g \in Pages
      BY DEF Inv, TypeOK
    <2>2. b \in HoldersIn(region, g)
      BY <2>1 DEF HoldersIn
    <2>3. refs[g] > 0
      <3>1. refs[g] = Cardinality(HoldersIn(region, g)) /\ HoldersIn(region, g) # {}
        BY <2>1, <2>2, HoldersNow DEF Inv, Counted
      <3> QED BY <3>1, HoldersFinite
    <2>4. ~(growth.at = "refused" /\ Holders(g) = {growth.new})
      BY <2>2, HoldersNow DEF Inv, GrowthSound
    <2> QED BY <2>1, <2>3, <2>4 DEF Inv, FlagsTrue
  <1> QED BY <1>1, Invariance, PTL

(* A page that no block holds is unlocked and back in core dumps, also     *)
(* when mlock had refused it (secure.cpp, unlock_region), unless the       *)
(* kernel itself failed a release.                                         *)
THEOREM PagesGivenBack == Spec => []GivenBack
  <1>1. Inv => GivenBack
    <2> SUFFICES ASSUME Inv, NEW g \in Pages, ~degraded,
                        \A b \in Blocks : g \notin region[b]
                 PROVE  /\ refs[g] = 0 /\ g \notin exposed
                        /\ g \in stuck \/ (g \notin resident /\ g \notin nodump)
      BY DEF GivenBack
    <2>1. Holders(g) = {}
      BY DEF Holders
    <2>2. refs[g] = 0
      BY <2>1, FS_EmptySet DEF Inv, Counted
    <2> QED BY <2>2 DEF Inv, FlagsTrue
  <1> QED BY <1>1, Invariance, PTL
=============================================================================
