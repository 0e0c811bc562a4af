------------------------------ MODULE LootProofs ------------------------------
(* Theorems about Loot, for any looters, items, money, points and times.      *)
EXTENDS Loot, SetInduction, SequenceTheorems

USE LootAssumption

-----------------------------------------------------------------------------
(* The inductive invariant.                                                  *)

N == Cardinality(Looters)

Slot == [at : Looters \cup {"list"}, type : Types, byRollCount : 0 .. N, owners : SUBSET Looters,
         nMaxRollPoint : 0 .. Points, points : [Looters -> NoPoint .. Points]]

\* The types of an item that belongs to who rolled highest.
Contested == {"litNeedRoll", "litOverTimeLooterFree"}

\* Who rolled highest so far is the only owner.
Highest(s) ==
    /\ \A q \in Looters : s.points[q] <= s.nMaxRollPoint
    /\ s.nMaxRollPoint > 0 =>
          \E w \in Looters : s.owners = {w} /\ s.points[w] = s.nMaxRollPoint

\* A roll of an opened list has answers to come: the last one ended it.
Fair(s, o) ==
    s.at = "list" =>
        /\ s.type \in Contested => Highest(s)
        /\ s.type = "litNeedRoll" => IF o THEN s.byRollCount > 0 ELSE s.byRollCount = 0

Slots == slot \in [Items -> Slot]
Rolls == \A i \in Items : Fair(slot[i], opened)

IInv == TypeOK /\ Slots /\ Rolls /\ NothingForgotten

\* What a step that turns s into t owes to those who rolled.
Won(s, t) == \A p \in Looters :
    /\ s.at = "list" /\ t.at = p /\ s.type \in Contested
    /\ \E q \in Looters : t.points[q] > Passed
    => \A q \in Looters : t.points[q] <= t.points[p]

\* What a step owes to all slots.
SlotStep == /\ slot' \in [Items -> Slot]
            /\ \A i \in Items : Fair(slot'[i], opened') /\ Won(slot[i], slot'[i])

-----------------------------------------------------------------------------
(* Looters and items are finite.                                             *)

LEMMA LootersFinite == IsFiniteSet(Looters) /\ N \in Nat /\ Looters # {}
  <1>1. /\ LooterList \in [1 .. Len(LooterList) -> Looters] /\ Len(LooterList) \in Nat
        /\ DOMAIN LooterList = 1 .. Len(LooterList) /\ Len(LooterList) # 0
    BY LenProperties, EmptySeq
  <1>2. Looters = {LooterList[k] : k \in 1 .. Len(LooterList)}
    BY <1>1 DEF Looters, ToSet
  <1>3. LooterList \in Surjection(1 .. Len(LooterList), Looters)
    BY <1>1, <1>2 DEF Surjection
  <1>4. IsFiniteSet(Looters)
    BY <1>1, <1>3, FS_Surjection, FS_Interval
  <1>5. LooterList[1] \in Looters
    BY <1>1
  <1> QED
    BY <1>4, <1>5, FS_CardinalityType DEF N

LEMMA SomeLooters ==
    ASSUME NEW S \in SUBSET Looters
    PROVE  Cardinality(S) \in 0 .. N /\ (S # {} => Cardinality(S) > 0)
  <1>1. IsFiniteSet(S) /\ Cardinality(S) <= N
    BY LootersFinite, FS_Subset DEF N
  <1>2. Cardinality(S) \in Nat
    BY <1>1, FS_CardinalityType
  <1>3. Cardinality(S) = 0 <=> S = {}
    BY <1>1, FS_EmptySet
  <1> QED
    BY <1>1, <1>2, <1>3, LootersFinite

Taken(f) == {i \in Items : f[i].at # "list"}

LEMMA TakenFinite ==
    ASSUME NEW f
    PROVE  /\ IsFiniteSet(Taken(f)) /\ Cardinality(Taken(f)) \in Nat
           /\ Cardinality(Taken(f)) = Cardinality(Items) => Taken(f) = Items
  <1>1. Taken(f) \in SUBSET Items
    BY DEF Taken
  <1>2. /\ IsFiniteSet(Taken(f))
        /\ Cardinality(Items) = Cardinality(Taken(f)) => Items = Taken(f)
    BY <1>1, FS_Subset
  <1> QED
    BY <1>2, FS_CardinalityType

-----------------------------------------------------------------------------
(* The two ways a slot changes.                                              *)

\* One item is changed and stays, or is taken and counted.
OneItem(i, t) ==
    /\ slot' = [slot EXCEPT ![i] = t]
    /\ looted' = IF t.at = "list" THEN looted ELSE looted + 1

LEMMA OneItemCounted ==
    ASSUME Slots, looted = Cardinality(Taken(slot)), NEW i \in Items, InList(i), NEW t, OneItem(i, t)
    PROVE  looted' = Cardinality(Taken(slot'))
  <1>1. /\ \A j \in Items \ {i} : slot'[j] = slot[j]
        /\ slot'[i] = t
    BY DEF Slots, OneItem
  <1>2. i \notin Taken(slot)
    BY DEF Taken, InList
  <1>3. CASE t.at = "list"
    <2>1. Taken(slot') = Taken(slot)
      BY <1>1, <1>2, <1>3 DEF Taken
    <2> QED
      BY <2>1, <1>3 DEF OneItem
  <1>4. CASE t.at # "list"
    <2>1. Taken(slot') = Taken(slot) \cup {i}
      BY <1>1, <1>2, <1>4 DEF Taken
    <2>2. Cardinality(Taken(slot) \cup {i}) = Cardinality(Taken(slot)) + 1
      BY <1>2, TakenFinite, FS_AddElement
    <2> QED
      BY <2>1, <2>2, <1>4 DEF OneItem
  <1> QED
    BY <1>3, <1>4

LEMMA SameWon == ASSUME NEW s PROVE Won(s, s)
  BY DEF Won

LEMMA OneItemSlots ==
    ASSUME Slots, Rolls, NEW i \in Items, InList(i), NEW t \in Slot, OneItem(i, t),
           Fair(t, opened), Won(slot[i], t), opened' = opened
    PROVE  SlotStep
  <1>1. /\ \A j \in Items \ {i} : slot'[j] = slot[j]
        /\ slot'[i] = t /\ slot' \in [Items -> Slot]
    BY DEF Slots, OneItem
  <1>2. ASSUME NEW j \in Items PROVE Fair(slot'[j], opened') /\ Won(slot[j], slot'[j])
    <2>1. CASE j = i
      BY <2>1, <1>1, Zenon
    <2>2. CASE j # i
      <3>1. slot'[j] = slot[j] /\ Fair(slot[j], opened)
        BY <2>2, <1>1 DEF Rolls
      <3> QED
        BY <3>1, SameWon
    <2> QED
      BY <2>1, <2>2
  <1> QED
    BY <1>1, <1>2 DEF SlotStep

LEMMA SameSlots == ASSUME Slots, Rolls, UNCHANGED <<slot, opened>> PROVE SlotStep
  BY SameWon DEF Slots, Rolls, SlotStep

\* What the winner rolled is the highest roll there was.
LEMMA HighestWins ==
    ASSUME NEW s \in Slot, Highest(s), NEW p \in s.owners, NEW q \in Looters, s.points[q] > Passed,
           NEW r \in Looters
    PROVE  s.points[r] <= s.points[p]
  <1>1. s.points[q] \in Int /\ s.points[q] <= s.nMaxRollPoint /\ s.nMaxRollPoint \in Int
    BY DEF Slot, Highest, NoPoint
  <1>2. s.nMaxRollPoint > 0
    BY <1>1 DEF Passed
  <1>3. PICK w \in Looters : s.owners = {w} /\ s.points[w] = s.nMaxRollPoint
    BY <1>2 DEF Highest
  <1> QED
    BY <1>3 DEF Highest

-----------------------------------------------------------------------------
(* The rest of the state.                                                    *)

Typed ==
    /\ place \in [Looters -> {"near", "far", "switching", "offline"}]
    /\ offline \subseteq Looters /\ asked \subseteq Looters
    /\ opened \in BOOLEAN
    /\ rollLeft \in NotSet .. RollTime /\ overLeft \in NotSet .. OverLootTime
    /\ list \in {"there", "over", "vanished"}

Step == SlotStep /\ Typed' /\ NothingForgotten'

LEMMA Parts == ASSUME IInv PROVE Typed /\ Slots /\ Rolls /\ looted = Cardinality(Taken(slot))
  BY DEF IInv, TypeOK, Typed, NothingForgotten, Taken, InList

LEMMA SlotsTyped == Slots /\ Typed => TypeOK
  <1> SUFFICES ASSUME Slots, Typed PROVE TypeOK
    OBVIOUS
  <1>1. ASSUME NEW i \in Items
        PROVE  /\ slot[i].at \in Looters \cup {"list"} /\ slot[i].type \in Types
               /\ slot[i].byRollCount \in 0 .. Cardinality(Looters)
               /\ slot[i].owners \subseteq Looters
               /\ slot[i].nMaxRollPoint \in 0 .. Points
               /\ slot[i].points \in [Looters -> NoPoint .. Points]
    <2>1. slot[i] \in Slot
      BY DEF Slots
    <2> QED
      BY <2>1 DEF Slot, N
  <1> QED
    BY <1>1, Zenon DEF Typed, TypeOK

LEMMA StepInvariant == ASSUME Step PROVE IInv'
  <1>1. Slots' /\ Rolls' /\ Typed' /\ NothingForgotten'
    BY DEF Step, SlotStep, Slots, Rolls
  <1>2. TypeOK'
    BY <1>1, SlotsTyped, PTL
  <1> QED
    BY <1>1, <1>2 DEF IInv

\* Every answer to a client ends with Close.
LEMMA Closed ==
    ASSUME Typed, looted' = Cardinality(Taken(slot')), There, Close,
           UNCHANGED <<place, offline, asked, opened, rollLeft, overLeft>>
    PROVE  Typed' /\ NothingForgotten'
  <1>1. looted' = Cardinality({i \in Items : slot'[i].at # "list"})
    BY DEF Taken
  <1>2. list' \in {"there", "over"}
    BY DEF Close, There
  <1>3. Typed'
    BY <1>2 DEF Typed
  <1>4. ASSUME list' = "over" PROVE money' = 0 /\ \A i \in Items : slot'[i].at # "list"
    <2>1. looted' = Cardinality(Items) /\ money' = 0
      BY <1>4 DEF Close, There, IsEmpty
    <2>2. Taken(slot') = Items
      BY <2>1, TakenFinite
    <2> QED
      BY <2>1, <2>2 DEF Taken
  <1> QED
    BY <1>1, <1>3, <1>4 DEF NothingForgotten, InList

\* A step that leaves items, coins and the state of the list alone.
LEMMA SameItems ==
    ASSUME IInv, Typed', UNCHANGED <<slot, opened, looted, money, list>>
    PROVE  Step
  <1>1. SlotStep
    BY Parts, SameSlots
  <1>2. NothingForgotten'
    BY DEF IInv, NothingForgotten, InList
  <1> QED
    BY <1>1, <1>2 DEF Step

-----------------------------------------------------------------------------
(* The actions.                                                              *)

LEMMA InitInvariant == Init => IInv
  <1> SUFFICES ASSUME Init PROVE IInv
    OBVIOUS
  <1>1. PICK mode \in {"ilmFreeForAll", "ilmDistribute", "ilmGroupLoot"} :
          /\ \E drops \in [Items -> UNION {Drops(i, mode) : i \in Items}] : slot = drops
          /\ \A i \in Items : slot[i] \in Drops(i, mode)
    BY Zenon DEF Init
  <1>2. ASSUME NEW i \in Items
        PROVE  \E type \in Types, owners \in SUBSET Looters : slot[i] = Drop(type, owners)
    BY <1>1 DEF Drops, Types
  <1>3. ASSUME NEW type \in Types, NEW owners \in SUBSET Looters
        PROVE  /\ Drop(type, owners) \in Slot
               /\ Drop(type, owners).at = "list"
               /\ Fair(Drop(type, owners), FALSE)
    <2> DEFINE t == Drop(type, owners)
               points == [p \in Looters |-> NoPoint]
    <2>1. /\ t = [at |-> "list", type |-> type, byRollCount |-> 0, owners |-> owners,
                  nMaxRollPoint |-> 0, points |-> points]
          /\ points \in [Looters -> NoPoint .. Points] /\ \A p \in Looters : points[p] <= 0
      BY DEF Drop, NoPoint
    <2>2. 0 \in 0 .. N /\ 0 \in 0 .. Points
      BY LootersFinite
    <2> HIDE DEF points
    <2>3. t \in Slot
      BY <2>1, <2>2 DEF Slot
    <2> QED
      BY <2>1, <2>3 DEF Fair, Highest
  <1>4. ASSUME NEW i \in Items
        PROVE  slot[i] \in Slot /\ slot[i].at = "list" /\ Fair(slot[i], FALSE)
    <2>1. PICK type \in Types, owners \in SUBSET Looters : slot[i] = Drop(type, owners)
      BY <1>2
    <2> QED
      BY <2>1, <1>3
  <1>5. slot \in [Items -> Slot]
    BY <1>1, <1>4
  <1>6. Typed
    <2>1. rollLeft \in NotSet .. RollTime /\ overLeft \in NotSet .. OverLootTime
      BY DEF Init, NotSet
    <2> QED
      BY <2>1 DEF Init, Typed
  <1>7. NothingForgotten
    <2>1. {i \in Items : ~ InList(i)} = {}
      BY <1>4 DEF InList
    <2> QED
      BY <2>1, FS_EmptySet DEF Init, NothingForgotten
  <1>8. Rolls
    BY <1>4 DEF Init, Rolls
  <1> QED
    BY <1>5, <1>6, <1>7, <1>8, SlotsTyped DEF IInv, Slots

LEMMA MoveStep ==
    ASSUME IInv, NEW p \in Looters, NEW x \in {"near", "far", "switching", "offline"}, Move(p, x)
    PROVE  Step
  <1>1. UNCHANGED <<offline, slot, opened, rollLeft, overLeft, looted, money, list>>
    BY DEF Move, timers, coins
  <1>2. place' \in [Looters -> {"near", "far", "switching", "offline"}]
    BY Parts DEF Move, Typed
  <1>3. asked' \subseteq Looters
    BY Parts DEF Move, Typed
  <1>4. Typed'
    BY <1>1, <1>2, <1>3, Parts DEF Typed
  <1> QED
    BY <1>1, <1>4, SameItems

LEMMA OpenStep == ASSUME IInv, NEW p \in Looters, OnOpen(p) PROVE Step
  <1>1. PICK near \in SUBSET {q \in Looters : place[q] = "switching"} :
          LET rollers == {q \in Looters : place[q] = "near"} \cup near IN
          /\ slot' = [i \in Items |->
                IF Rolled(i) THEN [slot[i] EXCEPT !.byRollCount = Cardinality(rollers)] ELSE slot[i]]
          /\ IF \E i \in Items : Rolled(i)
             THEN /\ asked' = asked \cup rollers
                  /\ rollLeft' = RollTime
                  /\ overLeft' = IF overLeft < RollTime THEN OverLootTime ELSE overLeft
             ELSE UNCHANGED <<asked, rollLeft, overLeft>>
    BY Zenon DEF OnOpen
  <1> DEFINE rollers == {q \in Looters : place[q] = "near"} \cup near
             n == Cardinality(rollers)
  <1>2. /\ place[p] = "near" /\ ~ opened /\ opened'
        /\ opened' = TRUE
        /\ UNCHANGED <<place, offline, looted, money, list>>
    BY DEF OnOpen, coins
  <1>3. n \in 0 .. N /\ n > 0 /\ rollers \subseteq Looters
    <2>1. rollers \in SUBSET Looters /\ p \in rollers
      BY <1>2
    <2> QED
      BY <2>1, SomeLooters
  <1>4. /\ \A i \in Items : slot'[i] = IF Rolled(i) THEN [slot[i] EXCEPT !.byRollCount = n] ELSE slot[i]
        /\ slot' = [i \in Items |-> slot'[i]]
    BY <1>1
  <1>5. IF \E i \in Items : Rolled(i)
        THEN /\ asked' = asked \cup rollers
             /\ rollLeft' = RollTime
             /\ overLeft' = IF overLeft < RollTime THEN OverLootTime ELSE overLeft
        ELSE UNCHANGED <<asked, rollLeft, overLeft>>
    BY <1>1
  <1> HIDE DEF n, rollers
  <1>6. Typed'
    <2>1. asked' \subseteq Looters
      BY <1>3, <1>5, Parts DEF Typed
    <2>2. rollLeft' \in NotSet .. RollTime /\ overLeft' \in NotSet .. OverLootTime
      BY <1>5, Parts DEF Typed, NotSet
    <2> QED
      BY <1>2, <2>1, <2>2, Parts DEF Typed
  <1>7. ASSUME NEW i \in Items
        PROVE  /\ slot'[i] \in Slot /\ slot'[i].at = slot[i].at
               /\ Fair(slot'[i], TRUE) /\ Won(slot[i], slot'[i])
    <2>1. slot[i] \in Slot /\ Fair(slot[i], FALSE)
      BY <1>2, Parts DEF Slots, Rolls, Typed
    <2>2. CASE ~ Rolled(i)
      BY <2>1, <2>2, <1>4, SameWon DEF Fair, Rolled, InList
    <2>3. CASE Rolled(i)
      <3> DEFINE t == [slot[i] EXCEPT !.byRollCount = n]
      <3>1. slot'[i] = t
        BY <1>4, <2>3
      <3>2. /\ t \in Slot /\ t.byRollCount > 0 /\ t.at = slot[i].at /\ t.type = slot[i].type
            /\ t.owners = slot[i].owners /\ t.points = slot[i].points
            /\ t.nMaxRollPoint = slot[i].nMaxRollPoint
        BY <2>1, <1>3 DEF Slot
      <3> HIDE DEF t
      <3>3. Fair(t, TRUE)
        BY <2>1, <3>2 DEF Fair, Highest
      <3>4. Won(slot[i], t)
        BY <3>2 DEF Won
      <3> QED
        BY <3>1, <3>2, <3>3, <3>4
    <2> QED
      BY <2>2, <2>3
  <1>8. SlotStep
    BY <1>2, <1>4, <1>7 DEF SlotStep
  <1>9. NothingForgotten'
    BY <1>2, <1>7 DEF IInv, NothingForgotten, InList
  <1> QED
    BY <1>6, <1>8, <1>9 DEF Step

\* Taking, distributing and rolling for one item.
LEMMA OneItemStep ==
    ASSUME IInv, NEW i \in Items, InList(i), NEW t \in Slot, OneItem(i, t),
           Fair(t, opened), Won(slot[i], t), There, Close,
           UNCHANGED <<place, offline, asked, opened, rollLeft, overLeft>>
    PROVE  Step
  <1>1. SlotStep
    BY Parts, OneItemSlots
  <1>2. looted' = Cardinality(Taken(slot'))
    BY Parts, OneItemCounted
  <1>3. Typed' /\ NothingForgotten'
    BY <1>2, Parts, Closed
  <1> QED
    BY <1>1, <1>3 DEF Step

LEMMA LootStep == ASSUME IInv, NEW p \in Looters, NEW i \in Items, LootItem(p, i) PROVE Step
  <1> DEFINE t == [slot[i] EXCEPT !.at = p]
  <1>1. /\ There /\ Close /\ InList(i) /\ opened /\ CanLoot(i, p)
        /\ UNCHANGED <<place, offline, asked, opened, rollLeft, overLeft>>
        /\ slot' = [slot EXCEPT ![i].at = p] /\ looted' = looted + 1
    BY DEF LootItem, world, timers
  <1>2. slot[i] \in Slot /\ Fair(slot[i], TRUE) /\ slot[i].at = "list"
    BY <1>1, Parts DEF Slots, Rolls, Typed, InList
  <1>3. /\ t \in Slot /\ t.at = p /\ p # "list" /\ t.points = slot[i].points
    BY <1>2 DEF Slot
  <1>4. slot' = [slot EXCEPT ![i] = t]
    BY <1>1, Parts DEF Slots
  <1> HIDE DEF t
  <1>5. OneItem(i, t) /\ Fair(t, opened)
    BY <1>1, <1>3, <1>4 DEF OneItem, Fair
  <1>6. Won(slot[i], t)
    <2>1. CASE slot[i].type = "litNeedRoll"
      BY <2>1, <1>1, <1>2 DEF CanLoot, Fair
    <2>2. CASE slot[i].type = "litOverTimeLooterFree"
      <3>1. Highest(slot[i]) /\ p \in slot[i].owners
        BY <2>2, <1>1, <1>2 DEF CanLoot, Fair, Contested
      <3>2. ASSUME NEW q \in Looters, slot[i].points[q] > Passed, NEW r \in Looters
            PROVE  slot[i].points[r] <= slot[i].points[p]
        BY <3>1, <3>2, <1>2, HighestWins
      <3> QED
        BY <3>2, <1>3 DEF Won
    <2>3. CASE slot[i].type \notin Contested
      BY <2>3 DEF Won
    <2> QED
      BY <2>1, <2>2, <2>3 DEF Contested
  <1> QED
    BY <1>1, <1>3, <1>5, <1>6, OneItemStep

LEMMA StaysWon == ASSUME NEW s, NEW t, t.at = "list" PROVE Won(s, t)
  BY DEF Won

LEMMA DistributeStep ==
    ASSUME IInv, NEW p \in Looters, NEW q \in Looters, NEW i \in Items, DistributeItem(p, q, i)
    PROVE  Step
  <1> DEFINE given == [slot[i] EXCEPT !.at = q]
             kept  == [slot[i] EXCEPT !.owners = {q}, !.type = "litOwnerLoot"]
  <1>1. /\ There /\ Close /\ InList(i) /\ slot[i].type = "litNeedDistribute"
        /\ UNCHANGED <<place, offline, asked, opened, rollLeft, overLeft>>
        /\ \/ slot' = [slot EXCEPT ![i].at = q] /\ looted' = looted + 1
           \/ /\ slot' = [slot EXCEPT ![i].owners = {q}, ![i].type = "litOwnerLoot"]
              /\ UNCHANGED looted
    BY DEF DistributeItem, world, timers
  <1>2. slot[i] \in Slot /\ slot[i].at = "list" /\ slot \in [Items -> Slot]
    BY <1>1, Parts DEF Slots, InList
  <1>3. given \in Slot /\ given.at = q /\ q # "list"
    BY <1>2 DEF Slot
  <1>4. kept \in Slot /\ kept.at = "list" /\ kept.type = "litOwnerLoot"
    BY <1>2 DEF Slot, Types
  <1>5. /\ [slot EXCEPT ![i].at = q] = [slot EXCEPT ![i] = given]
        /\ [slot EXCEPT ![i].owners = {q}, ![i].type = "litOwnerLoot"] = [slot EXCEPT ![i] = kept]
    BY <1>2 DEF Slot
  <1> HIDE DEF given, kept
  <1>6. ASSUME NEW t \in Slot PROVE Won(slot[i], t)
    BY <1>1 DEF Won, Contested
  <1>7. Fair(given, opened) /\ Fair(kept, opened)
    BY <1>3, <1>4 DEF Fair, Contested
  <1>8. OneItem(i, given) \/ OneItem(i, kept)
    BY <1>1, <1>3, <1>4, <1>5 DEF OneItem
  <1> QED
    BY <1>1, <1>3, <1>4, <1>6, <1>7, <1>8, OneItemStep

LEMMA AnsweredStep ==
    ASSUME IInv, NEW i \in Items, opened, Rolled(i), There,
           NEW s \in Slot, s.at = "list", s.type = "litNeedRoll", Highest(s), Answered(i, s)
    PROVE  Step
  <1>1. /\ InList(i) /\ Close
        /\ UNCHANGED <<place, offline, asked, opened, rollLeft, overLeft>>
    BY DEF Answered, world, timers, Rolled
  <1>2. opened = TRUE
    BY Parts DEF Typed
  <1>3. CASE s.byRollCount # 0
    <2>1. OneItem(i, s)
      BY <1>3 DEF Answered, OneItem
    <2>2. s.byRollCount > 0
      BY <1>3, LootersFinite DEF Slot
    <2>3. Fair(s, opened)
      BY <1>2, <2>2 DEF Fair
    <2> QED
      BY <1>1, <2>1, <2>3, StaysWon, OneItemStep
  <1>4. CASE s.byRollCount = 0
    <2>1. EndRollItem(i, s)
      BY <1>4, Zenon DEF Answered
    <2>2. CASE /\ slot' = [slot EXCEPT ![i] = [s EXCEPT !.type = "litOverTimeLooterFree"]]
               /\ UNCHANGED looted
      <3> DEFINE t == [s EXCEPT !.type = "litOverTimeLooterFree"]
      <3>1. /\ t \in Slot /\ t.at = "list" /\ t.type = "litOverTimeLooterFree"
            /\ t.points = s.points /\ t.owners = s.owners /\ t.nMaxRollPoint = s.nMaxRollPoint
        BY DEF Slot, Types
      <3>2. slot' = [slot EXCEPT ![i] = t] /\ UNCHANGED looted
        BY <2>2
      <3> HIDE DEF t
      <3>3. OneItem(i, t) /\ Fair(t, opened)
        BY <3>1, <3>2 DEF OneItem, Fair, Highest
      <3> QED
        BY <1>1, <3>1, <3>3, StaysWon, OneItemStep
    <2>3. ASSUME NEW winner \in s.owners,
                 slot' = [slot EXCEPT ![i] = [s EXCEPT !.at = winner]], looted' = looted + 1
          PROVE  Step
      <3> DEFINE t == [s EXCEPT !.at = winner]
      <3>1. winner \in Looters /\ t \in Slot /\ t.at = winner /\ winner # "list" /\ t.points = s.points
        BY DEF Slot
      <3>2. slot' = [slot EXCEPT ![i] = t]
        BY <2>3
      <3> HIDE DEF t
      <3>3. OneItem(i, t) /\ Fair(t, opened)
        BY <2>3, <3>1, <3>2 DEF OneItem, Fair
      <3>4. ASSUME NEW q \in Looters, s.points[q] > Passed, NEW r \in Looters
            PROVE  s.points[r] <= s.points[winner]
        BY <3>4, HighestWins
      <3>5. Won(slot[i], t)
        BY <3>1, <3>4 DEF Won
      <3> QED
        BY <1>1, <3>1, <3>3, <3>5, OneItemStep
    <2> QED
      BY <2>1, <2>2, <2>3 DEF EndRollItem
  <1> QED
    BY <1>3, <1>4

LEMMA FewerLeft == ASSUME NEW n \in 1 .. N PROVE Fewer(n) \in 0 .. N
  <1>1. n - 1 \in Nat /\ n - 1 <= N /\ N \in Nat
    BY LootersFinite
  <1>2. ASSUME NEW k \in Nat PROVE k % 256 \in 0 .. k
    OBVIOUS
  <1> QED
    BY <1>1, <1>2 DEF Fewer

\* A looter that has not answered yet answers: the highest so far stays the owner.
LEMMA StaysHighest ==
    ASSUME NEW s \in Slot, Highest(s), NEW p \in Looters, s.points[p] = NoPoint,
           NEW n \in Passed .. Points, NEW owners \in {s.owners, {p}}, NEW t,
           n > s.nMaxRollPoint => owners = {p}, n < s.nMaxRollPoint => owners = s.owners,
           n = Passed => owners = s.owners,
           t.owners = owners, t.points = [s.points EXCEPT ![p] = n],
           t.nMaxRollPoint = IF n > s.nMaxRollPoint THEN n ELSE s.nMaxRollPoint
    PROVE  Highest(t)
  <1>1. /\ s.nMaxRollPoint \in Nat /\ n \in Nat
        /\ s.points \in [Looters -> NoPoint .. Points]
    BY DEF Slot, Passed
  <1>2. t.points[p] = n /\ \A q \in Looters \ {p} : t.points[q] = s.points[q]
    BY <1>1
  <1>3. \A q \in Looters : t.points[q] <= t.nMaxRollPoint
    <2>1. ASSUME NEW q \in Looters PROVE t.points[q] <= t.nMaxRollPoint
      <3>1. s.points[q] \in Int /\ s.points[q] <= s.nMaxRollPoint
        BY <1>1 DEF Highest, NoPoint
      <3> QED
        BY <3>1, <1>1, <1>2
    <2> QED
      BY <2>1
  <1>4. ASSUME t.nMaxRollPoint > 0
        PROVE  \E w \in Looters : t.owners = {w} /\ t.points[w] = t.nMaxRollPoint
    <2>1. CASE owners = {p} /\ n >= s.nMaxRollPoint
      BY <2>1, <1>1, <1>2
    <2>2. CASE n <= s.nMaxRollPoint /\ owners = s.owners
      <3>1. t.nMaxRollPoint = s.nMaxRollPoint
        BY <2>2, <1>1
      <3>2. PICK w \in Looters : s.owners = {w} /\ s.points[w] = s.nMaxRollPoint
        BY <1>4, <3>1 DEF Highest
      <3>3. w # p
        BY <1>1, <1>4, <3>1, <3>2 DEF NoPoint
      <3> QED
        BY <2>2, <3>1, <3>2, <3>3, <1>2
    <2> QED
      BY <2>1, <2>2, <1>1
  <1> QED
    BY <1>3, <1>4 DEF Highest

LEMMA RollStep ==
    ASSUME IInv, NEW p \in Looters, NEW i \in Items, NEW n \in 1 .. Points, RollItem(p, i, n)
    PROVE  Step
  <1>1. PICK owners \in {slot[i].owners, {p}} :
          /\ n > slot[i].nMaxRollPoint => owners = {p}
          /\ n < slot[i].nMaxRollPoint => owners = slot[i].owners
          /\ Answered(i, [slot[i] EXCEPT !.owners = owners,
                              !.nMaxRollPoint = IF n > @ THEN n ELSE @,
                              !.points[p] = n, !.byRollCount = Fewer(@)])
    BY Zenon DEF RollItem
  <1> DEFINE points == [slot[i].points EXCEPT ![p] = n]
             max    == IF n > slot[i].nMaxRollPoint THEN n ELSE slot[i].nMaxRollPoint
             count  == Fewer(slot[i].byRollCount)
             t      == [slot[i] EXCEPT !.owners = owners, !.nMaxRollPoint = max,
                                       !.points = points, !.byRollCount = count]
  <1>2. There /\ opened /\ Rolled(i) /\ slot[i].points[p] = NoPoint
    BY DEF RollItem, CanRoll
  <1>3. /\ slot[i] \in Slot /\ slot[i].at = "list" /\ slot[i].type = "litNeedRoll"
        /\ Highest(slot[i]) /\ slot[i].byRollCount > 0
    BY <1>2, Parts DEF Slots, Rolls, Rolled, InList, Fair, Contested
  <1>4. points \in [Looters -> NoPoint .. Points] /\ max \in 0 .. Points
    BY <1>3 DEF Slot, NoPoint
  <1>5. count \in 0 .. N
    <2>1. slot[i].byRollCount \in 1 .. N
      BY <1>3, LootersFinite DEF Slot
    <2> QED
      BY <2>1, FewerLeft
  <1>6. Answered(i, t)
    BY <1>1, <1>3 DEF Slot
  <1>7. owners \in SUBSET Looters
    BY <1>3 DEF Slot
  <1> HIDE DEF points, max, count
  <1>8. /\ t \in Slot /\ t.at = "list" /\ t.type = "litNeedRoll"
        /\ t.owners = owners /\ t.points = points /\ t.nMaxRollPoint = max
    BY <1>3, <1>4, <1>5, <1>7 DEF Slot
  <1> HIDE DEF t
  <1>9. Highest(t)
    <2>1. n \in Passed .. Points /\ n # Passed
      BY DEF Passed
    <2>2. /\ t.points = [slot[i].points EXCEPT ![p] = n]
          /\ t.nMaxRollPoint = IF n > slot[i].nMaxRollPoint THEN n ELSE slot[i].nMaxRollPoint
      BY <1>8 DEF points, max
    <2> QED
      BY <1>1, <1>2, <1>3, <1>8, <2>1, <2>2, StaysHighest
  <1> QED
    BY <1>2, <1>6, <1>8, <1>9, AnsweredStep

LEMMA CancelStep ==
    ASSUME IInv, NEW p \in Looters, NEW i \in Items, CancelRollItem(p, i) PROVE Step
  <1> DEFINE points == [slot[i].points EXCEPT ![p] = Passed]
             count  == Fewer(slot[i].byRollCount)
             t      == [slot[i] EXCEPT !.points = points, !.byRollCount = count]
  <1>1. /\ There /\ opened /\ Rolled(i) /\ slot[i].points[p] = NoPoint
        /\ Answered(i, [slot[i] EXCEPT !.points[p] = Passed, !.byRollCount = Fewer(@)])
    BY DEF CancelRollItem, CanRoll
  <1>2. /\ slot[i] \in Slot /\ slot[i].at = "list" /\ slot[i].type = "litNeedRoll"
        /\ Highest(slot[i]) /\ slot[i].byRollCount > 0
    BY <1>1, Parts DEF Slots, Rolls, Rolled, InList, Fair, Contested
  <1>3. points \in [Looters -> NoPoint .. Points]
    BY <1>2 DEF Slot, NoPoint, Passed
  <1>4. count \in 0 .. N
    <2>1. slot[i].byRollCount \in 1 .. N
      BY <1>2, LootersFinite DEF Slot
    <2> QED
      BY <2>1, FewerLeft
  <1>5. Answered(i, t)
    BY <1>1, <1>2 DEF Slot
  <1> HIDE DEF points, count
  <1>6. /\ t \in Slot /\ t.at = "list" /\ t.type = "litNeedRoll"
        /\ t.owners = slot[i].owners /\ t.points = points
        /\ t.nMaxRollPoint = slot[i].nMaxRollPoint
    BY <1>2, <1>3, <1>4 DEF Slot
  <1> HIDE DEF t
  <1>7. Highest(t)
    <2>1. Passed \in Passed .. Points /\ ~ (Passed > slot[i].nMaxRollPoint)
      BY <1>2 DEF Passed, Slot
    <2>2. t.points = [slot[i].points EXCEPT ![p] = Passed]
      BY <1>6 DEF points
    <2> QED
      BY <1>1, <1>2, <1>6, <2>1, <2>2, StaysHighest
  <1> QED
    BY <1>1, <1>5, <1>6, <1>7, AnsweredStep

LEMMA CoinsStep ==
    ASSUME IInv, There, Close,
           UNCHANGED <<place, offline, asked, slot, opened, rollLeft, overLeft, looted>>
    PROVE  Step
  <1>1. SlotStep
    BY Parts, SameSlots
  <1>2. looted' = Cardinality(Taken(slot'))
    BY Parts
  <1> QED
    BY <1>1, <1>2, Parts, Closed DEF Step

LEMMA MoneyStep == ASSUME IInv, NEW p \in Looters, LootMoney(p) PROVE Step
  <1>1. /\ There /\ Close
        /\ UNCHANGED <<place, offline, asked, slot, opened, rollLeft, overLeft, looted>>
    BY DEF LootMoney, world, timers
  <1> QED
    BY <1>1, CoinsStep

LEMMA FinishStep == ASSUME IInv, NEW p \in Looters, OnFinishLoot(p) PROVE Step
  <1>1. /\ There /\ Close
        /\ UNCHANGED <<place, offline, asked, slot, opened, rollLeft, overLeft, looted>>
    BY DEF OnFinishLoot, world, timers
  <1> QED
    BY <1>1, CoinsStep

LEMMA DisappearStep == ASSUME Disappear PROVE Step
  <1> DEFINE t == Drop("litOwnerLoot", {})
             points == [p \in Looters |-> NoPoint]
  <1>1. /\ list' = "vanished" /\ place' = [p \in Looters |-> "far"] /\ offline' = {} /\ asked' = {}
        /\ slot' = [i \in Items |-> t] /\ opened' = FALSE /\ rollLeft' = NotSet
        /\ overLeft' = NotSet /\ looted' = 0
    BY DEF Disappear
  <1>2. /\ t = [at |-> "list", type |-> "litOwnerLoot", byRollCount |-> 0, owners |-> {},
                nMaxRollPoint |-> 0, points |-> points]
        /\ points \in [Looters -> NoPoint .. Points]
    BY DEF Drop, NoPoint
  <1> HIDE DEF points
  <1>3. t \in Slot /\ t.at = "list" /\ t.type = "litOwnerLoot"
    <2>1. 0 \in 0 .. N /\ 0 \in 0 .. Points
      BY LootersFinite
    <2> QED
      BY <1>2, <2>1 DEF Slot, Types
  <1> HIDE DEF t
  <1>4. SlotStep
    BY <1>1, <1>3, StaysWon DEF SlotStep, Fair, Contested
  <1>5. Typed'
    <2>1. NotSet \in NotSet .. RollTime /\ NotSet \in NotSet .. OverLootTime
      BY DEF NotSet
    <2> QED
      BY <1>1, <2>1 DEF Typed
  <1>6. NothingForgotten'
    <2>1. {i \in Items : slot'[i].at # "list"} = {}
      BY <1>1, <1>3
    <2> QED
      BY <1>1, <2>1, FS_EmptySet DEF NothingForgotten, InList
  <1> QED
    BY <1>4, <1>5, <1>6 DEF Step

LEMMA RollOverSlot ==
    ASSUME NEW s \in Slot, s.at = "list", s.type = "litNeedRoll", Highest(s), NEW full, NEW o
    PROVE  RollOver(s, full) \in Slot /\ Fair(RollOver(s, full), o) /\ Won(s, RollOver(s, full))
  <1> DEFINE free == [s EXCEPT !.byRollCount = 0, !.type = "litLooterFree"]
             kept == [s EXCEPT !.byRollCount = 0, !.type = "litOverTimeLooterFree"]
             winner == CHOOSE p \in s.owners : TRUE
             won == [s EXCEPT !.at = winner]
  <1>0. 0 \in 0 .. N
    BY LootersFinite
  <1>1. free \in Slot /\ Fair(free, o) /\ Won(s, free)
    <2>1. free \in Slot /\ free.at = "list" /\ free.type = "litLooterFree"
      BY <1>0 DEF Slot, Types
    <2> HIDE DEF free
    <2> QED
      BY <2>1, StaysWon DEF Fair, Contested
  <1>2. kept \in Slot /\ Fair(kept, o) /\ Won(s, kept)
    <2>1. /\ kept \in Slot /\ kept.at = "list" /\ kept.type = "litOverTimeLooterFree"
          /\ kept.points = s.points /\ kept.owners = s.owners
          /\ kept.nMaxRollPoint = s.nMaxRollPoint
      BY <1>0 DEF Slot, Types
    <2> HIDE DEF kept
    <2> QED
      BY <2>1, StaysWon DEF Fair, Highest
  <1>3. ASSUME s.owners # {} PROVE won \in Slot /\ Fair(won, o) /\ Won(s, won)
    <2>1. winner \in s.owners /\ winner \in Looters
      BY <1>3 DEF Slot
    <2> HIDE DEF winner
    <2>2. won \in Slot /\ won.at = winner /\ winner # "list" /\ won.points = s.points
      BY <2>1 DEF Slot
    <2> HIDE DEF won
    <2>3. ASSUME NEW q \in Looters, s.points[q] > Passed, NEW r \in Looters
          PROVE  s.points[r] <= s.points[winner]
      BY <2>1, <2>3, HighestWins
    <2> QED
      BY <2>2, <2>3 DEF Fair, Won
  <1>4. RollOver(s, full) = IF s.owners = {} THEN free
                            ELSE IF Playing(winner) /\ winner \notin full THEN won ELSE kept
    BY DEF RollOver
  <1> HIDE DEF free, kept, winner, won
  <1> QED
    BY <1>1, <1>2, <1>3, <1>4

\* What the end of the protection time makes of a slot.
OverLoot(s) ==
    IF s.at = "list" /\ s.type \in {"litOverTimeLooterFree", "litNeedDistribute"}
    THEN [s EXCEPT !.owners = {}, !.type = "litLooterFree"] ELSE s

LEMMA OverLootSlot ==
    ASSUME NEW s, NEW t \in Slot, NEW o, Fair(t, o), Won(s, t)
    PROVE  OverLoot(t) \in Slot /\ Fair(OverLoot(t), o) /\ Won(s, OverLoot(t))
  <1> DEFINE free == [t EXCEPT !.owners = {}, !.type = "litLooterFree"]
  <1>1. ASSUME t.at = "list" PROVE free \in Slot /\ Fair(free, o) /\ Won(s, free)
    <2>1. free \in Slot /\ free.at = "list" /\ free.type = "litLooterFree"
      BY <1>1 DEF Slot, Types
    <2> HIDE DEF free
    <2> QED
      BY <2>1, StaysWon DEF Fair, Contested
  <1> HIDE DEF free
  <1> QED
    BY <1>1 DEF OverLoot, free

LEMMA LaterTimer ==
    ASSUME NEW max \in Nat, NEW t \in NotSet .. max PROVE Later(t) \in NotSet .. max
  BY DEF Later, NotSet

LEMMA ActivateStep == ASSUME IInv, Activate PROVE Step
  <1> DEFINE left == Later(rollLeft)
             over == Later(overLeft)
             ends == opened /\ left = 0
             slots(full) == IF ends THEN ProcessOverRollTime(full) ELSE slot
  <1>1. /\ ProcessRollerOffline(left)
        /\ looted' = Cardinality({i \in Items : slot'[i].at # "list"})
        /\ rollLeft' = IF ends THEN NotSet ELSE left
        /\ overLeft' = IF over = 0 THEN NotSet ELSE over
        /\ UNCHANGED <<place, opened, list>> /\ list = "there"
    BY DEF Activate, There
  <1>2. PICK full \in SUBSET Looters :
          slot' = IF over = 0 THEN ProcessOverLootTime(slots(full)) ELSE slots(full)
    BY Zenon DEF Activate
  <1> DEFINE rolled == slots(full)
  <1>3. Typed'
    <2>1. offline' \subseteq Looters /\ asked' \subseteq Looters
      BY <1>1, Parts DEF ProcessRollerOffline, Typed
    <2>2. left \in NotSet .. RollTime /\ over \in NotSet .. OverLootTime
      BY Parts, LaterTimer DEF Typed
    <2> HIDE DEF left, over
    <2>3. rollLeft' \in NotSet .. RollTime /\ overLeft' \in NotSet .. OverLootTime
      BY <1>1, <2>2 DEF NotSet
    <2> QED
      BY <1>1, <2>1, <2>3, Parts DEF Typed
  <1>4. /\ rolled = [i \in Items |-> rolled[i]]
        /\ \A i \in Items : rolled[i] = IF ends /\ Rolled(i) THEN RollOver(slot[i], full) ELSE slot[i]
    BY Parts DEF ProcessOverRollTime, Slots
  <1> HIDE DEF left, over, ends
  <1>5. ASSUME NEW i \in Items
        PROVE  rolled[i] \in Slot /\ Fair(rolled[i], opened) /\ Won(slot[i], rolled[i])
    <2>1. slot[i] \in Slot /\ Fair(slot[i], opened)
      BY Parts DEF Slots, Rolls
    <2>2. CASE ends /\ Rolled(i)
      <3>1. slot[i].at = "list" /\ slot[i].type = "litNeedRoll" /\ Highest(slot[i])
        BY <2>1, <2>2 DEF Rolled, InList, Fair, Contested
      <3> QED
        BY <1>4, <2>1, <2>2, <3>1, RollOverSlot
    <2>3. CASE ~ (ends /\ Rolled(i))
      BY <1>4, <2>1, <2>3, SameWon
    <2> QED
      BY <2>2, <2>3
  <1> HIDE DEF rolled
  <1>6. slot' = IF over = 0 THEN [i \in Items |-> OverLoot(rolled[i])] ELSE rolled
    BY <1>2 DEF ProcessOverLootTime, OverLoot, rolled
  <1>7. ASSUME NEW i \in Items
        PROVE  slot'[i] \in Slot /\ Fair(slot'[i], opened) /\ Won(slot[i], slot'[i])
    BY <1>5, <1>6, OverLootSlot
  <1>8. slot' = [i \in Items |-> slot'[i]]
    BY <1>4, <1>6
  <1>9. SlotStep
    BY <1>1, <1>7, <1>8 DEF SlotStep
  <1>10. NothingForgotten'
    BY <1>1 DEF NothingForgotten, InList
  <1> QED
    BY <1>3, <1>9, <1>10 DEF Step

LEMMA SleepStep == ASSUME IInv, Sleep PROVE Step
  <1>1. UNCHANGED <<place, offline, asked, slot, opened, looted, money, list>>
    BY DEF Sleep, world, coins
  <1>2. rollLeft' \in NotSet .. RollTime /\ overLeft' \in NotSet .. OverLootTime
    BY Parts, LaterTimer DEF Sleep, Typed
  <1>3. Typed'
    BY <1>1, <1>2, Parts DEF Typed
  <1> QED
    BY <1>1, <1>3, SameItems

LEMMA NextStep == ASSUME IInv, Next PROVE Step
  <1>1. CASE \E p \in Looters, x \in {"near", "far", "switching", "offline"} : Move(p, x)
    BY <1>1, MoveStep
  <1>2. CASE \E p \in Looters : OnOpen(p)
    BY <1>2, OpenStep
  <1>3. CASE \E p \in Looters : LootMoney(p)
    BY <1>3, MoneyStep
  <1>4. CASE \E p \in Looters : OnFinishLoot(p)
    BY <1>4, FinishStep
  <1>5. CASE \E p \in Looters, i \in Items : LootItem(p, i)
    BY <1>5, LootStep
  <1>6. CASE \E p \in Looters, i \in Items : CancelRollItem(p, i)
    BY <1>6, CancelStep
  <1>7. CASE \E p \in Looters, i \in Items, n \in 1 .. Points : RollItem(p, i, n)
    BY <1>7, RollStep
  <1>8. CASE \E p \in Looters, i \in Items, q \in Looters : DistributeItem(p, q, i)
    BY <1>8, DistributeStep
  <1>9. CASE Disappear
    BY <1>9, DisappearStep
  <1>10. CASE ActivateNear \/ ActivateAlone
    BY <1>10, ActivateStep DEF ActivateNear, ActivateAlone
  <1>11. CASE Sleep
    BY <1>11, SleepStep
  <1> QED
    BY <1>1, <1>2, <1>3, <1>4, <1>5, <1>6, <1>7, <1>8, <1>9, <1>10, <1>11, Zenon DEF Next

LEMMA StutterStep == ASSUME IInv, UNCHANGED vars PROVE Step
  <1>1. UNCHANGED <<place, offline, asked, slot, opened, rollLeft, overLeft, looted, money, list>>
    BY DEF vars
  <1>2. Typed'
    BY <1>1, Parts DEF Typed
  <1> QED
    BY <1>1, <1>2, SameItems

-----------------------------------------------------------------------------

\* The inductive invariant holds: of an item that is rolled for, or that waits
\* for its winner, only who rolled highest is an owner, and an opened list never
\* keeps a roll that all have answered.
THEOREM LootInvariant == Spec => []IInv
  <1>1. Init => IInv
    BY InitInvariant
  <1>2. IInv /\ [Next]_vars => IInv'
    BY NextStep, StutterStep, StepInvariant
  <1> QED
    BY <1>1, <1>2, PTL DEF Spec

\* Roll counts, timers and states stay in their ranges: no BYTE wraps around,
\* for any number of looters and items.
THEOREM LootTyped == Spec => []TypeOK
  <1>1. IInv => TypeOK
    BY DEF IInv
  <1> QED
    BY <1>1, LootInvariant, PTL

\* However looters come, go and answer, m_nLootedCount is the number of items
\* that left the list, and a list given up as empty holds neither item nor coin.
THEOREM NothingThrownAway == Spec => []NothingForgotten
  <1>1. IInv => NothingForgotten
    BY DEF IInv
  <1> QED
    BY <1>1, LootInvariant, PTL

\* An item that was rolled for goes to who rolled as high as anyone, or to the
\* team when its time is up: by the last answer, by the clock or by the looter.
THEOREM HighestRollWins == Spec => WinnersItem
  <1> DEFINE A == \A i \in Items, p \in Looters :
                    /\ slot[i].at = "list" /\ slot'[i].at = p
                    /\ slot[i].type \in {"litNeedRoll", "litOverTimeLooterFree"}
                    /\ \E q \in Looters : slot'[i].points[q] > Passed
                    => \A q \in Looters : slot'[i].points[q] <= slot'[i].points[p]
  <1>1. IInv /\ [Next]_vars => [A]_vars
    <2>1. ASSUME IInv, Next PROVE A
      <3>1. \A i \in Items : Won(slot[i], slot'[i])
        BY <2>1, NextStep DEF Step, SlotStep
      <3> QED
        BY <3>1 DEF Won, Contested
    <2> HIDE DEF A
    <2> QED
      BY <2>1
  <1> QED
    BY <1>1, LootInvariant, PTL DEF Spec, WinnersItem


\* What was paid and what is left are all there was.
Coins ==
    /\ money \in Nat /\ gained \in [Looters -> Nat]
    /\ list # "vanished" => money + Total(gained, Looters) = Money

LEMMA CoinsShared == Coins => MoneyShared
  BY Zenon DEF Coins, MoneyShared, Total

LEMMA CoinsInit == Init => Coins
  <1> SUFFICES ASSUME Init PROVE Coins
    OBVIOUS
  <1>1. gained = [p \in Looters |-> 0] /\ money = Money
    BY Zenon DEF Init
  <1>2. Total(gained, Looters) = 0
    BY <1>1, LootersFinite, SumZeros
  <1>3. Money \in Nat
    BY LootAssumption
  <1>4. money \in Nat /\ gained \in [Looters -> Nat]
    BY <1>1, <1>3
  <1>5. money + Total(gained, Looters) = Money
    <2> HIDE LootAssumption
    <2> QED
      BY <1>1, <1>2, <1>3
  <1> QED
    BY <1>4, <1>5 DEF Coins

LEMMA CoinsKept ==
    ASSUME Coins, UNCHANGED coins, list' = "vanished" \/ There
    PROVE  Coins'
  <1>1. money' = money /\ gained' = gained
    BY DEF coins
  <1>2. list = "vanished" => list' = "vanished"
    BY DEF There
  <1> QED
    BY <1>1, <1>2 DEF Coins

\* The places of the registered looters in the list, and what each of them gets.
Online   == {k \in DOMAIN LooterList : Registered(LooterList[k])}
Share(k) == money \div Cardinality(Online) +
            IF Cardinality(Upto(Online, k)) <= money % Cardinality(Online) THEN 1 ELSE 0
Pos(q)   == CHOOSE k \in DOMAIN LooterList : LooterList[k] = q
Shared   == [q \in Looters |-> IF Registered(q) THEN gained[q] + Share(Pos(q)) ELSE gained[q]]

\* The shares of those who are registered are all the money, as one of them takes it.
LEMMA SharesTotal ==
    ASSUME Coins, NEW p \in Looters, place[p] = "near"
    PROVE  Shared \in [Looters -> Nat] /\ Total(Shared, Looters) = Total(gained, Looters) + money
  <1> DEFINE L == Looters
             S == Online
             f == LooterList
             n == Len(LooterList)
             R == {f[k] : k \in S}
             w == [k \in S |-> Share(k)]
             add == [q \in L |-> IF Registered(q) THEN Share(Pos(q)) ELSE 0]
  <1>1. /\ n \in Nat /\ DOMAIN f = 1 .. n /\ L = {f[k] : k \in 1 .. n}
        /\ \A j, k \in 1 .. n : f[j] = f[k] => j = k
    <2>1. n \in Nat /\ DOMAIN f = 1 .. n
      BY LenProperties
    <2>2. L = {f[k] : k \in DOMAIN f}
      BY Zenon DEF Looters, ToSet
    <2>3. \A j, k \in DOMAIN f : f[j] = f[k] => j = k
      <3>1. IsInjective(f)
        BY LootAssumption
      <3> HIDE DEF f
      <3> QED
        BY <3>1, Zenon DEF IsInjective
    <2> HIDE DEF L, f, n
    <2> QED
      BY <2>1, <2>2, <2>3
  <1>2. IsFiniteSet(L) /\ money \in Nat /\ gained \in [L -> Nat]
    BY LootersFinite DEF Coins
  <1>3. S \in SUBSET (1 .. n) /\ \A k \in 1 .. n : k \in S <=> Registered(f[k])
    BY <1>1 DEF Online
  <1>4. \A k \in 1 .. n : Pos(f[k]) = k
    BY <1>1 DEF Pos
  <1>5. S # {}
    <2>1. Registered(p)
      BY DEF Registered
    <2> QED
      BY <1>1, <1>3, <2>1
  <1> HIDE DEF L, S, f, n
  <1>6. Total(w, S) = money /\ \A k \in S : w[k] \in Nat
    <2>1. \A k \in S : w[k] = money \div Cardinality(S) +
                              IF Cardinality(Upto(S, k)) <= money % Cardinality(S) THEN 1 ELSE 0
      BY DEF Share, S
    <2> HIDE DEF w
    <2> QED
      BY <1>1, <1>2, <1>3, <1>5, <2>1, SharedOut
  <1>7. /\ R \in SUBSET L
        /\ \A q \in L : (q \in R) <=> Registered(q)
        /\ \A k \in S : f[k] \in R /\ add[f[k]] = w[k]
        /\ \A q \in R : \E k \in S : q = f[k] /\ add[q] = w[k]
        /\ \A q \in L \ R : add[q] = 0
    <2>1. \A q \in L : add[q] = IF Registered(q) THEN Share(Pos(q)) ELSE 0
      OBVIOUS
    <2>2. \A k \in S : w[k] = Share(k) /\ k \in 1 .. n
      BY <1>3
    <2> HIDE DEF add, w
    <2> QED
      BY <1>1, <1>3, <1>4, <2>1, <2>2
  <1> HIDE DEF R, add, w
  <1>8. Total(add, R) = money
    <2>1. IsFiniteSet(S)
      <3>1. IsFiniteSet(1 .. n)
        BY <1>1, FS_Interval
      <3> QED
        BY <1>3, <3>1, FS_Subset
    <2>2. \A j, k \in S : f[j] = f[k] => j = k
      BY <1>1, <1>3
    <2>3. \A k \in S : w[k] = add[f[k]] /\ w[k] \in Int
      BY <1>6, <1>7
    <2>4. R = {f[k] : k \in S}
      BY DEF R
    <2>5. Total(w, S) = Total(add, R)
      <3> HIDE LootAssumption
      <3> QED
        BY <2>1, <2>2, <2>3, <2>4, SumBijection, SMTT(30)
    <2> QED
      BY <1>6, <2>5
  <1>9. \A q \in L : add[q] \in Nat
    BY <1>6, <1>7
  <1>10. Total(add, L) = money
    <2>1. IsFiniteSet(L \ R) /\ \A q \in L : add[q] \in Int
      BY <1>2, <1>9, FS_Subset
    <2>2. Total(add, L) = Total(add, R) + Total(add, L \ R)
      BY <1>2, <1>7, <2>1, SumSplit
    <2>3. Total(add, L \ R) = 0
      BY <1>7, <2>1, SumZeros
    <2> QED
      BY <1>2, <1>8, <2>2, <2>3
  <1>11. \A q \in L : Shared[q] = gained[q] + add[q] /\ gained[q] \in Nat
    <2>1. \A q \in L : Shared[q] = IF Registered(q) THEN gained[q] + Share(Pos(q)) ELSE gained[q]
      BY DEF Shared, L
    <2>2. \A q \in L : add[q] = IF Registered(q) THEN Share(Pos(q)) ELSE 0
      BY DEF add
    <2> QED
      BY <1>2, <2>1, <2>2
  <1>12. Shared \in [L -> Nat]
    BY <1>9, <1>11 DEF Shared, L
  <1>13. Total(Shared, L) = Total(gained, L) + Total(add, L)
    <2>1. \A q \in L : gained[q] \in Int /\ add[q] \in Int /\ Shared[q] = gained[q] + add[q]
      BY <1>9, <1>11
    <2> QED
      BY <1>2, <2>1, SumPlus
  <1> QED
    BY <1>10, <1>12, <1>13 DEF L

LEMMA CoinsPaid ==
    ASSUME Coins, NEW p \in Looters, LootMoney(p)
    PROVE  Coins'
  <1>1. /\ There /\ place[p] = "near" /\ money' = 0
        /\ gained' = [gained EXCEPT ![p] = @ + money] \/ gained' = Shared
    BY Zenon DEF LootMoney, Online, Share, Pos, Shared, Upto
  <1>2. money \in Nat /\ gained \in [Looters -> Nat] /\ IsFiniteSet(Looters)
        /\ money + Total(gained, Looters) = Money
    BY <1>1, LootersFinite DEF Coins, There
  <1>3. gained' \in [Looters -> Nat] /\ Total(gained', Looters) = Total(gained, Looters) + money
    <2>1. CASE gained' = [gained EXCEPT ![p] = @ + money]
      <3>1. /\ gained' \in [Looters -> Nat] /\ gained'[p] = gained[p] + money
            /\ \A q \in Looters \ {p} : gained'[q] = gained[q]
        BY <1>2, <2>1
      <3>2. \A q \in Looters : gained[q] \in Int /\ gained'[q] \in Int
        BY <1>2, <3>1
      <3>3. Total(gained', Looters) = Total(gained, Looters) + gained'[p] - gained[p]
        <4>1. gained'[p] \in Int
          BY <3>2
        <4> QED
          <5> HIDE LootAssumption
          <5> QED
            BY <1>2, <3>1, <3>2, <4>1, SumChange, SMTT(30)
      <3>4. Total(gained, Looters) \in Int
        BY <1>2, <3>2, SumType
      <3> QED
        BY <1>2, <3>1, <3>2, <3>3, <3>4
    <2>2. CASE gained' = Shared
      BY <1>1, <2>2, SharesTotal
    <2> QED
      BY <1>1, <2>1, <2>2
  <1>4. Total(gained, Looters) \in Int
    BY <1>2, SumType
  <1> QED
    BY <1>1, <1>2, <1>3, <1>4 DEF Coins

LEMMA CoinsGone == ASSUME Disappear PROVE Coins'
  BY DEF Disappear, Coins

LEMMA CoinsInv == ASSUME Coins, [Next]_vars PROVE Coins'
  <1>1. CASE UNCHANGED vars
    <2>1. UNCHANGED coins /\ list' = list
      BY <1>1 DEF vars, coins
    <2> QED
      BY <2>1, CoinsKept DEF Coins, coins
  <1>2. CASE \E p \in Looters : LootMoney(p)
    BY <1>2, CoinsPaid
  <1>3. CASE Disappear
    BY <1>3, CoinsGone
  <1>4. ASSUME NEW p \in Looters, NEW i, NEW s, Answered(i, s) PROVE UNCHANGED coins
    BY <1>4, Zenon DEF Answered
  <1>5. ASSUME There, UNCHANGED coins PROVE Coins'
    BY <1>5, CoinsKept
  <1>6. ASSUME NEW p \in Looters, NEW x, Move(p, x) PROVE Coins'
    BY <1>5, <1>6, Zenon DEF Move
  <1>7. ASSUME NEW p \in Looters, OnOpen(p) \/ OnFinishLoot(p) PROVE Coins'
    BY <1>5, <1>7, Zenon DEF OnOpen, OnFinishLoot
  <1>8. ASSUME NEW p \in Looters, NEW i, LootItem(p, i) PROVE Coins'
    BY <1>5, <1>8, Zenon DEF LootItem
  <1>9. ASSUME NEW p \in Looters, NEW i, CancelRollItem(p, i) PROVE Coins'
    BY <1>4, <1>5, <1>9, Zenon DEF CancelRollItem
  <1>10. ASSUME NEW p \in Looters, NEW i, NEW n, RollItem(p, i, n) PROVE Coins'
    BY <1>4, <1>5, <1>10, Zenon DEF RollItem
  <1>11. ASSUME NEW p \in Looters, NEW q, NEW i, DistributeItem(p, q, i) PROVE Coins'
    BY <1>5, <1>11, Zenon DEF DistributeItem
  <1>12. CASE ActivateNear \/ ActivateAlone \/ Sleep
    BY <1>5, <1>12, Zenon DEF ActivateNear, ActivateAlone, Activate, Sleep
  <1> QED
    BY <1>1, <1>2, <1>3, <1>6, <1>7, <1>8, <1>9, <1>10, <1>11, <1>12, Zenon DEF Next

\* Whoever opens, shares and takes the money while others log out and come back, it
\* is paid once and to the last coin: the shares of those registered add up to it.
THEOREM MoneyPaidOnce == Spec => []MoneyShared
  BY CoinsInit, CoinsInv, CoinsShared, PTL DEF Spec

=============================================================================
