--------------------------------- MODULE Loot ---------------------------------
(***************************************************************************)
(* The loot list of one corpse: what it holds is opened, rolled for,       *)
(* distributed, taken and at last free for the team, while its looters     *)
(* walk off, lose their connection and come back.  The region around a     *)
(* player is active, and KDoodad::Activate calls the list every three      *)
(* seconds there; roll time and protection are counted in such periods.    *)
(*                                                                         *)
(* Clients are external; they open, take and roll for what they are shown, *)
(* and the list is shown to its looters only.  Whether a bag takes an item *)
(* (CanAddItem) and who of a team may distribute can change at any time.   *)
(* Purses are far from their limit.                                        *)
(***************************************************************************)
EXTENDS Integers, Sequences, FiniteSets, SequencesExt, FiniteSetsExt

CONSTANTS
    LooterList,     \* m_LooterList: the looters in their order
    Items, Money,   \* what the NPC drops
    Good,           \* the items of the team's nRollQuality or better
    Points,         \* the highest roll (ROLL_ITEM_NUMBER)
    RollTime,       \* MAX_ROLL_FRAME, in periods of three seconds
    OverLootTime    \* the template's m_nOverLootFrame, likewise

Looters == ToSet(LooterList)

ASSUME LootAssumption ==
    /\ LooterList \in Seq(Looters) \ {<<>>} /\ IsInjective(LooterList) /\ "list" \notin Looters
    /\ IsFiniteSet(Items) /\ Good \subseteq Items /\ Money \in Nat
    /\ Points \in Nat \ {0} /\ RollTime \in Nat \ {0} /\ OverLootTime \in Nat

VARIABLES
    place,      \* where each looter is; "switching": its KPlayer is not in gsPlaying
    offline,    \* m_OfflineFlag
    asked,      \* clients that show the roll dialogs
    slot,       \* m_ItemList
    opened,     \* m_bIsOpened
    rollLeft,   \* until m_nEndRollFrame; NotSet when that is 0
    overLeft,   \* until m_nOverLootFrame, likewise
    looted,     \* m_nLootedCount
    money,      \* m_nMoney
    gained,     \* the coins each looter got
    list        \* "there", "over" (LootOver) or "vanished" (the corpse's time is up)

world  == <<place, offline, asked>>
timers == <<opened, rollLeft, overLeft>>
coins  == <<money, gained>>
vars   == <<place, offline, asked, slot, opened, rollLeft, overLeft, looted, money, gained, list>>

NotSet  == -1
NoPoint == -1   \* has not answered: its bRollFlag is false
Passed  == 0    \* CancelRollItem

Types == {"litOwnerLoot", "litOverTimeLooterFree", "litLooterFree", "litNeedRoll", "litNeedDistribute"}

\* One KLootItem; "at" names the looter that got it.
Drop(type, owners) ==
    [at |-> "list", type |-> type, byRollCount |-> 0, owners |-> owners, nMaxRollPoint |-> 0,
     points |-> [p \in Looters |-> NoPoint]]

\* A quest item, or what ProcessNpcDropItems makes of another one.
Drops(i, mode) ==
    {Drop("litOwnerLoot", o) : o \in SUBSET Looters \ {{}}} \cup
    CASE mode = "ilmFreeForAll" -> {Drop("litLooterFree", {})}
      [] i \notin Good           -> {Drop("litOverTimeLooterFree", {p}) : p \in Looters}
      [] mode = "ilmDistribute" -> {Drop("litNeedDistribute", {})}
      [] mode = "ilmGroupLoot"  -> {Drop("litNeedRoll", {})}

Init ==
    /\ place = [p \in Looters |-> "near"]
    /\ offline = {} /\ asked = {}
    /\ \E mode \in {"ilmFreeForAll", "ilmDistribute", "ilmGroupLoot"} :
        \E drops \in [Items -> UNION {Drops(i, mode) : i \in Items}] :
            (\A i \in Items : drops[i] \in Drops(i, mode)) /\ slot = drops
    /\ opened = FALSE /\ rollLeft = NotSet /\ overLeft = OverLootTime
    /\ looted = 0 /\ money = Money
    /\ gained = [p \in Looters |-> 0]
    /\ list = "there"

-----------------------------------------------------------------------------

There == list = "there"
InList(i)  == slot[i].at = "list"
Playing(p) == place[p] \in {"near", "far"}

\* GetObj finds the player.
Registered(p) == place[p] # "offline"

IsEmpty(n, m) == n = Cardinality(Items) /\ m = 0

\* KDoodad::Close, which ends every answer to a client.
Close == list' = IF IsEmpty(looted', money') THEN "over" ELSE list

\* A looter that goes offline loses its dialogs.
Move(p, x) ==
    /\ There
    /\ x \in CASE place[p] = "near" -> {"far", "switching"}
               [] place[p] = "far" -> {"near", "switching"}
               [] place[p] = "switching" -> {"near", "far", "offline"}
               [] place[p] = "offline" -> {"switching"}
    /\ place' = [place EXCEPT ![p] = x]
    /\ asked' = IF x = "offline" THEN asked \ {p} ELSE asked
    /\ UNCHANGED <<offline, slot, timers, looted, coins, list>>

Rolled(i) == InList(i) /\ slot[i].type = "litNeedRoll"

\* Mutant: the protection time that ends before the roll is not set anew.
OpensOnly(p) ==
    /\ There /\ place[p] = "near" /\ ~opened
    /\ \E near \in SUBSET {q \in Looters : place[q] = "switching"} :
        LET rollers == {q \in Looters : place[q] = "near"} \cup near IN
        /\ slot' = [i \in Items |->
              IF Rolled(i) THEN [slot[i] EXCEPT !.byRollCount = Cardinality(rollers)] ELSE slot[i]]
        /\ IF \E i \in Items : Rolled(i)
           THEN asked' = asked \cup rollers /\ rollLeft' = RollTime /\ UNCHANGED overLeft
           ELSE UNCHANGED <<asked, rollLeft, overLeft>>
    /\ opened' = TRUE
    /\ UNCHANGED <<place, offline, looted, coins, list>>

\* The first to open the corpse starts the rolls; those in range are asked.
OnOpen(p) ==
    /\ There /\ place[p] = "near" /\ ~opened
    /\ \E near \in SUBSET {q \in Looters : place[q] = "switching"} :
        LET rollers == {q \in Looters : place[q] = "near"} \cup near IN
        /\ slot' = [i \in Items |->
              IF Rolled(i) THEN [slot[i] EXCEPT !.byRollCount = Cardinality(rollers)] ELSE slot[i]]
        /\ IF \E i \in Items : Rolled(i)
           THEN /\ asked' = asked \cup rollers
                /\ rollLeft' = RollTime
                /\ overLeft' = IF overLeft < RollTime THEN OverLootTime ELSE overLeft
           ELSE UNCHANGED <<asked, rollLeft, overLeft>>
    /\ opened' = TRUE
    /\ UNCHANGED <<place, offline, looted, coins, list>>

CanLoot(i, p) ==
    CASE slot[i].type \in {"litOwnerLoot", "litOverTimeLooterFree"} -> p \in slot[i].owners
      [] slot[i].type = "litLooterFree" -> TRUE
      [] slot[i].type = "litNeedRoll" -> /\ slot[i].byRollCount = 0
                                         /\ slot[i].owners \in {{}, {p}}
      [] slot[i].type = "litNeedDistribute" -> FALSE

LootItem(p, i) ==
    /\ There /\ place[p] = "near" /\ opened
    /\ InList(i) /\ CanLoot(i, p)
    /\ slot' = [slot EXCEPT ![i].at = p]
    /\ looted' = looted + 1
    /\ UNCHANGED <<world, timers, coins>>
    /\ Close

CanRoll(i, p) == opened /\ Rolled(i) /\ slot[i].points[p] = NoPoint

\* BYTE arithmetic.
Fewer(n) == (n - 1) % 256

\* Mutant: an item kept for its winner can still be rolled for.
EndRollLeavesType(i, s) ==
    \/ \E winner \in s.owners :
        /\ Playing(winner)
        /\ slot' = [slot EXCEPT ![i] = [s EXCEPT !.at = winner]]
        /\ looted' = looted + 1
    \/ /\ slot' = [slot EXCEPT ![i] = s]
       /\ UNCHANGED looted

\* EndRollItem when s is the item's slot by now: it goes to the winner, or waits for it.
EndRollItem(i, s) ==
    \/ \E winner \in s.owners :
        /\ Playing(winner)
        /\ slot' = [slot EXCEPT ![i] = [s EXCEPT !.at = winner]]
        /\ looted' = looted + 1
    \/ /\ slot' = [slot EXCEPT ![i] = [s EXCEPT !.type = "litOverTimeLooterFree"]]
       /\ UNCHANGED looted

\* The end of RollItem and CancelRollItem.
Answered(i, s) ==
    /\ IF s.byRollCount = 0
       THEN EndRollItem(i, s)
       ELSE slot' = [slot EXCEPT ![i] = s] /\ UNCHANGED looted
    /\ UNCHANGED <<world, timers, coins>>
    /\ Close

\* Mutant: a higher roll adds an owner.
RollAddsOwner(p, i, n) ==
    /\ There /\ Playing(p) /\ p \in asked /\ CanRoll(i, p)
    /\ \E owners \in {slot[i].owners, slot[i].owners \cup {p}} :
        /\ n > slot[i].nMaxRollPoint => owners = slot[i].owners \cup {p}
        /\ n < slot[i].nMaxRollPoint => owners = slot[i].owners
        /\ Answered(i, [slot[i] EXCEPT !.owners = owners,
                            !.nMaxRollPoint = IF n > @ THEN n ELSE @,
                            !.points[p] = n, !.byRollCount = Fewer(@)])

\* A tie is decided by the dice, too.  From anywhere, not just in range.
RollItem(p, i, n) ==
    /\ There /\ Playing(p) /\ p \in asked /\ CanRoll(i, p)
    /\ \E owners \in {slot[i].owners, {p}} :
        /\ n > slot[i].nMaxRollPoint => owners = {p}
        /\ n < slot[i].nMaxRollPoint => owners = slot[i].owners
        /\ Answered(i, [slot[i] EXCEPT !.owners = owners,
                            !.nMaxRollPoint = IF n > @ THEN n ELSE @,
                            !.points[p] = n, !.byRollCount = Fewer(@)])

CancelRollItem(p, i) ==
    /\ There /\ Playing(p) /\ p \in asked /\ CanRoll(i, p)
    /\ Answered(i, [slot[i] EXCEPT !.points[p] = Passed, !.byRollCount = Fewer(@)])

\* Mutant: looters that are offline are counted but not paid.
SharesWithAll(p) ==
    LET share(k) == money \div Len(LooterList) + IF k <= money % Len(LooterList) THEN 1 ELSE 0
        Pos(q)   == CHOOSE k \in DOMAIN LooterList : LooterList[k] = q
    IN
    /\ There /\ place[p] = "near" /\ money > 0
    /\ gained' = [q \in Looters |-> IF Registered(q) THEN gained[q] + share(Pos(q)) ELSE gained[q]]
    /\ money' = 0
    /\ UNCHANGED <<world, slot, timers, looted>>
    /\ Close

\* A member without a team any more takes it all; a team shares it among the
\* looters that are registered, the first ones getting what is left over.
LootMoney(p) ==
    LET online  == {k \in DOMAIN LooterList : Registered(LooterList[k])}
        share(k) == money \div Cardinality(online) +
                    IF Cardinality({j \in online : j <= k}) <= money % Cardinality(online) THEN 1 ELSE 0
        Pos(q)   == CHOOSE k \in DOMAIN LooterList : LooterList[k] = q
    IN
    /\ There /\ place[p] = "near" /\ money > 0
    /\ \/ gained' = [gained EXCEPT ![p] = @ + money]
       \/ gained' = [q \in Looters |-> IF Registered(q) THEN gained[q] + share(Pos(q)) ELSE gained[q]]
    /\ money' = 0
    /\ UNCHANGED <<world, slot, timers, looted>>
    /\ Close

\* Mutant: an item kept for its new owner counts as looted.
DistributedCountsAlways(p, q, i) ==
    /\ There /\ place[p] = "near" /\ Playing(q)
    /\ InList(i) /\ slot[i].type = "litNeedDistribute"
    /\ slot' \in {[slot EXCEPT ![i].at = q],
                  [slot EXCEPT ![i].owners = {q}, ![i].type = "litOwnerLoot"]}
    /\ looted' = looted + 1
    /\ UNCHANGED <<world, timers, coins>>
    /\ Close

\* The distributor gives i to q, or keeps it for q whose bag does not take it.
DistributeItem(p, q, i) ==
    /\ There /\ place[p] = "near" /\ Playing(q)
    /\ InList(i) /\ slot[i].type = "litNeedDistribute"
    /\ \/ /\ slot' = [slot EXCEPT ![i].at = q]
          /\ looted' = looted + 1
       \/ /\ slot' = [slot EXCEPT ![i].owners = {q}, ![i].type = "litOwnerLoot"]
          /\ UNCHANGED looted
    /\ UNCHANGED <<world, timers, coins>>
    /\ Close

OnFinishLoot(p) ==
    /\ There /\ Playing(p)
    /\ UNCHANGED <<world, slot, timers, looted, coins>>
    /\ Close

\* KDoodad::Remove: the list is deleted.  The looters are of no interest any more.
Disappear ==
    /\ There
    /\ list' = "vanished"
    /\ place' = [p \in Looters |-> "far"] /\ offline' = {} /\ asked' = {}
    /\ slot' = [i \in Items |-> Drop("litOwnerLoot", {})]
    /\ opened' = FALSE /\ rollLeft' = NotSet /\ overLeft' = NotSet
    /\ looted' = 0 /\ money' = 0 /\ gained' = [p \in Looters |-> 0]

-----------------------------------------------------------------------------
(* Time passes.                                                            *)

Later(t) == IF t > 0 THEN t - 1 ELSE t

\* Looters found offline are asked again when they are back.  After the roll
\* the flags are not looked at any more, and the clients' dialogs are closed.
ProcessRollerOffline(left) ==
    IF opened /\ left > 0
    THEN LET back == {p \in offline : Playing(p)} IN
         /\ offline' = (offline \ back) \cup {p \in Looters : ~Registered(p)}
         /\ asked' = asked \cup back
    ELSE offline' = {} /\ asked' = {}

\* Where a slot is left when its roll is over; the bags of full take no item.
RollOver(s, full) ==
    IF s.owners = {}
    THEN [s EXCEPT !.byRollCount = 0, !.type = "litLooterFree"]
    ELSE LET winner == CHOOSE p \in s.owners : TRUE IN
         IF Playing(winner) /\ winner \notin full
         THEN [s EXCEPT !.at = winner]
         ELSE [s EXCEPT !.byRollCount = 0, !.type = "litOverTimeLooterFree"]

ProcessOverRollTime(full) ==
    [i \in Items |-> IF Rolled(i) THEN RollOver(slot[i], full) ELSE slot[i]]

ProcessOverLootTime(slots) ==
    [i \in Items |->
        IF slots[i].at = "list" /\ slots[i].type \in {"litOverTimeLooterFree", "litNeedDistribute"}
        THEN [slots[i] EXCEPT !.owners = {}, !.type = "litLooterFree"]
        ELSE slots[i]]

\* The list is called; what the rolls leave behind is for the protection time.
Activate ==
    LET left   == Later(rollLeft)
        over   == Later(overLeft)
        ends   == opened /\ left = 0
        slots(full) == IF ends THEN ProcessOverRollTime(full) ELSE slot
    IN
    /\ There
    /\ ProcessRollerOffline(left)
    /\ \E full \in SUBSET Looters :
        slot' = IF over = 0 THEN ProcessOverLootTime(slots(full)) ELSE slots(full)
    /\ looted' = Cardinality({i \in Items : slot'[i].at # "list"})
    /\ rollLeft' = IF ends THEN NotSet ELSE left
    /\ overLeft' = IF over = 0 THEN NotSet ELSE over
    /\ UNCHANGED <<place, opened, coins, list>>

\* A looter keeps the regions around active.
ActivateNear == (\E p \in Looters : place[p] = "near") /\ Activate

\* Nobody is near: somebody else may keep the region active.
ActivateAlone == (\A p \in Looters : place[p] # "near") /\ Activate

\* An inactive region.
Sleep ==
    /\ There /\ \A p \in Looters : place[p] # "near"
    /\ rollLeft' = Later(rollLeft) /\ overLeft' = Later(overLeft)
    /\ UNCHANGED <<world, slot, opened, looted, coins, list>>

Next ==
    \/ \E p \in Looters :
        \/ \E x \in {"near", "far", "switching", "offline"} : Move(p, x)
        \/ OnOpen(p) \/ LootMoney(p) \/ OnFinishLoot(p)
        \/ \E i \in Items :
            \/ LootItem(p, i) \/ CancelRollItem(p, i)
            \/ \E n \in 1 .. Points : RollItem(p, i, n)
            \/ \E q \in Looters : DistributeItem(p, q, i)
    \/ Disappear \/ ActivateNear \/ ActivateAlone \/ Sleep

Spec == Init /\ [][Next]_vars

\* A region stays active for three seconds after a player was there, so that
\* the list is called once whenever somebody was near, however short.
FairSpec == Spec /\ SF_vars(ActivateNear)

-----------------------------------------------------------------------------

\* The roll counts never run below zero, whoever comes back and rolls.
TypeOK ==
    /\ place \in [Looters -> {"near", "far", "switching", "offline"}]
    /\ offline \subseteq Looters /\ asked \subseteq Looters
    /\ \A i \in Items :
        /\ slot[i].at \in Looters \cup {"list"} /\ slot[i].type \in Types
        /\ slot[i].byRollCount \in 0 .. Cardinality(Looters)
        /\ slot[i].owners \subseteq Looters
        /\ slot[i].nMaxRollPoint \in 0 .. Points
        /\ slot[i].points \in [Looters -> NoPoint .. Points]
    /\ opened \in BOOLEAN
    /\ rollLeft \in NotSet .. RollTime /\ overLeft \in NotSet .. OverLootTime
    /\ list \in {"there", "over", "vanished"}

\* A list is given up as empty exactly when a client's call leaves nothing in
\* it: no item and no coin is thrown away with it, and each item left it once.
NothingForgotten ==
    /\ looted = Cardinality({i \in Items : ~InList(i)})
    /\ list = "over" => money = 0 /\ \A i \in Items : ~InList(i)

\* The money is paid out once, to the last coin, however many are registered.
MoneyShared ==
    list # "vanished" => money + MapThenSumSet(LAMBDA p : gained[p], Looters) = Money

\* While an item is rolled for or kept for its winner, it goes to nobody but a
\* player who rolled as high as anyone, although winners leave and come back,
\* bags are full and the roll is ended by the last answer or by the clock.
WinnersItem == [][\A i \in Items, p \in Looters :
    /\ slot[i].at = "list" /\ slot'[i].at = p
    /\ slot[i].type \in {"litNeedRoll", "litOverTimeLooterFree"}
    /\ \E q \in Looters : slot'[i].points[q] > Passed
    => \A q \in Looters : slot'[i].points[q] <= slot'[i].points[p]]_vars

\* Nothing in an opened corpse stays locked: in the end it is gone, belongs to
\* its owner or is free for the team, as long as now and then somebody comes by.
NothingStuck ==
    (([]<>(\E p \in Looters : place[p] = "near"))
        => \A i \in Items : (opened /\ There /\ InList(i)) ~>
              (~There \/ ~InList(i) \/ slot[i].type \in {"litOwnerLoot", "litLooterFree"}))

=============================================================================
