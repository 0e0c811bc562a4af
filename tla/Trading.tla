------------------------------- MODULE Trading -------------------------------
(***************************************************************************)
(* Trading between two players of one server: the invitation, the two      *)
(* KTradingBoxes both sides fill while they go on using their bags, and    *)
(* the exchange that a second confirmation starts.  A confirmation names   *)
(* the key of the last change its client has been told of; the clients are *)
(* external and may lag behind the server by any number of changes.        *)
(*                                                                         *)
(* All items are of one stackable kind.  Relation, distance and existence  *)
(* limits are tests that may fail at any time.                             *)
(***************************************************************************)
EXTENDS Integers, Sequences, FiniteSets, SequencesExt

CONSTANTS
    Players, NoPlayer,  \* IDs of players, and ERROR_ID
    NSlots, NGrids,
    MoneyLimit,     \* m_nMoneyLimit of every player
    MaxStack,       \* items in one stack
    MaxMoves        \* bound: changes of the boxes, bags and purses during trades

ASSUME TradingAssumption ==
    /\ IsFiniteSet(Players) /\ NoPlayer \notin Players
    /\ NSlots \in Nat \ {0} /\ NGrids \in Nat /\ MoneyLimit \in Nat \ {0}
    /\ MaxStack \in Nat \ {0} /\ MaxMoves \in Nat

Slots   == 1 .. NSlots      \* places of the packages
Grids   == 1 .. NGrids      \* places of a trading box
Many    == Cardinality(Players)
Number  == CHOOSE n \in Bijection(Players, 1 .. Many) : TRUE
MaxID   == Many + MaxMoves
Ptrs    == 1 .. Many * NSlots + 1   \* where item objects lie

VARIABLES
    status,     \* of each player's KPlayer, as far as trading looks at it
    inviteSrc,  \* m_dwTradingInviteSrc
    inviteDst,  \* m_dwTradingInviteDst
    box,        \* m_pTradingBox
    view,       \* the key each client knows, and whether it shows the boxes as they are
    agreed,     \* what the player saw when its confirmation was accepted
    bag,        \* m_ItemList's packages
    purse,      \* m_ItemList.m_nMoney
    world,      \* items and money in nobody's hands
    nextID,     \* the next item ID
    moves       \* how many of the MaxMoves were made

social == <<status, inviteSrc, inviteDst>>
goods  == <<bag, purse, world, nextID, moves>>
vars   == <<status, inviteSrc, inviteDst, box, view, agreed, bag, purse, world, nextID, moves>>

\* An item object: its address, m_dwID and stack number.
Empty  == [ptr |-> 0, id |-> 0, num |-> 0]
NoGrid == [ptr |-> 0, id |-> 0, num |-> 0, slot |-> 0]
NoBox  == [other |-> NoPlayer, grid |-> [g \in Grids |-> NoGrid], money |-> 0,
           confirm |-> FALSE, key |-> 0]
NoDeal == [with |-> NoPlayer]
NoView == [key |-> 0, fresh |-> TRUE]

Init ==
    /\ status = [p \in Players |-> "absent"]
    /\ inviteSrc = [p \in Players |-> NoPlayer]
    /\ inviteDst = [p \in Players |-> NoPlayer]
    /\ box = [p \in Players |-> NoBox]
    /\ view = [p \in Players |-> NoView]
    /\ agreed = [p \in Players |-> NoDeal]
    /\ bag = [p \in Players |-> [s \in Slots |->
                IF s = 1 THEN [ptr |-> Number[p], id |-> Number[p], num |-> 1] ELSE Empty]]
    /\ purse = [p \in Players |-> 1]
    /\ world = [units |-> MaxMoves, money |-> MaxMoves]
    /\ nextID = Many + 1
    /\ moves = 0

-----------------------------------------------------------------------------
(* The packages of a KItemList.                                            *)

SlotOrder == [s \in Slots |-> s]

FreeSlots(b) == {s \in Slots : b[s] = Empty}

\* AddItemToPos at the place FindFreeRoomInPackage finds.
Placed(b, i) ==
    LET s == CHOOSE s \in FreeSlots(b) : \A t \in FreeSlots(b) : s <= t
    IN IF FreeSlots(b) = {} THEN b ELSE [b EXCEPT ![s] = i]

StackRoom(b) == FoldLeft(LAMBDA n, s : IF b[s] = Empty THEN n ELSE n + MaxStack - b[s].num,
                         0, SlotOrder)

\* PushItem: spread over the stacks there are.
PushedTo(a, s) ==
    LET room == IF a.bag[s] = Empty THEN 0 ELSE MaxStack - a.bag[s].num
        k    == IF room < a.left THEN room ELSE a.left
    IN IF k = 0 THEN a ELSE [bag |-> [a.bag EXCEPT ![s].num = @ + k], left |-> a.left - k]

\* AddItem: an item that fits on the stacks is pushed there and freed.
Added(b, i) ==
    IF StackRoom(b) >= i.num
    THEN FoldLeft(PushedTo, [bag |-> b, left |-> i.num], SlotOrder).bag
    ELSE Placed(b, i)

\* Where a new item object lies: the lowest free address, so that addresses are
\* used again as soon as they can be.
NewPtr ==
    LET used == {bag[p][s].ptr : p \in Players, s \in Slots}
    IN CHOOSE a \in Ptrs \ used : \A b \in Ptrs \ used : a <= b

\* AddMoney clamps to the limit and never fails.
MoneyAdded(m, n) == IF m + n > MoneyLimit THEN MoneyLimit ELSE m + n

-----------------------------------------------------------------------------
(* Players use their own things, and come and go.                          *)

\* "away": registered, but not both alive and in status gsPlaying.
Present(p) == status[p] # "absent"
Playing(p) == status[p] = "playing"
HasBox(p)  == box[p].other # NoPlayer

\* Bound: only what happens during a trade matters.
Move == moves < MaxMoves /\ moves' = moves + 1
Busy(p) == HasBox(p) /\ Move

SetBag(p, b) == bag' = [bag EXCEPT ![p] = b]

DestroyItem(p, s) ==
    /\ Busy(p) /\ bag[p][s] # Empty
    /\ SetBag(p, [bag[p] EXCEPT ![s] = Empty])
    /\ world' = [world EXCEPT !.units = @ + bag[p][s].num]
    /\ UNCHANGED <<social, box, view, agreed, purse, nextID>>

\* An item is generated and added.
GainItem(p) ==
    /\ Busy(p) /\ world.units > 0
    /\ FreeSlots(bag[p]) # {} \/ StackRoom(bag[p]) > 0
    /\ SetBag(p, Added(bag[p], [ptr |-> NewPtr, id |-> nextID, num |-> 1]))
    /\ nextID' = nextID + 1
    /\ world' = [world EXCEPT !.units = @ - 1]
    /\ UNCHANGED <<social, box, view, agreed, purse>>

\* ExchangeItem within the packages: n of a stack are moved, split off or stacked.
ExchangeItem(p, s, t, n) ==
    LET src == bag[p][s]
        dst == bag[p][t]
        fits == IF MaxStack - dst.num < n THEN MaxStack - dst.num ELSE n
        rest(k) == IF src.num = k THEN Empty ELSE [src EXCEPT !.num = @ - k]
    IN
    /\ Busy(p) /\ s # t /\ src # Empty /\ n \in 1 .. src.num
    /\ \/ /\ dst = Empty /\ n = src.num
          /\ SetBag(p, [bag[p] EXCEPT ![s] = Empty, ![t] = src])
          /\ UNCHANGED nextID
       \/ /\ dst = Empty /\ n < src.num
          /\ SetBag(p, [bag[p] EXCEPT ![s] = rest(n),
                                      ![t] = [ptr |-> NewPtr, id |-> nextID, num |-> n]])
          /\ nextID' = nextID + 1
       \/ /\ dst # Empty
          /\ SetBag(p, [bag[p] EXCEPT ![s] = rest(fits), ![t].num = @ + fits])
          /\ UNCHANGED nextID
    /\ UNCHANGED <<social, box, view, agreed, purse, world>>

\* A shop, a quest: one coin is spent or earned.
ChangeMoney(p) ==
    /\ Busy(p)
    /\ \/ /\ purse[p] > 0
          /\ purse' = [purse EXCEPT ![p] = @ - 1]
       \/ /\ world.money > 0
          /\ purse' = [purse EXCEPT ![p] = MoneyAdded(@, 1)]
    /\ world' = [world EXCEPT !.money = @ + purse[p] - purse'[p]]
    /\ UNCHANGED <<social, box, view, agreed, bag, nextID>>

Enter(p) ==
    /\ ~Present(p)
    /\ status' = [status EXCEPT ![p] = "playing"]
    /\ UNCHANGED <<inviteSrc, inviteDst, box, view, agreed, goods>>

\* A playing player changes the map, loses its client or dies, and may play again.
\* Death, which CheckDie finds, also forgets its invitations.
StatusChanges(p) ==
    /\ Present(p)
    /\ status' = [status EXCEPT ![p] = IF @ = "playing" THEN "away" ELSE "playing"]
    /\ \/ UNCHANGED <<inviteSrc, inviteDst>>
       \/ /\ Playing(p)
          /\ inviteSrc' = [inviteSrc EXCEPT ![p] = NoPlayer]
          /\ inviteDst' = [inviteDst EXCEPT ![p] = NoPlayer]
    /\ UNCHANGED <<box, view, agreed, goods>>

-----------------------------------------------------------------------------
(* Invitations.                                                            *)

OnTradingInviteRequest(p, q) ==
    /\ Playing(p) /\ ~HasBox(p)
    /\ Playing(q) /\ ~HasBox(q) /\ p # q
    /\ inviteSrc[q] = NoPlayer /\ inviteDst[q] = NoPlayer
    /\ inviteDst' = [inviteDst EXCEPT ![p] = q]
    /\ inviteSrc' = [inviteSrc EXCEPT ![q] = p]
    /\ UNCHANGED <<status, box, view, agreed, goods>>

\* The invitation is used up, whatever comes of it.  The boxes are taken away
\* again when the clients cannot be told of them.
OnTradingInviteRespond(q) ==
    LET p == inviteSrc[q]
        valid == inviteDst[p] = q
    IN
    /\ Present(q) /\ p # NoPlayer
    /\ inviteSrc' = [inviteSrc EXCEPT ![q] = NoPlayer]
    /\ \/ \* one of the two is not in status gsPlaying, and the inviter's side stays
          /\ ~Playing(p) \/ ~Playing(q)
          /\ UNCHANGED <<inviteDst, box, view>>
       \/ \* both are, dead perhaps: it is refused, or comes to nothing
          /\ Present(p)
          /\ inviteDst' = IF valid THEN [inviteDst EXCEPT ![p] = NoPlayer] ELSE inviteDst
          /\ UNCHANGED <<box, view>>
       \/ /\ Playing(p) /\ Playing(q) /\ valid /\ ~HasBox(p) /\ ~HasBox(q)
          /\ inviteDst' = [inviteDst EXCEPT ![p] = NoPlayer]
          /\ box' = [box EXCEPT ![p] = [NoBox EXCEPT !.other = q],
                                ![q] = [NoBox EXCEPT !.other = p]]
          /\ view' = [view EXCEPT ![p] = NoView, ![q] = NoView]
    /\ UNCHANGED <<status, agreed, goods>>

-----------------------------------------------------------------------------
(* The boxes are filled.                                                   *)

Other(p)     == box[p].other
Filled(p, g) == box[p].grid[g] # NoGrid

\* What p offers: as the item was when it was put into the box.
Offer(p) == [items |-> {[id |-> box[p].grid[g].id, num |-> box[p].grid[g].num] :
                            g \in {h \in Grids : Filled(p, h)}},
             money |-> box[p].money]

\* What p's user sees; an older state of the boxes is a deal nobody else sees.
Sight(p) == IF ~HasBox(p) THEN NoDeal
            ELSE IF ~view[p].fresh THEN [with |-> Other(p)]
            ELSE [with |-> Other(p), give |-> Offer(p), take |-> Offer(Other(p))]

\* The server tells both clients of every change, in order.
OnSync(p) ==
    /\ HasBox(p)
    /\ view' = [view EXCEPT ![p] = [key |-> box[p].key, fresh |-> TRUE]]
    /\ UNCHANGED <<social, box, agreed, goods>>

\* Mutant: only the confirmation of the one who changes its box is taken back.
OtherSideStaysConfirmed(p, b) ==
    /\ Move
    /\ box' = [box EXCEPT ![p] = [b EXCEPT !.key = b.key + 1, !.confirm = FALSE],
                          ![b.other] = [box[b.other] EXCEPT !.key = b.key + 1]]
    /\ agreed' = [agreed EXCEPT ![p] = NoDeal]
    /\ view' = [view EXCEPT ![p].fresh = FALSE, ![b.other].fresh = FALSE]

\* p's box becomes b: a new key for both sides, and neither has confirmed.
Changes(p, b) ==
    /\ Move
    /\ box' = [box EXCEPT ![p] = [b EXCEPT !.key = b.key + 1, !.confirm = FALSE],
                          ![b.other] = [box[b.other] EXCEPT !.key = b.key + 1, !.confirm = FALSE]]
    /\ agreed' = [agreed EXCEPT ![p] = NoDeal, ![b.other] = NoDeal]
    /\ view' = [view EXCEPT ![p].fresh = FALSE, ![b.other].fresh = FALSE]

\* What a grid held before is forgotten.
AddItem(p, g, s) ==
    LET i == bag[p][s] IN
    /\ HasBox(p) /\ Playing(p) /\ Playing(Other(p)) /\ i # Empty
    /\ \A h \in Grids : Filled(p, h) => box[p].grid[h].ptr # i.ptr /\ box[p].grid[h].slot # s
    /\ Changes(p, [box[p] EXCEPT !.grid[g] = [ptr |-> i.ptr, id |-> i.id, num |-> i.num, slot |-> s]])
    /\ UNCHANGED <<social, bag, purse, world, nextID>>

DelItem(p, g) ==
    /\ HasBox(p) /\ Filled(p, g)
    /\ Changes(p, [box[p] EXCEPT !.grid[g] = NoGrid])
    /\ UNCHANGED <<social, bag, purse, world, nextID>>

SetMoney(p, n) ==
    /\ HasBox(p) /\ Playing(p) /\ Playing(Other(p))
    /\ n <= purse[p]
    /\ Changes(p, [box[p] EXCEPT !.money = n])
    /\ UNCHANGED <<social, bag, purse, world, nextID>>

-----------------------------------------------------------------------------
(* Both confirm.                                                           *)

\* Both boxes and all invitations of both players are forgotten.
ClearTradingInfo(p, q) ==
    /\ box' = [box EXCEPT ![p] = NoBox, ![q] = NoBox]
    /\ view' = [view EXCEPT ![p] = NoView, ![q] = NoView]
    /\ agreed' = [agreed EXCEPT ![p] = NoDeal, ![q] = NoDeal]
    /\ inviteSrc' = [inviteSrc EXCEPT ![p] = NoPlayer, ![q] = NoPlayer]
    /\ inviteDst' = [inviteDst EXCEPT ![p] = NoPlayer, ![q] = NoPlayer]
    /\ UNCHANGED status

GridIsSound(p, g) ==
    LET d == box[p].grid[g]
        i == bag[p][d.slot]
    IN Filled(p, g) => i.ptr = d.ptr /\ i.id = d.id /\ i.num = d.num

\* Mutant: whether the receiver may have so much money is not asked.
MoneyIsThere(p) == box[p].money <= purse[p]

\* Mutant: whether the giver still has the money is not asked.
MoneyFits(p) == box[p].money > 0 => MoneyLimit - box[p].money >= purse[Other(p)]

MoneyIsSound(p) ==
    box[p].money > 0 => /\ box[p].money <= purse[p]
                        /\ MoneyLimit - box[p].money >= purse[Other(p)]

FinishTradingCheck(p, q) ==
    \A r \in {p, q} : MoneyIsSound(r) /\ \A g \in Grids : GridIsSound(r, g)

\* p's filled grids, the last one first.
GridOrder(p) ==
    LET filled == {g \in Grids : Filled(p, g)}
    IN CHOOSE o \in Bijection(1 .. Cardinality(filled), filled) :
            \A i, j \in DOMAIN o : i < j => o[i] > o[j]

\* The items p gives, and its packages without them.
Given(p) == LET grids == GridOrder(p)
            IN [k \in DOMAIN grids |-> bag[p][box[p].grid[grids[k]].slot]]

PickedUp(p) ==
    [s \in Slots |-> IF \E g \in Grids : Filled(p, g) /\ box[p].grid[g].slot = s
                     THEN Empty ELSE bag[p][s]]

\* Mutant: the items taken out of the bag of the other side are not put back.
OneSideRolledBack(p, q) ==
    bag' = [bag EXCEPT ![p] = FoldLeft(Added, PickedUp(p), Given(p)), ![q] = PickedUp(q)]

\* The items picked up go back to where they came from.
RolledBack(p, q) ==
    bag' = [bag EXCEPT ![p] = FoldLeft(Added, PickedUp(p), Given(p)),
                       ![q] = FoldLeft(Added, PickedUp(q), Given(q))]

\* p's money to q, then q's to p.
Paid(p, q) ==
    LET m == box[p].money
        n == box[q].money
    IN [purse EXCEPT ![p] = MoneyAdded(@ - m, n), ![q] = MoneyAdded(@, m) - n]

\* Also if the check fails, or an item cannot be put away, the boxes are gone.
FinishTrading(p, q) ==
    /\ ClearTradingInfo(p, q)
    /\ UNCHANGED <<world, nextID, moves>>
    /\ \/ UNCHANGED <<bag, purse>>
       \/ /\ FinishTradingCheck(p, q)
          /\ RolledBack(p, q)
          /\ UNCHANGED purse
       \/ /\ FinishTradingCheck(p, q)
          /\ Cardinality(FreeSlots(PickedUp(p))) >= Len(Given(q))
          /\ Cardinality(FreeSlots(PickedUp(q))) >= Len(Given(p))
          /\ bag' = [bag EXCEPT ![p] = FoldLeft(Placed, PickedUp(p), Given(q)),
                                ![q] = FoldLeft(Placed, PickedUp(q), Given(p))]
          /\ purse' = Paid(p, q)

\* KTradingBox::Confirm of p's box, whose client saw the deal d.
Confirm(p, d) ==
    IF box[Other(p)].confirm
    THEN FinishTrading(p, Other(p))
    ELSE /\ box' = [box EXCEPT ![p].confirm = TRUE]
         /\ agreed' = [agreed EXCEPT ![p] = d]
         /\ UNCHANGED <<social, view, goods>>

\* Mutant: a confirmation of an older state of the boxes counts, too.
ConfirmsAnyKey(p) ==
    /\ HasBox(p) /\ Playing(p) /\ Playing(Other(p))
    /\ ~box[p].confirm
    /\ Confirm(p, Sight(p))

\* A confirmation of an older state of the boxes is ignored.
OnTradingConfirm(p) ==
    /\ HasBox(p) /\ Playing(p) /\ Playing(Other(p))
    /\ view[p].key = box[Other(p)].key
    /\ ~box[p].confirm
    /\ Confirm(p, Sight(p))

\* Cancelled, or confirmed when the two must not trade (any more).
OnTradingCancel(p) ==
    /\ HasBox(p)
    /\ ClearTradingInfo(p, Other(p))
    /\ UNCHANGED goods

\* Mutant: the box of the one who stays is kept.
LeavesOtherBox(p) ==
    /\ Present(p) /\ HasBox(p)
    /\ status' = [status EXCEPT ![p] = "absent"]
    /\ box' = [box EXCEPT ![p] = NoBox]
    /\ view' = [view EXCEPT ![p] = NoView]
    /\ agreed' = [agreed EXCEPT ![p] = NoDeal]
    /\ inviteSrc' = [inviteSrc EXCEPT ![p] = NoPlayer]
    /\ inviteDst' = [inviteDst EXCEPT ![p] = NoPlayer]
    /\ UNCHANGED goods

\* KPlayer::UnInit: the invitations it names are taken back, whoever they are
\* from or for by now.
UnInit(p) ==
    LET gone == {p} \cup ({Other(p)} \ {NoPlayer}) IN
    /\ Present(p)
    /\ status' = [status EXCEPT ![p] = "absent"]
    /\ box' = [q \in Players |-> IF q \in gone THEN NoBox ELSE box[q]]
    /\ view' = [q \in Players |-> IF q \in gone THEN NoView ELSE view[q]]
    /\ agreed' = [q \in Players |-> IF q \in gone THEN NoDeal ELSE agreed[q]]
    /\ inviteSrc' = [q \in Players |-> IF q \in gone \cup {inviteDst[p]} THEN NoPlayer ELSE inviteSrc[q]]
    /\ inviteDst' = [q \in Players |-> IF q \in gone \cup {inviteSrc[p]} THEN NoPlayer ELSE inviteDst[q]]
    /\ UNCHANGED goods

Next == \E p \in Players :
    \/ \E s \in Slots : DestroyItem(p, s)
    \/ GainItem(p) \/ ChangeMoney(p)
    \/ \E s, t \in Slots, n \in 1 .. MaxStack : ExchangeItem(p, s, t, n)
    \/ Enter(p) \/ StatusChanges(p) \/ UnInit(p)
    \/ \E q \in Players : OnTradingInviteRequest(p, q)
    \/ OnTradingInviteRespond(p)
    \/ \E g \in Grids, s \in Slots : AddItem(p, g, s)
    \/ \E g \in Grids : DelItem(p, g)
    \/ \E n \in 0 .. MoneyLimit : SetMoney(p, n)
    \/ OnSync(p) \/ OnTradingConfirm(p) \/ OnTradingCancel(p)

Spec == Init /\ [][Next]_vars

-----------------------------------------------------------------------------

ItemRec == [ptr : Ptrs \cup {0}, id : 0 .. MaxID, num : 0 .. MaxStack]

TypeOK ==
    /\ status \in [Players -> {"absent", "playing", "away"}]
    /\ inviteSrc \in [Players -> Players \cup {NoPlayer}]
    /\ inviteDst \in [Players -> Players \cup {NoPlayer}]
    /\ \A p \in Players : /\ box[p].other \in Players \cup {NoPlayer}
                          /\ box[p].money \in 0 .. MoneyLimit
                          /\ box[p].key \in 0 .. MaxMoves /\ box[p].confirm \in BOOLEAN
                          /\ view[p].key \in 0 .. MaxMoves /\ view[p].fresh \in BOOLEAN
    /\ bag \in [Players -> [Slots -> ItemRec]]
    /\ purse \in [Players -> 0 .. MoneyLimit]

\* The two boxes of a trade stand and fall together, with the same key: each
\* names the other's owner, both owners are registered, and nobody who leaves
\* the server, dies or is invited elsewhere leaves half a trade behind.  The
\* handlers assert pOtherSide->m_pTradingBox->GetOtherSide() == pPlayer.
Paired == \A p \in Players : HasBox(p) =>
    /\ Present(p) /\ Present(Other(p)) /\ Other(p) # p
    /\ Other(Other(p)) = p
    /\ box[p].key = box[Other(p)].key
    /\ ~(box[p].confirm /\ box[Other(p)].confirm)

\* A confirmation that stands is for what lies in both boxes now: whoever gave
\* it has seen just that, however late its client is told of changes, and any
\* change of either box takes it back.
ConfirmedSeen == \A p \in Players : HasBox(p) /\ box[p].confirm =>
    agreed[p] = [with |-> Other(p), give |-> Offer(p), take |-> Offer(Other(p))]

\* Whether a trade succeeds, fails its check or is rolled back half-way, no item
\* object and no unit of an item is duplicated or lost, although items are
\* destroyed, split, stacked and generated at old addresses meanwhile.
ItemsConserved ==
    LET at     == [x \in Players \X Slots |-> bag[x[1]][x[2]]]
        places == {x \in DOMAIN at : at[x] # Empty}
        num    == [x \in places |-> at[x].num]
    IN /\ \A x, y \in places : at[x].ptr = at[y].ptr \/ at[x].id = at[y].id => x = y
       /\ MapThenSumSet(LAMBDA x : num[x], places) + world.units = Many + MaxMoves

\* So is no money, although a purse that would overflow is clamped to its limit.
MoneyConserved ==
    MapThenSumSet(LAMBDA p : purse[p], Players) + world.money = Many + MaxMoves

Holds(p) == {[id |-> bag[p][s].id, num |-> bag[p][s].num] : s \in {t \in Slots : bag[p][t] # Empty}}

Fair == INSTANCE FairExchange WITH
    holds <- [p \in Players |-> Holds(p)],
    sight <- [p \in Players |-> Sight(p)],
    deal  <- agreed

\* Trading is a fair exchange: things change hands only by what both sides saw
\* when they confirmed, however late the clients are told of changes and
\* whatever happens to the items between offer, confirmation and exchange.
FairExchangeSpec == Fair!Spec

=============================================================================
