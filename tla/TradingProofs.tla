---------------------------- MODULE TradingProofs ----------------------------
(* Trading: boxes stand and fall in pairs, and a confirmation is for what is *)
(* in them (Paired, ConfirmedSeen), for any number of players, items, grids. *)
EXTENDS Trading, SetInduction, TLAPS

Fields == {"other", "grid", "money", "confirm", "key"}

Shape ==
    /\ status \in [Players -> {"absent", "playing", "away"}]
    /\ DOMAIN box = Players /\ DOMAIN agreed = Players
    /\ view \in [Players -> [key : Nat, fresh : BOOLEAN]]
    /\ \A p \in Players : /\ DOMAIN box[p] = Fields
                          /\ box[p].other \in Players \cup {NoPlayer}
                          /\ box[p].key \in Nat /\ box[p].confirm \in BOOLEAN

\* A client knows the latest key if, and only if, it shows the boxes as they are.
KeyTells == \A p \in Players : HasBox(p) =>
    /\ view[p].key <= box[p].key
    /\ view[p].fresh <=> view[p].key = box[p].key

IInv == Shape /\ Paired /\ KeyTells /\ ConfirmedSeen

\* The deal in p's box and the one it faces.
Deal(p) == [with |-> Other(p), give |-> Offer(p), take |-> Offer(Other(p))]

Goods(b) == <<b.grid, b.money>>

LEMMA SameDeal ==
    ASSUME NEW q, box'[q].other = box[q].other, Goods(box'[q]) = Goods(box[q]),
           Goods(box'[Other(q)]) = Goods(box[Other(q)])
    PROVE  Deal(q)' = Deal(q)
  <1>1. box'[q].grid = box[q].grid /\ box'[q].money = box[q].money
    BY DEF Goods
  <1>2. Other(q)' = Other(q)
    BY DEF Other
  <1>3. box'[Other(q)].grid = box[Other(q)].grid /\ box'[Other(q)].money = box[Other(q)].money
    BY DEF Goods
  <1>4. Offer(q)' = Offer(q)
    BY <1>1 DEF Offer, Filled
  <1>5. Offer(Other(q))' = Offer(Other(q))
    BY <1>2, <1>3 DEF Offer, Filled
  <1> QED
    BY <1>2, <1>4, <1>5 DEF Deal

-----------------------------------------------------------------------------
(* The ways a step changes the boxes.                                       *)

LEMMA SameDeals ==
    ASSUME UNCHANGED box, NEW q
    PROVE  Deal(q)' = Deal(q)
  BY Zenon DEF Deal, Other, Offer, Filled

\* Players' own business, and invitations.
LEMMA SameBoxes ==
    ASSUME IInv, UNCHANGED <<box, view, agreed>>,
           status' \in [Players -> {"absent", "playing", "away"}],
           \A q \in Players : Present(q) => Present(q)'
    PROVE  IInv'
  <1>1. Shape'
    BY DEF IInv, Shape
  <1>2. Paired'
    BY DEF IInv, Shape, Paired, HasBox, Other
  <1>3. KeyTells'
    BY DEF IInv, KeyTells, HasBox
  <1>4. ConfirmedSeen'
    BY SameDeals, Zenon DEF IInv, ConfirmedSeen, HasBox, Deal
  <1> QED
    BY <1>1, <1>2, <1>3, <1>4 DEF IInv

\* Trades that end are forgotten on both sides.
LEMMA Ended ==
    ASSUME IInv, NEW gone \in SUBSET Players,
           \A q \in Players : HasBox(q) => (q \in gone <=> Other(q) \in gone),
           box' = [q \in Players |-> IF q \in gone THEN NoBox ELSE box[q]],
           view' = [q \in Players |-> IF q \in gone THEN NoView ELSE view[q]],
           agreed' = [q \in Players |-> IF q \in gone THEN NoDeal ELSE agreed[q]],
           status' \in [Players -> {"absent", "playing", "away"}],
           \A q \in Players \ gone : Present(q) => Present(q)'
    PROVE  IInv'
  <1>1. /\ DOMAIN NoBox = Fields /\ NoBox.other = NoPlayer
        /\ NoBox.key \in Nat /\ NoBox.confirm \in BOOLEAN
    BY DEF NoBox, Fields
  <1>2. Shape'
    <2>1. view' \in [Players -> [key : Nat, fresh : BOOLEAN]]
      BY DEF IInv, Shape, NoView
    <2> QED
      BY <1>1, <2>1 DEF IInv, Shape
  <1>3. ASSUME NEW q \in Players, HasBox(q)'
        PROVE  /\ q \notin gone /\ HasBox(q) /\ Other(q) \in Players /\ Other(q) \notin gone
               /\ box'[q] = box[q] /\ box'[Other(q)] = box[Other(q)]
               /\ view'[q] = view[q] /\ agreed'[q] = agreed[q]
    BY <1>1, <1>3 DEF HasBox, Other, IInv, Shape
  <1>4. Paired'
    BY <1>3 DEF IInv, Paired, HasBox, Other
  <1>5. KeyTells'
    BY <1>3 DEF IInv, KeyTells, HasBox
  <1>6. ConfirmedSeen'
    <2> SUFFICES ASSUME NEW q \in Players, HasBox(q)', box'[q].confirm
                 PROVE  agreed'[q] = Deal(q)'
      BY DEF ConfirmedSeen, Deal
    <2>1. Deal(q)' = Deal(q)
      BY <1>3, SameDeal
    <2> QED
      BY <1>3, <2>1 DEF IInv, ConfirmedSeen, Deal
  <1> QED
    BY <1>2, <1>4, <1>5, <1>6 DEF IInv

LEMMA ClearedInv ==
    ASSUME IInv, NEW p \in Players, HasBox(p), ClearTradingInfo(p, Other(p))
    PROVE  IInv'
  <1> DEFINE gone == {p, Other(p)}
  <1>1. gone \in SUBSET Players /\ Other(Other(p)) = p /\ HasBox(Other(p))
    BY TradingAssumption DEF IInv, Shape, Paired, HasBox, Other
  <1>2. \A q \in Players : HasBox(q) => (q \in gone <=> Other(q) \in gone)
    BY <1>1 DEF IInv, Paired
  <1>3. /\ box' = [q \in Players |-> IF q \in gone THEN NoBox ELSE box[q]]
        /\ view' = [q \in Players |-> IF q \in gone THEN NoView ELSE view[q]]
        /\ agreed' = [q \in Players |-> IF q \in gone THEN NoDeal ELSE agreed[q]]
        /\ status' = status
    BY DEF ClearTradingInfo, IInv, Shape
  <1>4. \A q \in Players : Present(q) => Present(q)'
    BY <1>3 DEF Present
  <1> HIDE DEF gone
  <1> QED
    BY <1>1, <1>2, <1>3, <1>4, Ended DEF IInv, Shape

\* A change of one box is a new key for both, and takes back both confirmations.
LEMMA ChangedInv ==
    ASSUME IInv, NEW p \in Players, HasBox(p), NEW b, Changes(p, b),
           DOMAIN b = Fields, b.other = Other(p), b.key = box[p].key,
           UNCHANGED status
    PROVE  IInv'
  <1> DEFINE o == Other(p)
  <1>1. o \in Players /\ o # p /\ Other(o) = p /\ box[o].key = box[p].key /\ HasBox(o)
    BY TradingAssumption DEF IInv, Shape, Paired, HasBox, Other
  <1>2. box[p].key \in Nat /\ view[p].key \in Nat /\ view[o].key \in Nat
    BY <1>1 DEF IInv, Shape
  <1>3. /\ DOMAIN box' = Players
        /\ DOMAIN box'[p] = Fields /\ DOMAIN box'[o] = Fields
        /\ box'[p].other = o /\ box'[o].other = p
        /\ box'[p].key = box[p].key + 1 /\ box'[o].key = box[p].key + 1
        /\ box'[p].confirm = FALSE /\ box'[o].confirm = FALSE
        /\ \A q \in Players \ {p, o} : box'[q] = box[q]
    BY <1>1 DEF Changes, IInv, Shape, Fields, Other
  <1>4. /\ view' \in [Players -> [key : Nat, fresh : BOOLEAN]]
        /\ view'[p].key = view[p].key /\ view'[o].key = view[o].key
        /\ view'[p].fresh = FALSE /\ view'[o].fresh = FALSE
        /\ \A q \in Players \ {p, o} : view'[q] = view[q]
    <2>1. view \in [Players -> [key : Nat, fresh : BOOLEAN]]
      BY DEF IInv, Shape
    <2>2. view' = [view EXCEPT ![p].fresh = FALSE, ![o].fresh = FALSE]
      BY DEF Changes
    <2> HIDE DEF o
    <2>3. view' \in [Players -> [key : Nat, fresh : BOOLEAN]]
      <3> DEFINE V == [key : Nat, fresh : BOOLEAN]
      <3>1. \A v \in V : [v EXCEPT !.fresh = FALSE] \in V
        OBVIOUS
      <3>2. view' = [view EXCEPT ![p] = [view[p] EXCEPT !.fresh = FALSE],
                                 ![o] = [view[o] EXCEPT !.fresh = FALSE]]
        BY <1>1, <2>1, <2>2
      <3> HIDE DEF V
      <3>3. [view[p] EXCEPT !.fresh = FALSE] \in V /\ [view[o] EXCEPT !.fresh = FALSE] \in V
        BY <1>1, <2>1, <3>1 DEF V
      <3> DEFINE x == [view[p] EXCEPT !.fresh = FALSE]
                 y == [view[o] EXCEPT !.fresh = FALSE]
      <3> HIDE DEF x, y
      <3>4. view' = [view EXCEPT ![p] = x, ![o] = y] /\ x \in V /\ y \in V /\ view \in [Players -> V]
        BY <2>1, <3>2, <3>3 DEF x, y, V
      <3>5. view' \in [Players -> V]
        BY <3>4
      <3> QED
        BY <3>5 DEF V
    <2>4. /\ view'[p].key = view[p].key /\ view'[o].key = view[o].key
          /\ view'[p].fresh = FALSE /\ view'[o].fresh = FALSE
      BY <1>1, <2>1, <2>2
    <2> QED
      BY <2>1, <2>2, <2>3, <2>4
  <1>5. DOMAIN agreed' = Players /\ \A q \in Players \ {p, o} : agreed'[q] = agreed[q]
    BY <1>1 DEF Changes, IInv, Shape
  <1>6. \A q \in Players \ {p, o} : HasBox(q) => Other(q) \in Players \ {p, o}
    BY <1>1 DEF IInv, Paired, Shape, HasBox, Other
  <1>7. Shape'
    <2>1. ASSUME NEW q \in Players
          PROVE  /\ DOMAIN box'[q] = Fields
                 /\ box'[q].other \in Players \cup {NoPlayer}
                 /\ box'[q].key \in Nat /\ box'[q].confirm \in BOOLEAN
      <3> box[p].key + 1 \in Nat
        BY <1>2
      <3> FALSE \in BOOLEAN
        OBVIOUS
      <3>1. CASE q = p
        BY <1>1, <1>3, <3>1, Zenon
      <3>2. CASE q = o
        BY <1>1, <1>3, <3>2, Zenon
      <3>3. CASE q \notin {p, o}
        BY <1>3, <3>3 DEF IInv, Shape
      <3> QED
        BY <3>1, <3>2, <3>3
    <2> QED
      BY <1>3, <1>4, <1>5, <2>1 DEF IInv, Shape
  <1>8. Paired'
    BY <1>1, <1>3, <1>6 DEF IInv, Paired, HasBox, Other, Present
  <1>9. KeyTells'
    <2> SUFFICES ASSUME NEW q \in Players, HasBox(q)'
                 PROVE  /\ view'[q].key <= box'[q].key
                        /\ view'[q].fresh <=> view'[q].key = box'[q].key
      BY DEF KeyTells
    <2>1. CASE q \in {p, o}
      <3>1. view[q].key <= box[p].key
        BY <1>1, <2>1 DEF IInv, KeyTells
      <3> QED
        BY <1>2, <1>3, <1>4, <2>1, <3>1
    <2>2. CASE q \notin {p, o}
      BY <1>3, <1>4, <2>2 DEF IInv, KeyTells, HasBox
    <2> QED
      BY <2>1, <2>2
  <1>10. ConfirmedSeen'
    <2> SUFFICES ASSUME NEW q \in Players, HasBox(q)', box'[q].confirm
                 PROVE  agreed'[q] = Deal(q)'
      BY DEF ConfirmedSeen, Deal
    <2>1. q \notin {p, o} /\ HasBox(q) /\ Other(q) \in Players \ {p, o}
      BY <1>3, <1>6 DEF HasBox
    <2>2. Deal(q)' = Deal(q)
      BY <1>3, <2>1, SameDeal DEF Other
    <2> QED
      BY <1>3, <1>5, <2>1, <2>2 DEF IInv, ConfirmedSeen, Deal
  <1> QED
    BY <1>7, <1>8, <1>9, <1>10 DEF IInv

-----------------------------------------------------------------------------
(* The actions that change boxes.                                           *)

\* Nobody invites itself.
Invites ==
    /\ inviteSrc \in [Players -> Players \cup {NoPlayer}]
    /\ inviteDst \in [Players -> Players \cup {NoPlayer}]
    /\ \A q \in Players : inviteSrc[q] # q

LEMMA OpenedInv ==
    ASSUME IInv, NEW p \in Players, NEW q \in Players, p # q,
           Playing(p), Playing(q), ~HasBox(p), ~HasBox(q),
           box' = [box EXCEPT ![p] = [NoBox EXCEPT !.other = q],
                              ![q] = [NoBox EXCEPT !.other = p]],
           view' = [view EXCEPT ![p] = NoView, ![q] = NoView],
           UNCHANGED <<status, agreed>>
    PROVE  IInv'
  <1>1. /\ DOMAIN box' = Players
        /\ DOMAIN box'[p] = Fields /\ DOMAIN box'[q] = Fields
        /\ box'[p].other = q /\ box'[q].other = p
        /\ box'[p].key = 0 /\ box'[q].key = 0
        /\ box'[p].confirm = FALSE /\ box'[q].confirm = FALSE
        /\ \A r \in Players \ {p, q} : box'[r] = box[r]
    BY DEF NoBox, Fields, IInv, Shape
  <1>2. /\ view' \in [Players -> [key : Nat, fresh : BOOLEAN]]
        /\ view'[p].key = 0 /\ view'[q].key = 0 /\ view'[p].fresh /\ view'[q].fresh
        /\ \A r \in Players \ {p, q} : view'[r] = view[r]
    BY DEF NoView, IInv, Shape
  <1>3. \A r \in Players \ {p, q} : HasBox(r) => Other(r) \in Players \ {p, q}
    BY TradingAssumption DEF IInv, Paired, Shape, HasBox, Other
  <1>4. Present(p) /\ Present(q) /\ p # NoPlayer /\ q # NoPlayer
    BY TradingAssumption DEF Present, Playing
  <1>5. Shape'
    <2>1. ASSUME NEW r \in Players
          PROVE  /\ DOMAIN box'[r] = Fields
                 /\ box'[r].other \in Players \cup {NoPlayer}
                 /\ box'[r].key \in Nat /\ box'[r].confirm \in BOOLEAN
      <3> 0 \in Nat /\ FALSE \in BOOLEAN
        OBVIOUS
      <3>1. CASE r = p
        BY <1>1, <3>1, Zenon
      <3>2. CASE r = q
        BY <1>1, <3>2, Zenon
      <3>3. CASE r \notin {p, q}
        BY <1>1, <3>3 DEF IInv, Shape
      <3> QED
        BY <3>1, <3>2, <3>3
    <2> QED
      BY <1>1, <1>2, <2>1 DEF IInv, Shape
  <1>6. Paired'
    BY <1>1, <1>3, <1>4 DEF IInv, Paired, HasBox, Other, Present
  <1>7. KeyTells'
    BY <1>1, <1>2 DEF IInv, KeyTells, HasBox
  <1>8. ConfirmedSeen'
    <2> SUFFICES ASSUME NEW r \in Players, HasBox(r)', box'[r].confirm
                 PROVE  agreed'[r] = Deal(r)'
      BY DEF ConfirmedSeen, Deal
    <2>1. r \notin {p, q} /\ HasBox(r) /\ Other(r) \in Players \ {p, q}
      BY <1>1, <1>3 DEF HasBox
    <2>2. Deal(r)' = Deal(r)
      BY <1>1, <2>1, SameDeal DEF Other
    <2> QED
      BY <1>1, <2>1, <2>2 DEF IInv, ConfirmedSeen, Deal
  <1> QED
    BY <1>5, <1>6, <1>7, <1>8 DEF IInv

LEMMA RespondInv ==
    ASSUME IInv, Invites, NEW q \in Players, OnTradingInviteRespond(q)
    PROVE  IInv'
  <1> DEFINE p == inviteSrc[q]
  <1>1. UNCHANGED <<status, agreed>>
    BY DEF OnTradingInviteRespond
  <1>2. CASE UNCHANGED <<box, view>>
    <2>1. \A r \in Players : Present(r) => Present(r)'
      BY <1>1 DEF Present
    <2> QED
      BY <1>1, <1>2, <2>1, SameBoxes DEF IInv, Shape
  <1>3. CASE /\ Playing(p) /\ Playing(q) /\ ~HasBox(p) /\ ~HasBox(q)
             /\ box' = [box EXCEPT ![p] = [NoBox EXCEPT !.other = q],
                                   ![q] = [NoBox EXCEPT !.other = p]]
             /\ view' = [view EXCEPT ![p] = NoView, ![q] = NoView]
    <2>1. p \in Players /\ p # q
      BY DEF OnTradingInviteRespond, Invites
    <2> QED
      BY <1>1, <1>3, <2>1, OpenedInv
  <1> QED
    BY <1>2, <1>3 DEF OnTradingInviteRespond

LEMMA SyncInv ==
    ASSUME IInv, NEW p \in Players, OnSync(p)
    PROVE  IInv'
  <1>1. UNCHANGED <<status, box, agreed>>
    BY DEF OnSync, social
  <1>2. /\ view' \in [Players -> [key : Nat, fresh : BOOLEAN]]
        /\ view'[p].key = box[p].key /\ view'[p].fresh
        /\ \A q \in Players \ {p} : view'[q] = view[q]
    BY DEF OnSync, IInv, Shape
  <1>3. Shape'
    BY <1>1, <1>2 DEF IInv, Shape
  <1>4. Paired'
    BY <1>1 DEF IInv, Paired, HasBox, Other, Present
  <1>5. KeyTells'
    <2> SUFFICES ASSUME NEW q \in Players, HasBox(q)
                 PROVE  /\ view'[q].key <= box[q].key
                        /\ view'[q].fresh <=> view'[q].key = box[q].key
      BY <1>1 DEF KeyTells, HasBox
    <2>1. CASE q = p
      BY <1>2, <2>1 DEF IInv, Shape
    <2>2. CASE q # p
      BY <1>2, <2>2 DEF IInv, KeyTells
    <2> QED
      BY <2>1, <2>2
  <1>6. ConfirmedSeen'
    BY <1>1, SameDeals, Zenon DEF IInv, ConfirmedSeen, HasBox, Deal
  <1> QED
    BY <1>3, <1>4, <1>5, <1>6 DEF IInv

\* The key of the confirmation shows that its client has seen the boxes as they are.
LEMMA ConfirmInv ==
    ASSUME IInv, NEW p \in Players, OnTradingConfirm(p)
    PROVE  IInv'
  <1>1. HasBox(p) /\ view[p].key = box[Other(p)].key
    BY DEF OnTradingConfirm
  <1>2. CASE box[Other(p)].confirm
    BY <1>1, <1>2, ClearedInv DEF OnTradingConfirm, Confirm, FinishTrading
  <1>3. CASE ~box[Other(p)].confirm
    <2>1. /\ box' = [box EXCEPT ![p].confirm = TRUE]
          /\ agreed' = [agreed EXCEPT ![p] = Sight(p)]
          /\ UNCHANGED <<status, view>>
      BY <1>3 DEF OnTradingConfirm, Confirm, social
    <2>2. Other(p) \in Players /\ Other(p) # p /\ Other(Other(p)) = p
      BY <1>1 DEF IInv, Shape, Paired, HasBox, Other
    <2>3. Sight(p) = Deal(p)
      BY <1>1, <2>2 DEF IInv, Paired, KeyTells, Sight, Deal
    <2>4. /\ DOMAIN box' = Players /\ box'[p].confirm = TRUE
          /\ \A q \in Players : /\ DOMAIN box'[q] = Fields
                                /\ box'[q].other = box[q].other /\ box'[q].key = box[q].key
                                /\ box'[q].grid = box[q].grid /\ box'[q].money = box[q].money
          /\ \A q \in Players \ {p} : box'[q] = box[q]
      BY <2>1 DEF IInv, Shape, Fields
    <2>5. Shape'
      BY <2>1, <2>4 DEF IInv, Shape
    <2>6. Paired'
      BY <1>3, <2>1, <2>2, <2>4 DEF IInv, Paired, HasBox, Other, Present
    <2>7. KeyTells'
      BY <2>1, <2>4 DEF IInv, KeyTells, HasBox
    <2>8. ConfirmedSeen'
      <3> SUFFICES ASSUME NEW q \in Players, HasBox(q)', box'[q].confirm
                   PROVE  agreed'[q] = Deal(q)'
        BY DEF ConfirmedSeen, Deal
      <3>1. HasBox(q) /\ Other(q) \in Players
        BY <2>4 DEF IInv, Shape, HasBox, Other
      <3>2. Deal(q)' = Deal(q)
        BY <2>4, <3>1, SameDeal DEF Goods
      <3>3. CASE q = p
        BY <2>1, <2>3, <3>2, <3>3 DEF IInv, Shape
      <3>4. CASE q # p
        BY <2>1, <2>4, <3>1, <3>2, <3>4 DEF IInv, Shape, ConfirmedSeen, Deal
      <3> QED
        BY <3>3, <3>4
    <2> QED
      BY <2>5, <2>6, <2>7, <2>8 DEF IInv
  <1> QED
    BY <1>2, <1>3

LEMMA UnInitInv ==
    ASSUME IInv, NEW p \in Players, UnInit(p)
    PROVE  IInv'
  <1> DEFINE gone == {p} \cup ({Other(p)} \ {NoPlayer})
  <1>1. gone \in SUBSET Players
    BY DEF IInv, Shape, Other
  <1>2. \A q \in Players : HasBox(q) => (q \in gone <=> Other(q) \in gone)
    BY TradingAssumption DEF IInv, Shape, Paired, HasBox, Other
  <1>3. /\ status' \in [Players -> {"absent", "playing", "away"}]
        /\ \A q \in Players \ gone : Present(q) => Present(q)'
    BY DEF UnInit, IInv, Shape, Present
  <1>4. /\ box' = [q \in Players |-> IF q \in gone THEN NoBox ELSE box[q]]
        /\ view' = [q \in Players |-> IF q \in gone THEN NoView ELSE view[q]]
        /\ agreed' = [q \in Players |-> IF q \in gone THEN NoDeal ELSE agreed[q]]
    BY DEF UnInit
  <1> HIDE DEF gone
  <1> QED
    BY <1>1, <1>2, <1>3, <1>4, Ended

-----------------------------------------------------------------------------
(* All steps.                                                               *)

\* What happens in one player's packages and purse alone.
Errand(p) ==
    \/ \E s \in Slots : DestroyItem(p, s)
    \/ GainItem(p) \/ ChangeMoney(p)
    \/ \E s, t \in Slots, n \in 1 .. MaxStack : ExchangeItem(p, s, t, n)

LEMMA ErrandsLeave ==
    ASSUME NEW p, Errand(p)
    PROVE  UNCHANGED <<social, box, view, agreed>>
  <1>1. ASSUME NEW s, DestroyItem(p, s)
        PROVE  UNCHANGED <<social, box, view, agreed>>
    BY <1>1, Zenon DEF DestroyItem
  <1>2. CASE GainItem(p)
    BY <1>2, Zenon DEF GainItem
  <1>3. CASE ChangeMoney(p)
    BY <1>3, Zenon DEF ChangeMoney
  <1>4. ASSUME NEW s, NEW t, NEW n, ExchangeItem(p, s, t, n)
        PROVE  UNCHANGED <<social, box, view, agreed>>
    BY <1>4, Zenon DEF ExchangeItem
  <1> QED
    BY <1>1, <1>2, <1>3, <1>4 DEF Errand

\* What one player does without touching a box.
OwnBusiness(p) ==
    \/ Errand(p) \/ Enter(p) \/ StatusChanges(p)
    \/ \E q \in Players : OnTradingInviteRequest(p, q)

LEMMA OwnBusinessInv ==
    ASSUME IInv, NEW p \in Players, OwnBusiness(p)
    PROVE  IInv'
  <1>1. CASE Errand(p)
    <2>1. UNCHANGED <<status, box, view, agreed>>
      BY <1>1, ErrandsLeave DEF social
    <2> QED
      BY <2>1, SameBoxes DEF IInv, Shape, Present
  <1>2. CASE Enter(p)
    <2>1. status' = [status EXCEPT ![p] = "playing"] /\ UNCHANGED <<box, view, agreed>>
      BY <1>2 DEF Enter
    <2>2. /\ status' \in [Players -> {"absent", "playing", "away"}]
          /\ \A q \in Players : Present(q) => Present(q)'
      BY <2>1 DEF IInv, Shape, Present
    <2> QED
      BY <2>1, <2>2, SameBoxes
  <1>3. CASE StatusChanges(p)
    <2>1. /\ Present(p) /\ UNCHANGED <<box, view, agreed>>
          /\ status' = [status EXCEPT ![p] = IF @ = "playing" THEN "away" ELSE "playing"]
      BY <1>3 DEF StatusChanges
    <2>2. /\ status' \in [Players -> {"absent", "playing", "away"}]
          /\ \A q \in Players : Present(q) => Present(q)'
      BY <2>1 DEF IInv, Shape, Present
    <2> QED
      BY <2>1, <2>2, SameBoxes
  <1>4. ASSUME NEW q \in Players, OnTradingInviteRequest(p, q)
        PROVE  IInv'
    <2>1. UNCHANGED <<status, box, view, agreed>>
      BY <1>4 DEF OnTradingInviteRequest
    <2> QED
      BY <2>1, SameBoxes DEF IInv, Shape, Present
  <1> QED
    BY <1>1, <1>2, <1>3, <1>4 DEF OwnBusiness

LEMMA BoxChangesInv ==
    ASSUME IInv, NEW p \in Players,
           \/ \E g \in Grids, s \in Slots : AddItem(p, g, s)
           \/ \E g \in Grids : DelItem(p, g)
           \/ \E n \in 0 .. MoneyLimit : SetMoney(p, n)
    PROVE  IInv'
  <1>1. HasBox(p) /\ UNCHANGED status
    BY DEF AddItem, DelItem, SetMoney, social
  <1>2. ASSUME NEW x
        PROVE  LET b == [box[p] EXCEPT !.grid = x]
                   c == [box[p] EXCEPT !.money = x]
               IN /\ DOMAIN b = Fields /\ b.other = Other(p) /\ b.key = box[p].key
                  /\ DOMAIN c = Fields /\ c.other = Other(p) /\ c.key = box[p].key
    BY DEF IInv, Shape, Fields, Other
  <1>3. \/ \E x : Changes(p, [box[p] EXCEPT !.grid = x])
        \/ \E x : Changes(p, [box[p] EXCEPT !.money = x])
    BY DEF AddItem, DelItem, SetMoney
  <1> QED
    BY <1>1, <1>2, <1>3, ChangedInv

LEMMA InvitesInv ==
    ASSUME IInv, Invites, [Next]_vars
    PROVE  Invites'
  <1>1. CASE UNCHANGED <<inviteSrc, inviteDst>>
    BY <1>1 DEF Invites
  <1>2. ASSUME NEW p \in Players, NEW q \in Players, OnTradingInviteRequest(p, q)
        PROVE  Invites'
    BY <1>2 DEF Invites, OnTradingInviteRequest
  <1>3. ASSUME NEW q \in Players, OnTradingInviteRespond(q)
        PROVE  Invites'
    BY <1>3, TradingAssumption DEF Invites, OnTradingInviteRespond
  <1>4. ASSUME NEW p \in Players, StatusChanges(p)
        PROVE  Invites'
    BY <1>4, TradingAssumption DEF Invites, StatusChanges
  <1>5. ASSUME NEW p \in Players, NEW q, ClearTradingInfo(p, q)
        PROVE  Invites'
    BY <1>5, TradingAssumption DEF Invites, ClearTradingInfo
  <1>6. ASSUME NEW p \in Players, UnInit(p)
        PROVE  Invites'
    BY <1>6, TradingAssumption DEF Invites, UnInit
  <1>7. ASSUME NEW p \in Players, OnTradingConfirm(p)
        PROVE  Invites'
    BY <1>1, <1>5, <1>7 DEF OnTradingConfirm, Confirm, FinishTrading, social
  <1>8. ASSUME NEW p \in Players, Errand(p) \/ Enter(p)
        PROVE  Invites'
    BY <1>1, <1>8, ErrandsLeave DEF Enter, social
  <1>9. ASSUME NEW p \in Players,
               \/ \E g \in Grids, s \in Slots : AddItem(p, g, s)
               \/ \E g \in Grids : DelItem(p, g)
               \/ \E n \in 0 .. MoneyLimit : SetMoney(p, n)
               \/ OnSync(p)
        PROVE  Invites'
    BY <1>1, <1>9 DEF AddItem, DelItem, SetMoney, OnSync, social
  <1>10. ASSUME NEW p \in Players, OnTradingCancel(p)
         PROVE  Invites'
    BY <1>5, <1>10 DEF OnTradingCancel
  <1>11. CASE UNCHANGED vars
    BY <1>1, <1>11 DEF vars
  <1> QED
    BY <1>2, <1>3, <1>4, <1>6, <1>7, <1>8, <1>9, <1>10, <1>11 DEF Next, Errand

THEOREM TradingInvariant == Spec => [](IInv /\ Invites)
  <1>1. Init => IInv /\ Invites
    <2> SUFFICES ASSUME Init PROVE IInv /\ Invites
      OBVIOUS
    <2>1. Shape
      BY DEF Init, Shape, NoBox, NoView, Fields
    <2>2. \A p \in Players : ~HasBox(p)
      BY DEF Init, NoBox, HasBox
    <2>3. Paired /\ KeyTells /\ ConfirmedSeen
      BY <2>2 DEF Paired, KeyTells, ConfirmedSeen
    <2>4. Invites
      BY TradingAssumption DEF Init, Invites
    <2> QED
      BY <2>1, <2>3, <2>4 DEF IInv
  <1>2. IInv /\ Invites /\ [Next]_vars => IInv' /\ Invites'
    <2> SUFFICES ASSUME IInv, Invites, [Next]_vars PROVE IInv'
      BY InvitesInv
    <2>1. CASE UNCHANGED vars
      <3>1. \A q \in Players : Present(q) => Present(q)'
        BY <2>1 DEF vars, Present
      <3> QED
        BY <2>1, <3>1, SameBoxes DEF vars, IInv, Shape
    <2>2. ASSUME NEW p \in Players, OnTradingCancel(p)
          PROVE  IInv'
      BY <2>2, ClearedInv DEF OnTradingCancel
    <2> QED
      BY <2>1, <2>2, OwnBusinessInv, BoxChangesInv, RespondInv, SyncInv, ConfirmInv, UnInitInv
      DEF Next, OwnBusiness, Errand
  <1> QED
    BY <1>1, <1>2, PTL DEF Spec

\* However many players trade, leave and die, no trade is ever half there.
THEOREM BoxesPaired == Spec => []Paired
  BY TradingInvariant, PTL DEF IInv

\* However late clients are told of changes, what a player has confirmed is what
\* is in both boxes.
THEOREM ConfirmedDeal == Spec => []ConfirmedSeen
  BY TradingInvariant, PTL DEF IInv

-----------------------------------------------------------------------------
(* The boxes hold promises of things that were there, of different places.   *)

Item    == [ptr : Ptrs, id : 1 .. MaxID, num : 1 .. MaxStack]
Things  == Item \cup {Empty}
Bags    == [Slots -> Things]
Promise == [ptr : Ptrs, id : 1 .. MaxID, num : 1 .. MaxStack, slot : Slots]

GoodBox(b) ==
    /\ b.grid \in [Grids -> Promise \cup {NoGrid}]
    /\ b.money \in 0 .. MoneyLimit
    /\ \A g, h \in Grids : /\ b.grid[g] # NoGrid /\ b.grid[h] # NoGrid
                           /\ b.grid[g].slot = b.grid[h].slot
                           => g = h

Boxes ==
    /\ moves \in 0 .. MaxMoves
    /\ \A p \in Players : GoodBox(box[p]) /\ box[p].key <= moves /\ view[p].key <= moves

LEMMA GoodBoxes ==
    /\ GoodBox(NoBox) /\ NoBox.key = 0 /\ NoView.key = 0
    /\ \A q : GoodBox([NoBox EXCEPT !.other = q]) /\ [NoBox EXCEPT !.other = q].key = 0
    /\ \A b, c : GoodBox(b) /\ b.grid = c.grid /\ b.money = c.money => GoodBox(c)
  <1>1. ASSUME NEW c, c.grid = [g \in Grids |-> NoGrid], c.money = 0
        PROVE  GoodBox(c)
    <2>1. 0 \in 0 .. MoneyLimit
      BY TradingAssumption
    <2>2. c.grid \in [Grids -> Promise \cup {NoGrid}] /\ \A g \in Grids : c.grid[g] = NoGrid
      BY <1>1
    <2> QED
      BY <1>1, <2>1, <2>2, Zenon DEF GoodBox
  <1>2. NoBox.grid = [g \in Grids |-> NoGrid] /\ NoBox.money = 0 /\ NoBox.key = 0
    BY DEF NoBox
  <1>3. ASSUME NEW q, NEW c, c = [NoBox EXCEPT !.other = q]
        PROVE  c.grid = [g \in Grids |-> NoGrid] /\ c.money = 0 /\ c.key = 0
    BY <1>3 DEF NoBox
  <1>4. NoView.key = 0
    BY DEF NoView
  <1>5. ASSUME NEW b, NEW c, GoodBox(b), b.grid = c.grid, b.money = c.money
        PROVE  GoodBox(c)
    BY <1>5 DEF GoodBox
  <1> QED
    BY <1>1, <1>2, <1>3, <1>4, <1>5, Zenon

\* Keys are counted with the moves.
LEMMA MoveCounts ==
    ASSUME moves \in 0 .. MaxMoves, Move
    PROVE  moves' = moves + 1 /\ moves' \in 0 .. MaxMoves
  BY TradingAssumption DEF Move

LEMMA BoxesKept ==
    ASSUME IInv, Boxes, UNCHANGED <<box, view>>, moves' = moves \/ Move
    PROVE  Boxes'
  <1>1. moves' \in 0 .. MaxMoves /\ moves \in Int /\ (moves' = moves \/ moves' = moves + 1)
    BY MoveCounts DEF Boxes
  <1>2. ASSUME NEW p \in Players
        PROVE  GoodBox(box'[p]) /\ box'[p].key <= moves' /\ view'[p].key <= moves'
    <2>1. GoodBox(box[p]) /\ box[p].key <= moves /\ view[p].key <= moves
      BY DEF Boxes
    <2>2. box[p].key \in Int /\ view[p].key \in Int
      BY DEF IInv, Shape
    <2> QED
      BY <1>1, <2>1, <2>2
  <1> QED
    BY <1>1, <1>2 DEF Boxes

\* Boxes are opened or forgotten.
LEMMA BoxesReset ==
    ASSUME IInv, Boxes, UNCHANGED moves,
           \A q \in Players : box'[q] = box[q] \/ (GoodBox(box'[q]) /\ box'[q].key = 0),
           \A q \in Players : view'[q] = view[q] \/ view'[q].key = 0
    PROVE  Boxes'
  <1>1. ASSUME NEW q \in Players
        PROVE  GoodBox(box'[q]) /\ box'[q].key <= moves /\ view'[q].key <= moves
    <2>1. GoodBox(box[q]) /\ box[q].key <= moves /\ view[q].key <= moves /\ 0 <= moves
      BY DEF Boxes
    <2> QED
      BY <2>1
  <1> QED
    BY <1>1 DEF Boxes

LEMMA BoxesChanged ==
    ASSUME IInv, Boxes, NEW p \in Players, HasBox(p), NEW b, Changes(p, b), GoodBox(b),
           DOMAIN b = Fields, b.other = Other(p), b.key = box[p].key
    PROVE  Boxes'
  <1> DEFINE o == Other(p)
  <1>1. o \in Players /\ o # p /\ Other(o) = p /\ box[o].key = box[p].key
    BY TradingAssumption DEF IInv, Shape, Paired, HasBox, Other
  <1>2. /\ box'[p].grid = b.grid /\ box'[o].grid = box[o].grid
        /\ box'[p].money = b.money /\ box'[o].money = box[o].money
        /\ box'[p].key = box[p].key + 1 /\ box'[o].key = box[p].key + 1
        /\ \A q \in Players \ {p, o} : box'[q] = box[q]
    BY <1>1 DEF Changes, IInv, Shape, Fields, Other
  <1>3. \A q \in Players : view'[q].key = view[q].key
    <2>1. view \in [Players -> [key : Nat, fresh : BOOLEAN]]
      BY DEF IInv, Shape
    <2>2. view' = [view EXCEPT ![p].fresh = FALSE, ![o].fresh = FALSE]
      BY DEF Changes
    <2> HIDE DEF o
    <2> QED
      BY <1>1, <2>1, <2>2
  <1>4. moves \in Int /\ moves' = moves + 1 /\ moves' \in 0 .. MaxMoves
    BY MoveCounts DEF Changes, Boxes
  <1>5. ASSUME NEW q \in Players
        PROVE  GoodBox(box'[q]) /\ box'[q].key <= moves' /\ view'[q].key <= moves'
    <2>1. /\ GoodBox(box[q]) /\ box[q].key <= moves /\ view[q].key <= moves /\ box[p].key <= moves
          /\ box[q].key \in Int /\ view[q].key \in Int /\ box[p].key \in Int
      BY DEF Boxes, IInv, Shape
    <2>2. GoodBox(box'[q])
      BY <1>2, <2>1, GoodBoxes
    <2>3. box'[q].key = box[p].key + 1 \/ box'[q].key = box[q].key
      BY <1>2
    <2> QED
      BY <1>3, <1>4, <2>1, <2>2, <2>3
  <1> QED
    BY <1>4, <1>5 DEF Boxes

LEMMA PromisesInv ==
    ASSUME IInv, Boxes, bag \in [Players -> Bags], NEW p \in Players,
           \/ \E g \in Grids, s \in Slots : AddItem(p, g, s)
           \/ \E g \in Grids : DelItem(p, g)
           \/ \E n \in 0 .. MoneyLimit : SetMoney(p, n)
    PROVE  Boxes'
  <1> DEFINE b == box[p]
  <1>1. DOMAIN b = Fields /\ b.other = Other(p) /\ b.key = box[p].key /\ GoodBox(b)
    BY DEF IInv, Shape, Other, Boxes
  <1>2. ASSUME NEW x
        PROVE  /\ LET c == [b EXCEPT !.grid = x]
                  IN /\ DOMAIN c = Fields /\ c.other = Other(p) /\ c.key = box[p].key
                     /\ c.grid = x /\ c.money = b.money
               /\ LET c == [b EXCEPT !.money = x]
                  IN /\ DOMAIN c = Fields /\ c.other = Other(p) /\ c.key = box[p].key
                     /\ c.grid = b.grid /\ c.money = x
    BY <1>1 DEF Fields, Other
  <1>3. ASSUME NEW g \in Grids, NEW s \in Slots, AddItem(p, g, s)
        PROVE  Boxes'
    <2> DEFINE i == bag[p][s]
               d == [ptr |-> i.ptr, id |-> i.id, num |-> i.num, slot |-> s]
               x == [b.grid EXCEPT ![g] = d]
               c == [b EXCEPT !.grid = x]
    <2>1. /\ HasBox(p) /\ Changes(p, c) /\ i # Empty
          /\ \A h \in Grids : b.grid[h] # NoGrid => b.grid[h].slot # s
      BY <1>3, Zenon DEF AddItem, Filled
    <2>2. i \in Item
      BY <2>1 DEF Bags, Things
    <2>3. d \in Promise /\ d.slot = s
      BY <2>2 DEF Item, Promise
    <2> HIDE DEF d
    <2>4. /\ x \in [Grids -> Promise \cup {NoGrid}] /\ x[g] = d
          /\ \A h \in Grids \ {g} : x[h] = b.grid[h]
      BY <1>1, <2>3 DEF GoodBox
    <2>5. DOMAIN c = Fields /\ c.other = Other(p) /\ c.key = box[p].key /\ c.grid = x /\ c.money = b.money
      BY <1>2, Zenon
    <2> HIDE DEF c, x
    <2>6. \A h, k \in Grids : x[h] # NoGrid /\ x[k] # NoGrid /\ x[h].slot = x[k].slot => h = k
      <3> HIDE DEF b
      <3> QED
        BY <1>1, <2>1, <2>3, <2>4 DEF GoodBox
    <2>7. GoodBox(c)
      BY <1>1, <2>4, <2>5, <2>6 DEF GoodBox
    <2> QED
      BY <2>1, <2>5, <2>7, BoxesChanged
  <1>4. ASSUME NEW g \in Grids, DelItem(p, g)
        PROVE  Boxes'
    <2> DEFINE x == [b.grid EXCEPT ![g] = NoGrid]
               c == [b EXCEPT !.grid = x]
    <2>1. HasBox(p) /\ Changes(p, c)
      BY <1>4, Zenon DEF DelItem
    <2>4. /\ x \in [Grids -> Promise \cup {NoGrid}] /\ x[g] = NoGrid
          /\ \A h \in Grids \ {g} : x[h] = b.grid[h]
      BY <1>1 DEF GoodBox
    <2>5. DOMAIN c = Fields /\ c.other = Other(p) /\ c.key = box[p].key /\ c.grid = x /\ c.money = b.money
      BY <1>2, Zenon
    <2> HIDE DEF c, x
    <2>6. \A h, k \in Grids : x[h] # NoGrid /\ x[k] # NoGrid /\ x[h].slot = x[k].slot => h = k
      <3> HIDE DEF b
      <3> QED
        BY <1>1, <2>4 DEF GoodBox
    <2>7. GoodBox(c)
      BY <1>1, <2>4, <2>5, <2>6 DEF GoodBox
    <2> QED
      BY <2>1, <2>5, <2>7, BoxesChanged
  <1>5. ASSUME NEW n \in 0 .. MoneyLimit, SetMoney(p, n)
        PROVE  Boxes'
    <2> DEFINE c == [b EXCEPT !.money = n]
    <2>1. HasBox(p) /\ Changes(p, c)
      BY <1>5, Zenon DEF SetMoney
    <2>2. DOMAIN c = Fields /\ c.other = Other(p) /\ c.key = box[p].key /\ c.grid = b.grid /\ c.money = n
      BY <1>2, Zenon
    <2> HIDE DEF c
    <2>3. GoodBox(c)
      BY <1>1, <2>2 DEF GoodBox
    <2> QED
      BY <2>1, <2>2, <2>3, BoxesChanged
  <1> QED
    BY <1>3, <1>4, <1>5

LEMMA BoxesInv ==
    ASSUME IInv, Invites, Boxes, bag \in [Players -> Bags], [Next]_vars
    PROVE  Boxes'
  <1>1. CASE UNCHANGED vars
    BY <1>1, BoxesKept DEF vars
  <1>2. ASSUME NEW p \in Players, Errand(p)
        PROVE  Boxes'
    <2>1. UNCHANGED <<box, view>>
      BY <1>2, ErrandsLeave
    <2>2. Move
      <3>1. ASSUME NEW s, DestroyItem(p, s) PROVE Move
        BY <3>1, Zenon DEF DestroyItem, Busy
      <3>2. ASSUME NEW s, NEW t, NEW n, ExchangeItem(p, s, t, n) PROVE Move
        BY <3>2, Zenon DEF ExchangeItem, Busy
      <3>3. GainItem(p) => Move
        BY Zenon DEF GainItem, Busy
      <3>4. ChangeMoney(p) => Move
        BY Zenon DEF ChangeMoney, Busy
      <3> QED
        BY <1>2, <3>1, <3>2, <3>3, <3>4 DEF Errand
    <2> QED
      BY <2>1, <2>2, BoxesKept
  <1>3. ASSUME NEW p \in Players,
               \/ Enter(p) \/ StatusChanges(p)
               \/ \E q \in Players : OnTradingInviteRequest(p, q)
        PROVE  Boxes'
    <2>1. UNCHANGED <<box, view, moves>>
      BY <1>3, Zenon DEF Enter, StatusChanges, OnTradingInviteRequest, goods
    <2> QED
      BY <2>1, BoxesKept
  <1>4. ASSUME NEW q \in Players, OnTradingInviteRespond(q)
        PROVE  Boxes'
    <2>1. UNCHANGED moves
      BY <1>4 DEF OnTradingInviteRespond, goods
    <2>2. CASE UNCHANGED <<box, view>>
      BY <2>1, <2>2, BoxesKept
    <2>3. ASSUME NEW p \in Players,
                 box' = [box EXCEPT ![p] = [NoBox EXCEPT !.other = q],
                                    ![q] = [NoBox EXCEPT !.other = p]],
                 view' = [view EXCEPT ![p] = NoView, ![q] = NoView]
          PROVE  Boxes'
      <3>1. DOMAIN box = Players /\ DOMAIN view = Players
        BY DEF IInv, Shape
      <3>2. \A r \in Players : box'[r] = box[r] \/ \E z : box'[r] = [NoBox EXCEPT !.other = z]
        BY <2>3, <3>1
      <3>3. \A r \in Players : view'[r] = view[r] \/ view'[r] = NoView
        BY <2>3, <3>1
      <3>4. ASSUME NEW r \in Players
            PROVE  box'[r] = box[r] \/ (GoodBox(box'[r]) /\ box'[r].key = 0)
        <4>1. ASSUME NEW z, box'[r] = [NoBox EXCEPT !.other = z]
              PROVE  GoodBox(box'[r]) /\ box'[r].key = 0
          <5>1. GoodBox([NoBox EXCEPT !.other = z]) /\ [NoBox EXCEPT !.other = z].key = 0
            BY GoodBoxes, Zenon
          <5> QED
            BY <4>1, <5>1, Zenon
        <4> QED
          BY <3>2, <4>1, Zenon
      <3>5. \A r \in Players : view'[r] = view[r] \/ view'[r].key = 0
        BY <3>3, GoodBoxes
      <3> QED
        BY <2>1, <3>4, <3>5, BoxesReset
    <2> QED
      BY <1>4, <2>2, <2>3 DEF OnTradingInviteRespond, Invites
  <1>5. ASSUME NEW p \in Players,
               \/ \E g \in Grids, s \in Slots : AddItem(p, g, s)
               \/ \E g \in Grids : DelItem(p, g)
               \/ \E n \in 0 .. MoneyLimit : SetMoney(p, n)
        PROVE  Boxes'
    BY <1>5, PromisesInv
  <1>6. ASSUME NEW p \in Players, OnSync(p)
        PROVE  Boxes'
    <2>1. UNCHANGED <<box, moves>> /\ view' = [view EXCEPT ![p] = [key |-> box[p].key, fresh |-> TRUE]]
      BY <1>6 DEF OnSync, goods
    <2>2. \A q \in Players : view'[q].key \in {view[q].key, box[q].key}
      BY <2>1 DEF IInv, Shape
    <2> QED
      BY <2>1, <2>2 DEF Boxes
  <1>7. ASSUME NEW p \in Players, NEW q, ClearTradingInfo(p, q), UNCHANGED moves
        PROVE  Boxes'
    <2>1. DOMAIN box = Players /\ DOMAIN view = Players
      BY DEF IInv, Shape
    <2>2. \A r \in Players : box'[r] \in {box[r], NoBox} /\ view'[r] \in {view[r], NoView}
      BY <1>7, <2>1 DEF ClearTradingInfo
    <2>3. /\ \A r \in Players : box'[r] = box[r] \/ (GoodBox(box'[r]) /\ box'[r].key = 0)
          /\ \A r \in Players : view'[r] = view[r] \/ view'[r].key = 0
      BY <2>2, GoodBoxes
    <2> QED
      BY <1>7, <2>3, BoxesReset
  <1>8. ASSUME NEW p \in Players, OnTradingConfirm(p)
        PROVE  Boxes'
    <2>1. CASE box[Other(p)].confirm
      BY <1>7, <1>8, <2>1, Zenon DEF OnTradingConfirm, Confirm, FinishTrading
    <2>2. CASE ~box[Other(p)].confirm
      <3>1. box' = [box EXCEPT ![p].confirm = TRUE] /\ UNCHANGED <<view, moves>>
        BY <1>8, <2>2 DEF OnTradingConfirm, Confirm, goods
      <3>2. \A q \in Players : /\ box'[q].grid = box[q].grid /\ box'[q].money = box[q].money
                               /\ box'[q].key = box[q].key
        BY <3>1 DEF IInv, Shape, Fields
      <3>3. ASSUME NEW q \in Players PROVE GoodBox(box'[q])
        BY <3>2, GoodBoxes DEF Boxes
      <3> QED
        BY <3>1, <3>2, <3>3 DEF Boxes
    <2> QED
      BY <2>1, <2>2
  <1>9. ASSUME NEW p \in Players, OnTradingCancel(p)
        PROVE  Boxes'
    BY <1>7, <1>9 DEF OnTradingCancel, goods
  <1>10. ASSUME NEW p \in Players, UnInit(p)
         PROVE  Boxes'
    <2>1. \A r \in Players : box'[r] \in {box[r], NoBox} /\ view'[r] \in {view[r], NoView}
      BY <1>10 DEF UnInit
    <2>2. UNCHANGED moves
      BY <1>10 DEF UnInit, goods
    <2>3. /\ \A r \in Players : box'[r] = box[r] \/ (GoodBox(box'[r]) /\ box'[r].key = 0)
          /\ \A r \in Players : view'[r] = view[r] \/ view'[r].key = 0
      BY <2>1, GoodBoxes
    <2> QED
      BY <2>2, <2>3, BoxesReset
  <1> QED
    BY <1>1, <1>2, <1>3, <1>4, <1>5, <1>6, <1>8, <1>9, <1>10, Zenon DEF Next, Errand

-----------------------------------------------------------------------------
(* Money.                                                                     *)

Money ==
    /\ purse \in [Players -> 0 .. MoneyLimit]
    /\ world.money \in Nat
    /\ DOMAIN world = {"units", "money"}
    /\ MoneyConserved

Wealth == Total(purse, Players)

Balanced == Wealth + world.money = Many + MaxMoves

LEMMA MoneyIs == MoneyConserved <=> Balanced
  BY Zenon DEF MoneyConserved, Balanced, Wealth, Total

LEMMA PlayersFinite == IsFiniteSet(Players) /\ Many \in Nat
  BY TradingAssumption, FS_CardinalityType DEF Many

LEMMA ChangeMoneyInv ==
    ASSUME Money, NEW p \in Players, ChangeMoney(p)
    PROVE  Money'
  <1>1. /\ purse \in [Players -> 0 .. MoneyLimit] /\ world.money \in Nat
        /\ DOMAIN world = {"units", "money"}
        /\ Wealth + world.money = Many + MaxMoves
    BY MoneyIs DEF Money, Balanced
  <1>2. world' = [world EXCEPT !.money = @ + purse[p] - purse'[p]]
    BY DEF ChangeMoney
  <1>3. PICK n \in 0 .. MoneyLimit : /\ purse' = [purse EXCEPT ![p] = n]
                                     /\ n \in {purse[p] - 1, purse[p], purse[p] + 1}
                                     /\ n = purse[p] + 1 => world.money > 0
    <2>1. CASE purse[p] > 0 /\ purse' = [purse EXCEPT ![p] = @ - 1]
      <3> DEFINE m == purse[p] - 1
      <3>1. m \in 0 .. MoneyLimit
        BY <1>1, <2>1, TradingAssumption
      <3>2. m # purse[p] + 1
        BY <1>1, TradingAssumption
      <3>3. purse' = [purse EXCEPT ![p] = m] /\ m = purse[p] - 1
        BY <2>1
      <3> HIDE DEF m
      <3> QED
        BY <3>1, <3>2, <3>3
    <2>2. CASE world.money > 0 /\ purse' = [purse EXCEPT ![p] = MoneyAdded(@, 1)]
      <3> DEFINE m == MoneyAdded(purse[p], 1)
      <3>1. m \in 0 .. MoneyLimit /\ m \in {purse[p], purse[p] + 1}
        BY <1>1, TradingAssumption DEF MoneyAdded
      <3>2. purse' = [purse EXCEPT ![p] = m]
        BY <2>2
      <3> HIDE DEF m
      <3> QED
        BY <2>2, <3>1, <3>2
    <2> QED
      BY <2>1, <2>2 DEF ChangeMoney
  <1>4. purse' \in [Players -> 0 .. MoneyLimit] /\ purse'[p] = n /\ \A q \in Players \ {p} : purse'[q] = purse[q]
    BY <1>1, <1>3
  <1>5. /\ world'.money = world.money + purse[p] - purse'[p]
        /\ DOMAIN world' = {"units", "money"}
    BY <1>1, <1>2
  <1>6. world'.money \in Nat
    BY <1>1, <1>3, <1>4, <1>5, TradingAssumption
  <1>7. Total(purse', Players) = Total(purse, Players) + purse'[p] - purse[p]
    <2>1. \A q \in Players : purse[q] \in Int /\ purse'[q] \in Int
      BY <1>1, <1>4, TradingAssumption
    <2> QED
      BY <1>4, <2>1, PlayersFinite, SumChange
  <1>8. Wealth \in Int
    <2>1. \A q \in Players : purse[q] \in Int
      BY <1>1, TradingAssumption
    <2> QED
      BY <2>1, PlayersFinite, SumType DEF Wealth
  <1>9. Wealth' = Wealth + n - purse[p]
    BY <1>4, <1>7 DEF Wealth
  <1>10. Balanced'
    <2> purse[p] \in Int /\ Many \in Int
      BY <1>1, PlayersFinite, TradingAssumption
    <2> QED
      BY <1>1, <1>4, <1>5, <1>8, <1>9, TradingAssumption DEF Balanced
  <1>11. MoneyConserved'
    BY <1>10, MoneyIs, PTL
  <1> QED
    BY <1>4, <1>5, <1>6, <1>11 DEF Money

\* What the check of the exchange asks is what keeps both purses below their limits.
LEMMA PaidIs ==
    ASSUME IInv, Boxes, Money, NEW p \in Players, HasBox(p), FinishTradingCheck(p, Other(p))
    PROVE  LET q == Other(p)
               x == purse[p] - box[p].money + box[q].money
               y == purse[q] + box[p].money - box[q].money
           IN /\ x \in 0 .. MoneyLimit /\ y \in 0 .. MoneyLimit
              /\ Paid(p, q) = [purse EXCEPT ![p] = x, ![q] = y]
  <1> DEFINE q == Other(p)
             m == box[p].money
             n == box[q].money
  <1>1. q \in Players /\ q # p /\ Other(q) = p
    BY TradingAssumption DEF IInv, Shape, Paired, HasBox, Other
  <1>2. purse \in [Players -> 0 .. MoneyLimit]
    BY DEF Money
  <1>3. m \in 0 .. MoneyLimit /\ n \in 0 .. MoneyLimit
    BY <1>1 DEF Boxes, GoodBox
  <1>4. /\ m > 0 => m <= purse[p] /\ MoneyLimit - m >= purse[q]
        /\ n > 0 => n <= purse[q] /\ MoneyLimit - n >= purse[p]
    BY <1>1, Zenon DEF FinishTradingCheck, MoneyIsSound
  <1>5. Paid(p, q) = [purse EXCEPT ![p] = MoneyAdded(purse[p] - m, n), ![q] = MoneyAdded(purse[q], m) - n]
    BY <1>1, <1>2 DEF Paid
  <1> HIDE DEF m, n, q
  <1> DEFINE x == purse[p]
             y == purse[q]
             x1 == MoneyAdded(x - m, n)
             y1 == MoneyAdded(y, m) - n
  <1>6. x \in 0 .. MoneyLimit /\ y \in 0 .. MoneyLimit
    BY <1>1, <1>2
  <1>7. x1 = x - m + n /\ y1 = y + m - n /\ x1 \in 0 .. MoneyLimit /\ y1 \in 0 .. MoneyLimit
    <2> HIDE DEF x, y
    <2>1. /\ m > 0 => m <= x /\ MoneyLimit - m >= y
          /\ n > 0 => n <= y /\ MoneyLimit - n >= x
      BY <1>4 DEF x, y
    <2>2. MoneyLimit \in Nat
      BY TradingAssumption
    <2>3. x - m + n \in 0 .. MoneyLimit /\ y + m - n \in 0 .. MoneyLimit /\ y + m <= MoneyLimit
      BY <1>3, <1>6, <2>1, <2>2
    <2>4. x1 = x - m + n /\ y1 = y + m - n
      BY <1>3, <1>6, <2>2, <2>3 DEF MoneyAdded
    <2> QED
      BY <2>3, <2>4
  <1>8. Paid(p, q) = [purse EXCEPT ![p] = x1, ![q] = y1]
    BY <1>5
  <1> HIDE DEF x1, y1
  <1> QED
    BY <1>7, <1>8 DEF x, y, m, n, q

LEMMA PaidInv ==
    ASSUME IInv, Boxes, Money, NEW p \in Players, HasBox(p),
           FinishTradingCheck(p, Other(p)), purse' = Paid(p, Other(p)), UNCHANGED world
    PROVE  Money'
  <1> DEFINE q == Other(p)
             m == box[p].money
             n == box[q].money
             x == purse[p]
             y == purse[q]
             x1 == x - m + n
             y1 == y + m - n
  <1>1. q \in Players /\ q # p
    BY TradingAssumption DEF IInv, Shape, Paired, HasBox, Other
  <1>2. /\ purse \in [Players -> 0 .. MoneyLimit] /\ world.money \in Nat
        /\ DOMAIN world = {"units", "money"}
        /\ Wealth + world.money = Many + MaxMoves
    BY MoneyIs DEF Money, Balanced
  <1>3. m \in 0 .. MoneyLimit /\ n \in 0 .. MoneyLimit
    BY <1>1 DEF Boxes, GoodBox
  <1>4. /\ x1 \in 0 .. MoneyLimit /\ y1 \in 0 .. MoneyLimit
        /\ purse' = [purse EXCEPT ![p] = x1, ![q] = y1]
    BY PaidIs
  <1> HIDE DEF m, n, q
  <1>6. x \in 0 .. MoneyLimit /\ y \in 0 .. MoneyLimit
    BY <1>1, <1>2
  <1>7. x1 = x - m + n /\ y1 = y + m - n
    OBVIOUS
  <1> HIDE DEF x1, y1
  <1>8. /\ purse' \in [Players -> 0 .. MoneyLimit] /\ purse'[p] = x1 /\ purse'[q] = y1
        /\ \A r \in Players \ {p, q} : purse'[r] = purse[r]
    BY <1>1, <1>2, <1>4
  <1>9. Wealth' = Wealth + x1 - x + y1 - y
    <2>1. \A r \in Players : purse[r] \in Int /\ purse'[r] \in Int
      BY <1>2, <1>8, TradingAssumption
    <2>2. Total(purse', Players) = Total(purse, Players) + purse'[p] - purse[p] + purse'[q] - purse[q]
      BY <1>1, <1>8, <2>1, PlayersFinite, SumChangeTwo
    <2> QED
      BY <1>8, <2>2 DEF Wealth
  <1>10. Wealth \in Int
    <2>1. \A r \in Players : purse[r] \in Int
      BY <1>2, TradingAssumption
    <2> QED
      BY <2>1, PlayersFinite, SumType DEF Wealth
  <1>11. Balanced'
    <2> HIDE DEF x, y
    <2>1. Wealth' = Wealth
      BY <1>3, <1>6, <1>7, <1>9, <1>10, TradingAssumption
    <2> QED
      BY <1>2, <2>1 DEF Balanced
  <1>12. MoneyConserved'
    BY <1>11, MoneyIs, PTL
  <1> QED
    BY <1>2, <1>8, <1>12 DEF Money

-----------------------------------------------------------------------------
(* One bag.                                                                   *)

Units(b)     == Total([s \in Slots |-> b[s].num], Slots)
Room(b, s)   == IF b[s] = Empty THEN 0 ELSE MaxStack - b[s].num
\* The same objects lie at the same places.
SameNames(b, c) == \A s \in Slots : c[s].ptr = b[s].ptr /\ c[s].id = b[s].id

LEMMA ThingTypes ==
    /\ \A i \in Item : /\ i.ptr \in Ptrs /\ i.id \in 1 .. MaxID /\ i.num \in 1 .. MaxStack
                       /\ i # Empty /\ i.num \in Nat \ {0} /\ i.ptr # 0 /\ i.id # 0
    /\ Empty.ptr = 0 /\ Empty.id = 0 /\ Empty.num = 0
    /\ \A i \in Things : i.num \in 0 .. MaxStack /\ i.num \in Nat /\ (i # Empty => i \in Item)
    /\ \A i \in Things : (i = Empty <=> i.num = 0) /\ (i = Empty <=> i.ptr = 0) /\ (i = Empty <=> i.id = 0)
    /\ MaxStack \in Nat \ {0} /\ NSlots \in Nat \ {0}
  <1>1. Empty.ptr = 0 /\ Empty.id = 0 /\ Empty.num = 0
    BY DEF Empty
  <1>2. MaxStack \in Nat \ {0} /\ NSlots \in Nat \ {0}
    BY TradingAssumption
  <1>3. ASSUME NEW i \in Item
        PROVE  /\ i.ptr \in Ptrs /\ i.id \in 1 .. MaxID /\ i.num \in 1 .. MaxStack
               /\ i # Empty /\ i.num \in Nat \ {0} /\ i.ptr # 0 /\ i.id # 0
    <2>1. i.ptr \in Ptrs /\ i.id \in 1 .. MaxID /\ i.num \in 1 .. MaxStack
      BY DEF Item
    <2>2. i.num \in Nat \ {0}
      BY <1>2, <2>1
    <2>3. i.ptr # 0 /\ i.id # 0
      BY <2>1 DEF Ptrs
    <2> QED
      BY <1>1, <2>1, <2>2, <2>3
  <1>4. ASSUME NEW i \in Things
        PROVE  /\ i.num \in 0 .. MaxStack /\ i.num \in Nat /\ (i # Empty => i \in Item)
               /\ (i = Empty <=> i.num = 0) /\ (i = Empty <=> i.ptr = 0) /\ (i = Empty <=> i.id = 0)
    <2>1. i \in Item \/ i = Empty
      BY DEF Things
    <2>2. CASE i \in Item
      BY <1>2, <1>3, <2>2
    <2>3. CASE i = Empty
      BY <1>1, <1>2, <2>3
    <2> QED
      BY <2>1, <2>2, <2>3
  <1> QED
    BY <1>1, <1>2, <1>3, <1>4

LEMMA SlotsFinite == IsFiniteSet(Slots) /\ Cardinality(Slots) = NSlots
  BY TradingAssumption, FS_Interval DEF Slots

LEMMA UnitsType ==
    ASSUME NEW b \in Bags
    PROVE  Units(b) \in Int /\ \A s \in Slots : b[s] \in Things /\ b[s].num \in Nat
  <1>1. \A s \in Slots : b[s] \in Things /\ b[s].num \in Nat
    BY ThingTypes DEF Bags
  <1> DEFINE w == [s \in Slots |-> b[s].num]
  <1>2. \A s \in Slots : w[s] \in Int
    BY <1>1
  <1> HIDE DEF w
  <1>3. Total(w, Slots) \in Int
    BY <1>2, SlotsFinite, SumType
  <1> QED
    BY <1>1, <1>3 DEF Units, w

\* What lies at one place changes, and what lies at two.
LEMMA UnitsChange ==
    ASSUME NEW b \in Bags, NEW c \in Bags, NEW s \in Slots,
           \A t \in Slots \ {s} : c[t] = b[t]
    PROVE  Units(c) = Units(b) + c[s].num - b[s].num
  <1> DEFINE w == [t \in Slots |-> b[t].num]
             v == [t \in Slots |-> c[t].num]
  <1>1. /\ \A t \in Slots : w[t] = b[t].num /\ v[t] = c[t].num /\ w[t] \in Int /\ v[t] \in Int
    BY UnitsType
  <1>2. \A t \in Slots \ {s} : v[t] = w[t]
    OBVIOUS
  <1> HIDE DEF w, v
  <1>3. Total(v, Slots) = Total(w, Slots) + v[s] - w[s]
    BY <1>1, <1>2, SlotsFinite, SumChange
  <1>4. Units(c) = Total(v, Slots) /\ Units(b) = Total(w, Slots)
    BY Zenon DEF Units, v, w
  <1> QED
    BY <1>1, <1>3, <1>4

LEMMA UnitsChangeTwo ==
    ASSUME NEW b \in Bags, NEW c \in Bags, NEW s \in Slots, NEW t \in Slots, s # t,
           \A u \in Slots \ {s, t} : c[u] = b[u]
    PROVE  Units(c) = Units(b) + c[s].num - b[s].num + c[t].num - b[t].num
  <1> DEFINE w == [u \in Slots |-> b[u].num]
             v == [u \in Slots |-> c[u].num]
  <1>1. /\ \A u \in Slots : w[u] = b[u].num /\ v[u] = c[u].num /\ w[u] \in Int /\ v[u] \in Int
    BY UnitsType
  <1>2. \A u \in Slots \ {s, t} : v[u] = w[u]
    OBVIOUS
  <1> HIDE DEF w, v
  <1>3. Total(v, Slots) = Total(w, Slots) + v[s] - w[s] + v[t] - w[t]
    BY <1>1, <1>2, SlotsFinite, SumChangeTwo
  <1>4. Units(c) = Total(v, Slots) /\ Units(b) = Total(w, Slots)
    BY Zenon DEF Units, v, w
  <1> QED
    BY <1>1, <1>3, <1>4

\* An item goes to a free place.
LEMMA PlacedAt ==
    ASSUME NEW b \in Bags, NEW i, FreeSlots(b) # {}
    PROVE  \E z \in FreeSlots(b) : Placed(b, i) = [b EXCEPT ![z] = i]
  <1>1. FreeSlots(b) \subseteq Nat
    BY DEF FreeSlots, Slots
  <1>2. \E z \in FreeSlots(b) : \A t \in FreeSlots(b) : z <= t
    BY <1>1, LeastElement
  <1> DEFINE z == CHOOSE z \in FreeSlots(b) : \A t \in FreeSlots(b) : z <= t
  <1>3. z \in FreeSlots(b)
    BY <1>2
  <1>4. Placed(b, i) = [b EXCEPT ![z] = i]
    BY Zenon DEF Placed
  <1> QED
    BY <1>3, <1>4

-----------------------------------------------------------------------------
(* Items are spread over the stacks of a bag.                                 *)

LEMMA RoomType ==
    ASSUME NEW b \in Bags, NEW s \in Slots
    PROVE  Room(b, s) \in Nat /\ (b[s] # Empty => b[s] \in Item /\ Room(b, s) = MaxStack - b[s].num)
  BY ThingTypes DEF Bags, Room

\* The room on the stacks at the places up to the k-th.
LEMMA StackRoomSteps ==
    ASSUME NEW b \in Bags
    PROVE  \E R : /\ R \in [0 .. NSlots -> Int] /\ R[0] = 0 /\ StackRoom(b) = R[NSlots]
                  /\ \A k \in Slots : R[k] = R[k - 1] + Room(b, k)
  <1> DEFINE Eq(f) == f = [T \in SUBSET (1 .. NSlots) |->
                        IF T = {} THEN 0
                        ELSE IF b[SlotOrder[Max(T)]] = Empty THEN f[T \ {Max(T)}]
                             ELSE f[T \ {Max(T)}] + MaxStack - b[SlotOrder[Max(T)]].num]
             h == [k \in 1 .. NSlots |-> [n \in Int |->
                        IF b[k] = Empty THEN n ELSE n + MaxStack - b[k].num]]
  <1>1. StackRoom(b) = (CHOOSE f : Eq(f))[1 .. NSlots]
    <2>1. DOMAIN SlotOrder = 1 .. NSlots
      BY DEF SlotOrder, Slots
    <2> QED
      BY <2>1, Zenon DEF StackRoom, FoldLeft, MapThenFoldSet
  <1>2. \A k \in 1 .. NSlots : SlotOrder[k] = k /\ Room(b, k) \in Int
    BY RoomType DEF SlotOrder, Slots
  <1>3. NSlots \in Nat /\ 0 \in Int
    BY TradingAssumption
  <1>4. ASSUME NEW k \in 1 .. NSlots, NEW n \in Int
        PROVE  h[k][n] = n + Room(b, k) /\ h[k][n] \in Int
    <2>1. k \in Slots
      BY DEF Slots
    <2>2. b[k] # Empty => b[k].num \in Int
      BY <2>1, RoomType, ThingTypes
    <2> QED
      BY <2>2, ThingTypes DEF Room
  <1>5. h \in [1 .. NSlots -> [Int -> Int]]
    <2>1. ASSUME NEW k \in 1 .. NSlots PROVE h[k] \in [Int -> Int]
      <3>1. \A n \in Int : h[k][n] \in Int
        BY <1>4
      <3> QED
        BY <3>1
    <2> QED
      BY <2>1
  <1>6. \A k \in 1 .. NSlots, n \in Int :
           h[k][n] = IF b[k] = Empty THEN n ELSE n + MaxStack - b[k].num
    OBVIOUS
  <1> HIDE DEF h
  <1>7. PICK g : LeftFoldOf(NSlots, Int, 0, h, g)
    BY <1>3, <1>5, LeftFold, Zenon
  <1>8. Eq(g)
    <2>1. ASSUME NEW T \in SUBSET (1 .. NSlots), T # {}
          PROVE  g[T] = IF b[SlotOrder[Max(T)]] = Empty THEN g[T \ {Max(T)}]
                        ELSE g[T \ {Max(T)}] + MaxStack - b[SlotOrder[Max(T)]].num
      <3> DEFINE m == Max(T)
                 r == g[T \ {m}]
      <3>1. m \in 1 .. NSlots /\ r \in Int /\ g[T] = h[m][r]
        BY <1>7, <2>1, Zenon DEF LeftFoldOf
      <3> HIDE DEF m, r
      <3>2. g[T] = IF b[SlotOrder[m]] = Empty THEN r ELSE r + MaxStack - b[SlotOrder[m]].num
        BY <1>2, <1>6, <3>1, Zenon
      <3> QED
        BY <3>2, Zenon DEF m, r
    <2> QED
      BY <1>7, <2>1 DEF LeftFoldOf
  <1> DEFINE f == CHOOSE f : Eq(f)
  <1>9. Eq(f)
    BY <1>8, Zenon
  <1>10. /\ f[{}] = 0
         /\ \A T \in (SUBSET (1 .. NSlots)) \ {{}} : f[T] =
                        IF b[SlotOrder[Max(T)]] = Empty THEN f[T \ {Max(T)}]
                        ELSE f[T \ {Max(T)}] + MaxStack - b[SlotOrder[Max(T)]].num
    <2> HIDE DEF f
    <2> QED
      BY <1>9
  <1> HIDE DEF f, Eq
  <1>11. ASSUME NEW T \in (SUBSET (1 .. NSlots)) \ {{}}, f[T \ {Max(T)}] \in Int
         PROVE  f[T] = h[Max(T)][f[T \ {Max(T)}]]
    <2> DEFINE m == Max(T)
               r == f[T \ {m}]
    <2>1. m \in 1 .. NSlots
      BY <1>7, Zenon DEF LeftFoldOf
    <2>2. /\ r \in Int
          /\ f[T] = IF b[SlotOrder[m]] = Empty THEN r ELSE r + MaxStack - b[SlotOrder[m]].num
      BY <1>10, <1>11, Zenon
    <2> HIDE DEF m, r
    <2>3. f[T] = h[m][r]
      <3>1. SlotOrder[m] = m /\ h[m][r] = IF b[m] = Empty THEN r ELSE r + MaxStack - b[m].num
        BY <1>2, <1>6, <2>1, <2>2, Zenon
      <3> QED
        BY <2>2, <3>1, Zenon
    <2> QED
      BY <2>3, Zenon DEF m, r
  <1>12. Follows(NSlots, Int, 0, h, f)
    BY <1>10, <1>11, Zenon DEF Follows
  <1>13. PICK R : Runs(NSlots, Int, 0, h, R, f[1 .. NSlots])
    BY <1>3, <1>5, <1>12, FoldRun, Zenon
  <1>14. \A k \in Slots : R[k] = R[k - 1] + Room(b, k)
    BY <1>4, <1>13 DEF Slots, Runs
  <1> QED
    BY <1>1, <1>13, <1>14 DEF f, Runs

Heaps == [bag : Bags, left : Nat]

\* What one stack takes.
Pushes(a, s, r, c) ==
    /\ c \in Heaps /\ SameNames(a.bag, c.bag)
    /\ c.left = IF r < a.left THEN a.left - r ELSE 0
    /\ Units(c.bag) = Units(a.bag) + a.left - c.left
    /\ \A t \in Slots \ {s} : c.bag[t] = a.bag[t]

LEMMA PushedOne ==
    ASSUME NEW a \in Heaps, NEW s \in Slots
    PROVE  PushedTo(a, s) \in Heaps /\ Pushes(a, s, Room(a.bag, s), PushedTo(a, s))
  <1> DEFINE r == Room(a.bag, s)
             k == IF r < a.left THEN r ELSE a.left
             c == PushedTo(a, s)
  <1>1. a.bag \in Bags /\ a.left \in Nat
    BY DEF Heaps
  <1>2. r \in Nat /\ (a.bag[s] # Empty => a.bag[s] \in Item /\ r = MaxStack - a.bag[s].num)
    BY <1>1, RoomType
  <1>3. c = IF k = 0 THEN a ELSE [bag |-> [a.bag EXCEPT ![s].num = a.bag[s].num + k], left |-> a.left - k]
    BY <1>1 DEF PushedTo, Room, Bags
  <1> HIDE DEF c
  <1>4. k \in Nat /\ k <= r /\ k <= a.left /\ a.left - k = IF r < a.left THEN a.left - r ELSE 0
    BY <1>1, <1>2
  <1>5. CASE k = 0
    <2>1. c = a
      BY <1>3, <1>5
    <2> HIDE DEF k, r
    <2>2. c.left = (IF r < a.left THEN a.left - r ELSE 0) /\ a.left - c.left = 0
      BY <1>1, <1>4, <1>5, <2>1
    <2>3. Units(a.bag) \in Int
      BY <1>1, UnitsType
    <2>4. Units(c.bag) = Units(a.bag) + a.left - c.left
      BY <1>1, <2>1, <2>3
    <2>5. SameNames(a.bag, c.bag)
      BY <2>1 DEF SameNames
    <2> QED
      BY <2>1, <2>2, <2>4, <2>5 DEF Pushes, c, r
  <1>6. CASE k # 0
    <2> DEFINE x == [a.bag[s] EXCEPT !.num = a.bag[s].num + k]
               d == [a.bag EXCEPT ![s] = x]
    <2>1. a.bag[s] \in Item /\ r = MaxStack - a.bag[s].num
      BY <1>2, <1>4, <1>6 DEF Room
    <2> HIDE DEF r, k
    <2>2. /\ x \in Item /\ x.num = a.bag[s].num + k
          /\ x.ptr = a.bag[s].ptr /\ x.id = a.bag[s].id
      <3>1. a.bag[s].num + k \in 1 .. MaxStack
        <4>1. a.bag[s].num \in 1 .. MaxStack
          BY <2>1 DEF Item
        <4> QED
          BY <1>4, <2>1, <4>1, ThingTypes
      <3> QED
        BY <2>1, <3>1 DEF Item
    <2>3. c.bag = d /\ c.left = a.left - k /\ c = [bag |-> d, left |-> a.left - k]
      BY <1>3, <1>6
    <2> HIDE DEF x
    <2>4. d \in Bags /\ d[s] = x /\ \A t \in Slots \ {s} : d[t] = a.bag[t]
      BY <1>1, <2>2 DEF Bags, Things
    <2> HIDE DEF d
    <2>5. Units(d) = Units(a.bag) + x.num - a.bag[s].num
      BY <1>1, <2>4, UnitsChange
    <2>6. Units(d) = Units(a.bag) + k
      <3>1. Units(a.bag) \in Int /\ a.bag[s].num \in Int
        BY <1>1, UnitsType
      <3> QED
        BY <1>4, <2>2, <2>5, <3>1
    <2>7. a.left - c.left = k /\ c.left \in Nat
      BY <1>1, <1>4, <2>3
    <2>8. c \in Heaps
      BY <2>3, <2>4, <2>7 DEF Heaps
    <2>9. SameNames(a.bag, c.bag)
      BY <2>2, <2>3, <2>4 DEF SameNames
    <2>10. Units(c.bag) = Units(a.bag) + a.left - c.left
      <3>1. Units(a.bag) \in Int
        BY <1>1, UnitsType
      <3> QED
        BY <1>1, <1>4, <2>3, <2>6, <2>7, <3>1
    <2> QED
      BY <1>4, <2>3, <2>4, <2>8, <2>9, <2>10 DEF Pushes, c, r
  <1> QED
    BY <1>5, <1>6

\* Stack by stack.
PushRun(b, n, F) ==
    /\ F \in [0 .. NSlots -> Heaps] /\ F[0] = [bag |-> b, left |-> n]
    /\ FoldLeft(PushedTo, [bag |-> b, left |-> n], SlotOrder) = F[NSlots]
    /\ \A k \in 1 .. NSlots : F[k] = PushedTo(F[k - 1], SlotOrder[k])

LEMMA PushedSteps ==
    ASSUME NEW b \in Bags, NEW n \in Nat
    PROVE  \E F : PushRun(b, n, F)
  <1> DEFINE z == [bag |-> b, left |-> n]
             Eq(f) == f = [T \in SUBSET (1 .. NSlots) |->
                             IF T = {} THEN z ELSE PushedTo(f[T \ {Max(T)}], SlotOrder[Max(T)])]
             h == [k \in 1 .. NSlots |-> [a \in Heaps |-> PushedTo(a, SlotOrder[k])]]
  <1>1. FoldLeft(PushedTo, z, SlotOrder) = (CHOOSE f : Eq(f))[1 .. NSlots]
    <2>1. DOMAIN SlotOrder = 1 .. NSlots
      BY DEF SlotOrder, Slots
    <2> QED
      BY <2>1, Zenon DEF FoldLeft, MapThenFoldSet
  <1>2. NSlots \in Nat /\ z \in Heaps
    BY TradingAssumption DEF Heaps
  <1>3. ASSUME NEW k \in 1 .. NSlots, NEW a \in Heaps
        PROVE  h[k][a] = PushedTo(a, SlotOrder[k]) /\ PushedTo(a, SlotOrder[k]) \in Heaps
    BY PushedOne DEF SlotOrder, Slots
  <1>4. h \in [1 .. NSlots -> [Heaps -> Heaps]]
    <2>1. ASSUME NEW k \in 1 .. NSlots PROVE h[k] \in [Heaps -> Heaps]
      <3>1. h[k] = [a \in Heaps |-> PushedTo(a, SlotOrder[k])]
        OBVIOUS
      <3>2. \A a \in Heaps : PushedTo(a, SlotOrder[k]) \in Heaps
        BY <1>3
      <3> HIDE DEF h
      <3> QED
        BY <3>1, <3>2, Zenon
    <2>2. h = [k \in 1 .. NSlots |-> h[k]]
      OBVIOUS
    <2> HIDE DEF h
    <2> QED
      BY <2>1, <2>2, Zenon
  <1> HIDE DEF h, z
  <1>5. PICK g : LeftFoldOf(NSlots, Heaps, z, h, g)
    BY <1>2, <1>4, LeftFold, Zenon
  <1>6. Eq(g)
    <2>1. ASSUME NEW T \in SUBSET (1 .. NSlots), T # {}
          PROVE  g[T] = PushedTo(g[T \ {Max(T)}], SlotOrder[Max(T)])
      <3> DEFINE m == Max(T)
                 r == g[T \ {m}]
      <3>1. m \in 1 .. NSlots /\ r \in Heaps /\ g[T] = h[m][r]
        BY <1>5, <2>1, Zenon DEF LeftFoldOf
      <3> HIDE DEF m, r
      <3>2. g[T] = PushedTo(r, SlotOrder[m])
        BY <1>3, <3>1, Zenon
      <3> QED
        BY <3>2, Zenon DEF m, r
    <2> QED
      BY <1>5, <2>1 DEF LeftFoldOf
  <1> DEFINE f == CHOOSE f : Eq(f)
  <1>7. Eq(f)
    BY <1>6, Zenon
  <1>8. /\ f[{}] = z
        /\ \A T \in (SUBSET (1 .. NSlots)) \ {{}} :
              f[T] = PushedTo(f[T \ {Max(T)}], SlotOrder[Max(T)])
    <2> HIDE DEF f
    <2> QED
      BY <1>7
  <1> HIDE DEF f, Eq
  <1>9. ASSUME NEW T \in (SUBSET (1 .. NSlots)) \ {{}}, f[T \ {Max(T)}] \in Heaps
        PROVE  f[T] = h[Max(T)][f[T \ {Max(T)}]]
    <2> DEFINE m == Max(T)
               r == f[T \ {m}]
    <2>1. m \in 1 .. NSlots /\ r \in Heaps /\ f[T] = PushedTo(r, SlotOrder[m])
      BY <1>5, <1>8, <1>9, Zenon DEF LeftFoldOf
    <2> HIDE DEF m, r
    <2>2. f[T] = h[m][r]
      BY <1>3, <2>1, Zenon
    <2> QED
      BY <2>2, Zenon DEF m, r
  <1>10. Follows(NSlots, Heaps, z, h, f)
    BY <1>8, <1>9, Zenon DEF Follows
  <1>11. PICK F : Runs(NSlots, Heaps, z, h, F, f[1 .. NSlots])
    BY <1>2, <1>4, <1>10, FoldRun, Zenon
  <1>12. \A k \in 1 .. NSlots : F[k] = PushedTo(F[k - 1], SlotOrder[k])
    BY <1>3, <1>11, Zenon DEF Runs
  <1> QED
    BY <1>1, <1>11, <1>12, Zenon DEF PushRun, Runs, f, z

\* All of them go to the stacks if there is room.
LEMMA PushedAll ==
    ASSUME NEW b \in Bags, NEW n \in Nat
    PROVE  LET c == FoldLeft(PushedTo, [bag |-> b, left |-> n], SlotOrder).bag
           IN c \in Bags /\ SameNames(b, c) /\ (StackRoom(b) >= n => Units(c) = Units(b) + n)
  <1>0. PICK F : PushRun(b, n, F)
    BY PushedSteps, Zenon
  <1>1. /\ F \in [0 .. NSlots -> Heaps] /\ F[0] = [bag |-> b, left |-> n]
        /\ FoldLeft(PushedTo, [bag |-> b, left |-> n], SlotOrder) = F[NSlots]
        /\ \A k \in 1 .. NSlots : F[k] = PushedTo(F[k - 1], SlotOrder[k])
    BY <1>0, Zenon DEF PushRun
  <1>2. PICK R : /\ R \in [0 .. NSlots -> Int] /\ R[0] = 0 /\ StackRoom(b) = R[NSlots]
                 /\ \A k \in Slots : R[k] = R[k - 1] + Room(b, k)
    BY StackRoomSteps
  <1> DEFINE J(k) == /\ F[k].bag \in Bags /\ F[k].left \in Nat /\ SameNames(b, F[k].bag)
                     /\ Units(F[k].bag) = Units(b) + n - F[k].left
                     /\ \A t \in Slots : t > k => F[k].bag[t] = b[t]
                     /\ R[k] >= 0
                     /\ F[k].left = IF R[k] < n THEN n - R[k] ELSE 0
             K == {k \in Nat : k <= NSlots => J(k)}
  <1>3. 0 \in K
    <2>1. F[0].bag = b /\ F[0].left = n
      BY <1>1
    <2>2. Units(b) \in Int
      BY UnitsType
    <2>3. SameNames(b, b)
      BY DEF SameNames
    <2>4. Units(b) = Units(b) + n - n
      BY <2>2
    <2>5. n = IF 0 < n THEN n - 0 ELSE 0
      OBVIOUS
    <2>6. J(0)
      BY <1>2, <2>1, <2>3, <2>4, <2>5
    <2> QED
      BY <2>6
  <1>4. ASSUME NEW k \in K PROVE k + 1 \in K
    <2> SUFFICES ASSUME k + 1 <= NSlots PROVE J(k + 1)
      OBVIOUS
    <2>1. k \in Nat /\ J(k) /\ k + 1 \in Slots /\ k + 1 \in 1 .. NSlots /\ k \in 0 .. NSlots /\ (k + 1) - 1 = k
      BY TradingAssumption DEF Slots
    <2> DEFINE a == F[k]
               s == k + 1
               c == F[s]
               r == Room(a.bag, s)
    <2>2. a \in Heaps /\ s \in Slots /\ SlotOrder[s] = s
      BY <1>1, <2>1 DEF SlotOrder
    <2>3. c = PushedTo(a, s)
      <3>1. F[k + 1] = PushedTo(F[(k + 1) - 1], SlotOrder[k + 1])
        BY <1>1, <2>1, Zenon
      <3> QED
        BY <2>1, <2>2, <3>1, Zenon
    <2>4. /\ c \in Heaps /\ SameNames(a.bag, c.bag)
          /\ c.left = IF r < a.left THEN a.left - r ELSE 0
          /\ Units(c.bag) = Units(a.bag) + a.left - c.left
          /\ \A t \in Slots \ {s} : c.bag[t] = a.bag[t]
      <3>1. Pushes(a, s, r, PushedTo(a, s))
        BY <2>2, PushedOne, Zenon
      <3>2. Pushes(a, s, r, c)
        BY <2>3, <3>1, Zenon
      <3> HIDE DEF a, c, s, r
      <3> QED
        BY <3>2, Zenon DEF Pushes
    <2>5. r = Room(b, s) /\ r \in Nat
      <3>1. s > k
        BY <2>1
      <3>2. a.bag[s] = b[s]
        BY <2>1, <2>2, <3>1, Zenon
      <3>3. r = Room(b, s)
        BY <3>2, Zenon DEF Room
      <3> QED
        BY <2>2, <3>3, RoomType
    <2>6. R[s] = R[k] + r /\ R[k] \in Int
      <3>1. R[k + 1] = R[(k + 1) - 1] + Room(b, k + 1)
        BY <1>2, <2>1, Zenon
      <3> QED
        BY <1>2, <2>1, <2>5, <3>1
    <2>7. /\ Units(a.bag) = Units(b) + n - a.left /\ R[k] >= 0 /\ SameNames(b, a.bag)
          /\ a.left = (IF R[k] < n THEN n - R[k] ELSE 0)
          /\ \A t \in Slots : t > k => a.bag[t] = b[t]
      BY <2>1, Zenon
    <2>8. c.bag \in Bags /\ c.left \in Nat /\ a.left \in Nat /\ a.bag \in Bags
      BY <2>2, <2>4 DEF Heaps
    <2>9. Units(b) \in Int /\ Units(a.bag) \in Int
      BY <2>8, UnitsType
    <2> HIDE DEF a, c, s, r, J, K
    <2>10. Units(c.bag) = Units(b) + n - c.left
      BY <2>4, <2>7, <2>8, <2>9
    <2>11. R[s] >= 0 /\ c.left = IF R[s] < n THEN n - R[s] ELSE 0
      BY <2>4, <2>5, <2>6, <2>7, <2>8
    <2>12. \A t \in Slots : t > s => c.bag[t] = b[t]
      <3> SUFFICES ASSUME NEW t \in Slots, t > s PROVE c.bag[t] = b[t]
        OBVIOUS
      <3>1. t > k /\ t # s
        BY <2>1 DEF s, Slots
      <3> QED
        BY <2>4, <2>7, <3>1
    <2>13. SameNames(b, c.bag)
      BY <2>4, <2>7 DEF SameNames
    <2> QED
      BY <2>8, <2>10, <2>11, <2>12, <2>13, Zenon DEF J, c, s
  <1>5. K = Nat
    <2> HIDE DEF K
    <2>1. K \subseteq Nat
      BY DEF K
    <2> QED
      BY <1>3, <1>4, <2>1, NatSetInduction
  <1>6. J(NSlots)
    <2>1. NSlots \in Nat /\ NSlots <= NSlots
      BY TradingAssumption
    <2> HIDE DEF J
    <2> QED
      BY <1>5, <2>1
  <1> DEFINE c == F[NSlots].bag
  <1>7. c \in Bags /\ SameNames(b, c) /\ Units(c) = Units(b) + n - F[NSlots].left
    BY <1>6, Zenon
  <1>8. StackRoom(b) >= n => F[NSlots].left = 0
    <2>1. NSlots \in 0 .. NSlots
      BY TradingAssumption
    <2> QED
      BY <1>2, <1>6, <2>1
  <1>9. Units(b) \in Int
    BY UnitsType
  <1> HIDE DEF c, J
  <1>10. StackRoom(b) >= n => Units(c) = Units(b) + n
    BY <1>7, <1>8, <1>9
  <1> QED
    BY <1>1, <1>7, <1>10, Zenon DEF c

-----------------------------------------------------------------------------
(* Items are added to a bag.                                                  *)

SameObject(i, j) == i.ptr = j.ptr /\ i.id = j.id

\* c is b with i put on its stacks (z = 0) or at the free place z.
TakesAt(b, i, c, z) ==
    /\ z \in Slots => b[z] = Empty /\ c[z] = i
    /\ \A s \in Slots \ {z} : SameObject(c[s], b[s])

Takes(b, i, c) ==
    /\ c \in Bags /\ Units(c) = Units(b) + i.num
    /\ \E z \in Slots \cup {0} : TakesAt(b, i, c, z)

LEMMA PlacedTakes ==
    ASSUME NEW b \in Bags, NEW i \in Item, FreeSlots(b) # {}
    PROVE  Takes(b, i, Placed(b, i))
  <1>1. PICK z \in FreeSlots(b) : Placed(b, i) = [b EXCEPT ![z] = i]
    BY PlacedAt
  <1> DEFINE c == Placed(b, i)
  <1>2. /\ z \in Slots /\ b[z] = Empty /\ c \in Bags /\ c[z] = i
        /\ \A s \in Slots \ {z} : c[s] = b[s]
    BY <1>1 DEF FreeSlots, Bags, Things
  <1> HIDE DEF c
  <1>3. Units(c) = Units(b) + i.num
    <2>1. Units(c) = Units(b) + c[z].num - b[z].num
      BY <1>2, UnitsChange
    <2>2. b[z].num = 0 /\ i.num \in Int /\ Units(b) \in Int
      BY <1>2, ThingTypes, UnitsType
    <2> QED
      BY <1>2, <2>1, <2>2
  <1>4. TakesAt(b, i, c, z)
    BY <1>2 DEF TakesAt, SameObject
  <1> QED
    BY <1>2, <1>3, <1>4 DEF Takes, c

LEMMA PlacedType ==
    ASSUME NEW b \in Bags, NEW i \in Item
    PROVE  Placed(b, i) \in Bags
  <1>1. CASE FreeSlots(b) = {}
    BY <1>1, Zenon DEF Placed
  <1>2. CASE FreeSlots(b) # {}
    BY <1>2, PlacedTakes DEF Takes
  <1> QED
    BY <1>1, <1>2

LEMMA PushedTakes ==
    ASSUME NEW b \in Bags, NEW i \in Item, StackRoom(b) >= i.num
    PROVE  Takes(b, i, Added(b, i))
  <1> DEFINE c == FoldLeft(PushedTo, [bag |-> b, left |-> i.num], SlotOrder).bag
  <1>1. i.num \in Nat
    BY ThingTypes
  <1>2. c \in Bags /\ SameNames(b, c) /\ (StackRoom(b) >= i.num => Units(c) = Units(b) + i.num)
    BY <1>1, PushedAll
  <1>3. Added(b, i) = c
    BY Zenon DEF Added
  <1> HIDE DEF c
  <1>4. TakesAt(b, i, c, 0)
    <2>1. 0 \notin Slots
      BY DEF Slots
    <2> QED
      BY <1>2, <2>1 DEF TakesAt, SameNames, SameObject
  <1> QED
    BY <1>2, <1>3, <1>4 DEF Takes

LEMMA AddedTakes ==
    ASSUME NEW b \in Bags, NEW i \in Item, FreeSlots(b) # {} \/ StackRoom(b) >= i.num
    PROVE  Takes(b, i, Added(b, i))
  <1>1. CASE StackRoom(b) >= i.num
    BY <1>1, PushedTakes
  <1>2. CASE ~(StackRoom(b) >= i.num)
    <2>1. Added(b, i) = Placed(b, i)
      BY <1>2, Zenon DEF Added
    <2> QED
      BY <1>2, <2>1, PlacedTakes
  <1> QED
    BY <1>1, <1>2

LEMMA AddedType ==
    ASSUME NEW b \in Bags, NEW i \in Item
    PROVE  Added(b, i) \in Bags
  <1>1. CASE StackRoom(b) >= i.num
    BY <1>1, PushedTakes DEF Takes
  <1>2. CASE ~(StackRoom(b) >= i.num)
    <2>1. Added(b, i) = Placed(b, i)
      BY <1>2, Zenon DEF Added
    <2> QED
      BY <2>1, PlacedType
  <1> QED
    BY <1>1, <1>2

\* Items are put away one after the other.
PlacedRun(b, n, items, F) ==
    /\ F \in [0 .. n -> Bags] /\ F[0] = b
    /\ FoldLeft(Placed, b, items) = F[n]
    /\ \A k \in 1 .. n : F[k] = Placed(F[k - 1], items[k])

LEMMA PlacedSteps ==
    ASSUME NEW b \in Bags, NEW n \in Nat, NEW items \in [1 .. n -> Item]
    PROVE  \E F : PlacedRun(b, n, items, F)
  <1> DEFINE z == b
             Eq(f) == f = [T \in SUBSET (1 .. n) |->
                             IF T = {} THEN z ELSE Placed(f[T \ {Max(T)}], items[Max(T)])]
             h == [k \in 1 .. n |-> [a \in Bags |-> Placed(a, items[k])]]
  <1>1. FoldLeft(Placed, z, items) = (CHOOSE f : Eq(f))[1 .. n]
    <2>1. DOMAIN items = 1 .. n
      OBVIOUS
    <2> QED
      BY <2>1, Zenon DEF FoldLeft, MapThenFoldSet
  <1>2. n \in Nat /\ z \in Bags
    OBVIOUS
  <1>3. ASSUME NEW k \in 1 .. n, NEW a \in Bags
        PROVE  h[k][a] = Placed(a, items[k]) /\ Placed(a, items[k]) \in Bags
    <2>1. items[k] \in Item
      OBVIOUS
    <2> QED
      BY <2>1, PlacedType
  <1>4. h \in [1 .. n -> [Bags -> Bags]]
    <2>1. ASSUME NEW k \in 1 .. n PROVE h[k] \in [Bags -> Bags]
      <3>1. h[k] = [a \in Bags |-> Placed(a, items[k])]
        OBVIOUS
      <3>2. \A a \in Bags : Placed(a, items[k]) \in Bags
        BY <1>3
      <3> HIDE DEF h
      <3> QED
        BY <3>1, <3>2, Zenon
    <2>2. h = [k \in 1 .. n |-> h[k]]
      OBVIOUS
    <2> HIDE DEF h
    <2> QED
      BY <2>1, <2>2, Zenon
  <1> HIDE DEF h, z
  <1>5. PICK g : LeftFoldOf(n, Bags, z, h, g)
    BY <1>2, <1>4, LeftFold, Zenon
  <1>6. Eq(g)
    <2>1. ASSUME NEW T \in SUBSET (1 .. n), T # {}
          PROVE  g[T] = Placed(g[T \ {Max(T)}], items[Max(T)])
      <3> DEFINE m == Max(T)
                 r == g[T \ {m}]
      <3>1. m \in 1 .. n /\ r \in Bags /\ g[T] = h[m][r]
        BY <1>5, <2>1, Zenon DEF LeftFoldOf
      <3> HIDE DEF m, r
      <3>2. g[T] = Placed(r, items[m])
        BY <1>3, <3>1, Zenon
      <3> QED
        BY <3>2, Zenon DEF m, r
    <2> QED
      BY <1>5, <2>1 DEF LeftFoldOf
  <1> DEFINE f == CHOOSE f : Eq(f)
  <1>7. Eq(f)
    BY <1>6, Zenon
  <1>8. /\ f[{}] = z
        /\ \A T \in (SUBSET (1 .. n)) \ {{}} :
              f[T] = Placed(f[T \ {Max(T)}], items[Max(T)])
    <2> HIDE DEF f
    <2> QED
      BY <1>7
  <1> HIDE DEF f, Eq
  <1>9. ASSUME NEW T \in (SUBSET (1 .. n)) \ {{}}, f[T \ {Max(T)}] \in Bags
        PROVE  f[T] = h[Max(T)][f[T \ {Max(T)}]]
    <2> DEFINE m == Max(T)
               r == f[T \ {m}]
    <2>1. m \in 1 .. n /\ r \in Bags /\ f[T] = Placed(r, items[m])
      BY <1>5, <1>8, <1>9, Zenon DEF LeftFoldOf
    <2> HIDE DEF m, r
    <2>2. f[T] = h[m][r]
      BY <1>3, <2>1, Zenon
    <2> QED
      BY <2>2, Zenon DEF m, r
  <1>10. Follows(n, Bags, z, h, f)
    BY <1>8, <1>9, Zenon DEF Follows
  <1>11. PICK F : Runs(n, Bags, z, h, F, f[1 .. n])
    BY <1>2, <1>4, <1>10, FoldRun, Zenon
  <1>12. \A k \in 1 .. n : F[k] = Placed(F[k - 1], items[k])
    BY <1>3, <1>11, Zenon DEF Runs
  <1> QED
    BY <1>1, <1>11, <1>12, Zenon DEF PlacedRun, Runs, f, z

\* Items are added one after the other.
AddedRun(b, n, items, F) ==
    /\ F \in [0 .. n -> Bags] /\ F[0] = b
    /\ FoldLeft(Added, b, items) = F[n]
    /\ \A k \in 1 .. n : F[k] = Added(F[k - 1], items[k])

LEMMA AddedSteps ==
    ASSUME NEW b \in Bags, NEW n \in Nat, NEW items \in [1 .. n -> Item]
    PROVE  \E F : AddedRun(b, n, items, F)
  <1> DEFINE z == b
             Eq(f) == f = [T \in SUBSET (1 .. n) |->
                             IF T = {} THEN z ELSE Added(f[T \ {Max(T)}], items[Max(T)])]
             h == [k \in 1 .. n |-> [a \in Bags |-> Added(a, items[k])]]
  <1>1. FoldLeft(Added, z, items) = (CHOOSE f : Eq(f))[1 .. n]
    <2>1. DOMAIN items = 1 .. n
      OBVIOUS
    <2> QED
      BY <2>1, Zenon DEF FoldLeft, MapThenFoldSet
  <1>2. n \in Nat /\ z \in Bags
    OBVIOUS
  <1>3. ASSUME NEW k \in 1 .. n, NEW a \in Bags
        PROVE  h[k][a] = Added(a, items[k]) /\ Added(a, items[k]) \in Bags
    <2>1. items[k] \in Item
      OBVIOUS
    <2> QED
      BY <2>1, AddedType
  <1>4. h \in [1 .. n -> [Bags -> Bags]]
    <2>1. ASSUME NEW k \in 1 .. n PROVE h[k] \in [Bags -> Bags]
      <3>1. h[k] = [a \in Bags |-> Added(a, items[k])]
        OBVIOUS
      <3>2. \A a \in Bags : Added(a, items[k]) \in Bags
        BY <1>3
      <3> HIDE DEF h
      <3> QED
        BY <3>1, <3>2, Zenon
    <2>2. h = [k \in 1 .. n |-> h[k]]
      OBVIOUS
    <2> HIDE DEF h
    <2> QED
      BY <2>1, <2>2, Zenon
  <1> HIDE DEF h, z
  <1>5. PICK g : LeftFoldOf(n, Bags, z, h, g)
    BY <1>2, <1>4, LeftFold, Zenon
  <1>6. Eq(g)
    <2>1. ASSUME NEW T \in SUBSET (1 .. n), T # {}
          PROVE  g[T] = Added(g[T \ {Max(T)}], items[Max(T)])
      <3> DEFINE m == Max(T)
                 r == g[T \ {m}]
      <3>1. m \in 1 .. n /\ r \in Bags /\ g[T] = h[m][r]
        BY <1>5, <2>1, Zenon DEF LeftFoldOf
      <3> HIDE DEF m, r
      <3>2. g[T] = Added(r, items[m])
        BY <1>3, <3>1, Zenon
      <3> QED
        BY <3>2, Zenon DEF m, r
    <2> QED
      BY <1>5, <2>1 DEF LeftFoldOf
  <1> DEFINE f == CHOOSE f : Eq(f)
  <1>7. Eq(f)
    BY <1>6, Zenon
  <1>8. /\ f[{}] = z
        /\ \A T \in (SUBSET (1 .. n)) \ {{}} :
              f[T] = Added(f[T \ {Max(T)}], items[Max(T)])
    <2> HIDE DEF f
    <2> QED
      BY <1>7
  <1> HIDE DEF f, Eq
  <1>9. ASSUME NEW T \in (SUBSET (1 .. n)) \ {{}}, f[T \ {Max(T)}] \in Bags
        PROVE  f[T] = h[Max(T)][f[T \ {Max(T)}]]
    <2> DEFINE m == Max(T)
               r == f[T \ {m}]
    <2>1. m \in 1 .. n /\ r \in Bags /\ f[T] = Added(r, items[m])
      BY <1>5, <1>8, <1>9, Zenon DEF LeftFoldOf
    <2> HIDE DEF m, r
    <2>2. f[T] = h[m][r]
      BY <1>3, <2>1, Zenon
    <2> QED
      BY <2>2, Zenon DEF m, r
  <1>10. Follows(n, Bags, z, h, f)
    BY <1>8, <1>9, Zenon DEF Follows
  <1>11. PICK F : Runs(n, Bags, z, h, F, f[1 .. n])
    BY <1>2, <1>4, <1>10, FoldRun, Zenon
  <1>12. \A k \in 1 .. n : F[k] = Added(F[k - 1], items[k])
    BY <1>3, <1>11, Zenon DEF Runs
  <1> QED
    BY <1>1, <1>11, <1>12, Zenon DEF AddedRun, Runs, f, z

-----------------------------------------------------------------------------
(* A sequence of items finds room, and nothing of it is lost or doubled.      *)

Distinct(b) == \A s, t \in Slots : b[s] # Empty /\ b[t] # Empty /\ SameObject(b[s], b[t]) => s = t

\* Nothing in the bag is among the items, and no two items are the same.
Foreign(b, n, items) ==
    \A k \in 1 .. n : /\ \A s \in Slots : b[s] # Empty => ~SameObject(b[s], items[k])
                      /\ \A j \in 1 .. n : j # k => ~SameObject(items[j], items[k])

\* Everything in c comes from b or from the first k items.
Known(b, k, items, c) ==
    \A s \in Slots : c[s] # Empty =>
        \/ \E t \in Slots : b[t] # Empty /\ SameObject(c[s], b[t])
        \/ \E j \in 1 .. k : SameObject(c[s], items[j])

Finds(b, n, items, F) ==
    /\ F \in [0 .. n -> Bags] /\ F[0] = b
    /\ \A k \in 1 .. n : FreeSlots(F[k - 1]) # {} => Takes(F[k - 1], items[k], F[k])

LEMMA EmptyStays ==
    ASSUME NEW b \in Bags, NEW c \in Bags, NEW s \in Slots, SameObject(c[s], b[s])
    PROVE  c[s] = Empty <=> b[s] = Empty
  <1>1. b[s] \in Things /\ c[s] \in Things
    BY DEF Bags
  <1> QED
    BY <1>1, ThingTypes DEF SameObject

\* One more item.
LEMMA TakesOne ==
    ASSUME NEW b \in Bags, NEW c \in Bags, NEW i \in Item, Takes(b, i, c)
    PROVE  /\ Cardinality(FreeSlots(c)) + 1 >= Cardinality(FreeSlots(b))
           /\ (Distinct(b) /\ (\A s \in Slots : b[s] # Empty => ~SameObject(b[s], i)) => Distinct(c))
           /\ \A s \in Slots : c[s] # Empty =>
                 SameObject(c[s], i) \/ (b[s] # Empty /\ SameObject(c[s], b[s]))
  <1>1. PICK z \in Slots \cup {0} : TakesAt(b, i, c, z)
    BY DEF Takes
  <1>2. i # Empty
    BY ThingTypes
  <1>3. ASSUME NEW s \in Slots \ {z}
        PROVE  SameObject(c[s], b[s]) /\ (c[s] = Empty <=> b[s] = Empty)
    BY <1>1, EmptyStays DEF TakesAt
  <1>4. z \in Slots => b[z] = Empty /\ c[z] = i
    BY <1>1 DEF TakesAt
  <1>5. \A s \in Slots : c[s] # Empty =>
           SameObject(c[s], i) \/ (b[s] # Empty /\ SameObject(c[s], b[s]))
    BY <1>3, <1>4 DEF SameObject
  <1>6. Cardinality(FreeSlots(c)) + 1 >= Cardinality(FreeSlots(b))
    <2>1. IsFiniteSet(FreeSlots(b)) /\ IsFiniteSet(FreeSlots(c))
      BY SlotsFinite, FS_Subset DEF FreeSlots
    <2>2. FreeSlots(b) \ {z} \subseteq FreeSlots(c)
      BY <1>3 DEF FreeSlots
    <2>3. Cardinality(FreeSlots(b) \ {z}) <= Cardinality(FreeSlots(c))
      BY <2>1, <2>2, FS_Subset
    <2>4. Cardinality(FreeSlots(b) \ {z}) \in {Cardinality(FreeSlots(b)), Cardinality(FreeSlots(b)) - 1}
      BY <2>1, FS_RemoveElement
    <2>5. Cardinality(FreeSlots(b)) \in Nat /\ Cardinality(FreeSlots(c)) \in Nat
      BY <2>1, FS_CardinalityType
    <2> DEFINE x == Cardinality(FreeSlots(b))
               y == Cardinality(FreeSlots(c))
               m == Cardinality(FreeSlots(b) \ {z})
    <2>6. x \in Nat /\ y \in Nat /\ m <= y /\ m \in {x, x - 1}
      BY <2>3, <2>4, <2>5, Zenon
    <2> HIDE DEF x, y, m
    <2>7. y + 1 >= x
      BY <2>6
    <2> QED
      BY <2>7 DEF x, y
  <1>7. ASSUME Distinct(b), \A s \in Slots : b[s] # Empty => ~SameObject(b[s], i),
               NEW s \in Slots, NEW t \in Slots, c[s] # Empty, c[t] # Empty, SameObject(c[s], c[t])
        PROVE  s = t
    <2>1. CASE s # z /\ t # z
      <3>1. b[s] # Empty /\ b[t] # Empty /\ SameObject(b[s], b[t])
        BY <1>3, <1>7, <2>1 DEF SameObject
      <3> QED
        BY <1>7, <3>1 DEF Distinct
    <2>2. CASE s = z /\ t # z
      BY <1>3, <1>4, <1>7, <2>2 DEF SameObject
    <2>3. CASE s # z /\ t = z
      BY <1>3, <1>4, <1>7, <2>3 DEF SameObject
    <2> QED
      BY <2>1, <2>2, <2>3
  <1> QED
    BY <1>5, <1>6, <1>7 DEF Distinct

LEMMA FindsAll ==
    ASSUME NEW b \in Bags, NEW n \in Nat, NEW items \in [1 .. n -> Item], NEW F,
           Finds(b, n, items, F), Cardinality(FreeSlots(b)) >= n,
           Distinct(b), Foreign(b, n, items)
    PROVE  /\ F[n] \in Bags /\ Distinct(F[n]) /\ Known(b, n, items, F[n])
           /\ Units(F[n]) = Units(b) + Total([k \in 1 .. n |-> items[k].num], 1 .. n)
  <1> DEFINE w == [k \in 1 .. n |-> items[k].num]
             J(k) == /\ Distinct(F[k]) /\ Known(b, k, items, F[k])
                     /\ Cardinality(FreeSlots(F[k])) >= n - k
                     /\ Units(F[k]) = Units(b) + Total(w, 1 .. k)
             K == {k \in Nat : k <= n => J(k)}
  <1>1. F \in [0 .. n -> Bags] /\ F[0] = b
    BY DEF Finds
  <1>2. \A k \in 1 .. n : w[k] = items[k].num /\ w[k] \in Int
    BY ThingTypes
  <1> HIDE DEF w
  <1>3. Units(b) \in Int /\ Cardinality(FreeSlots(b)) \in Nat
    BY UnitsType, SlotsFinite, FS_Subset, FS_CardinalityType DEF FreeSlots
  <1>4. 0 \in K
    <2>1. Total(w, {}) = 0 /\ 1 .. 0 = {}
      BY SumType, FS_EmptySet
    <2>2. Known(b, 0, items, F[0])
      BY <1>1 DEF Known, SameObject
    <2>3. Units(F[0]) = Units(b) + Total(w, 1 .. 0)
      BY <1>1, <1>3, <2>1
    <2>4. Cardinality(FreeSlots(F[0])) >= n - 0 /\ Distinct(F[0])
      BY <1>1
    <2> QED
      BY <2>2, <2>3, <2>4
  <1>5. ASSUME NEW k \in K PROVE k + 1 \in K
    <2> SUFFICES ASSUME k + 1 <= n PROVE J(k + 1)
      OBVIOUS
    <2>1. k \in Nat /\ J(k) /\ k + 1 \in 1 .. n /\ k \in 0 .. n /\ k + 1 \in 0 .. n /\ (k + 1) - 1 = k
      OBVIOUS
    <2> DEFINE d == F[k]
               c == F[k + 1]
               i == items[k + 1]
    <2>2. /\ Distinct(d) /\ Known(b, k, items, d) /\ Cardinality(FreeSlots(d)) >= n - k
          /\ Units(d) = Units(b) + Total(w, 1 .. k)
      BY <2>1, Zenon
    <2>3. d \in Bags /\ c \in Bags /\ i \in Item
      BY <1>1, <2>1
    <2>4. FreeSlots(d) # {}
      <3> SUFFICES ASSUME FreeSlots(d) = {} PROVE FALSE
        OBVIOUS
      <3>1. Cardinality(FreeSlots(d)) = 0
        BY FS_EmptySet, Zenon
      <3> DEFINE m == Cardinality(FreeSlots(d))
      <3>2. m = 0 /\ m >= n - k
        BY <2>2, <3>1, Zenon
      <3> HIDE DEF m
      <3> QED
        BY <2>1, <3>2
    <2>5. Takes(d, i, c)
      <3>1. FreeSlots(F[(k + 1) - 1]) # {} => Takes(F[(k + 1) - 1], items[k + 1], F[k + 1])
        BY <2>1, Zenon DEF Finds
      <3> QED
        BY <2>1, <2>4, <3>1
    <2>6. \A s \in Slots : d[s] # Empty => ~SameObject(d[s], i)
      <3> SUFFICES ASSUME NEW s \in Slots, d[s] # Empty, SameObject(d[s], i) PROVE FALSE
        OBVIOUS
      <3>1. CASE \E t \in Slots : b[t] # Empty /\ SameObject(d[s], b[t])
        <4>1. PICK t \in Slots : b[t] # Empty /\ SameObject(b[t], i)
          BY <3>1 DEF SameObject
        <4> QED
          BY <2>1, <4>1 DEF Foreign
      <3>2. CASE \E j \in 1 .. k : SameObject(d[s], items[j])
        <4>1. PICK j \in 1 .. k : SameObject(items[j], i)
          BY <3>2 DEF SameObject
        <4>2. j \in 1 .. n /\ j # k + 1
          BY <2>1
        <4> QED
          BY <2>1, <4>1, <4>2 DEF Foreign
      <3> QED
        BY <2>2, <3>1, <3>2 DEF Known
    <2> HIDE DEF d, c, i
    <2>7. /\ Cardinality(FreeSlots(c)) + 1 >= Cardinality(FreeSlots(d))
          /\ Distinct(c)
          /\ \A s \in Slots : c[s] # Empty =>
                SameObject(c[s], i) \/ (d[s] # Empty /\ SameObject(c[s], d[s]))
      BY <2>2, <2>3, <2>5, <2>6, TakesOne
    <2>8. Known(b, k + 1, items, c)
      <3> SUFFICES ASSUME NEW s \in Slots, c[s] # Empty
                   PROVE  \/ \E t \in Slots : b[t] # Empty /\ SameObject(c[s], b[t])
                          \/ \E j \in 1 .. (k + 1) : SameObject(c[s], items[j])
        BY DEF Known
      <3>1. CASE SameObject(c[s], i)
        <4>1. k + 1 \in 1 .. (k + 1)
          BY <2>1
        <4> QED
          BY <3>1, <4>1 DEF i
      <3>2. CASE d[s] # Empty /\ SameObject(c[s], d[s])
        <4>1. CASE \E t \in Slots : b[t] # Empty /\ SameObject(d[s], b[t])
          BY <3>2, <4>1 DEF SameObject
        <4>2. CASE \E j \in 1 .. k : SameObject(d[s], items[j])
          <5>1. PICK j \in 1 .. k : SameObject(d[s], items[j])
            BY <4>2
          <5>2. j \in 1 .. (k + 1)
            BY <2>1
          <5> QED
            BY <3>2, <5>1, <5>2 DEF SameObject
        <4> QED
          BY <2>2, <3>2, <4>1, <4>2 DEF Known
      <3> QED
        BY <2>7, <3>1, <3>2
    <2>9. Cardinality(FreeSlots(c)) >= n - (k + 1)
      <3>1. Cardinality(FreeSlots(c)) \in Nat /\ Cardinality(FreeSlots(d)) \in Nat
        BY SlotsFinite, FS_Subset, FS_CardinalityType DEF FreeSlots
      <3> QED
        BY <2>1, <2>2, <2>7, <3>1
    <2>10. Units(c) = Units(b) + Total(w, 1 .. (k + 1))
      <3>1. (1 .. (k + 1)) \ {k + 1} = 1 .. k /\ k + 1 \in 1 .. (k + 1)
        BY <2>1
      <3>2. IsFiniteSet(1 .. (k + 1)) /\ IsFiniteSet(1 .. k)
        BY <2>1, FS_Interval
      <3>3. (\A x \in 1 .. (k + 1) : w[x] \in Int) /\ (\A x \in 1 .. k : w[x] \in Int)
        BY <1>2, <2>1
      <3>4. Total(w, 1 .. (k + 1)) = w[k + 1] + Total(w, (1 .. (k + 1)) \ {k + 1})
        BY <3>1, <3>2, <3>3, SumRemove
      <3>5. Total(w, 1 .. k) \in Int
        BY <3>2, <3>3, SumType
      <3>6. w[k + 1] = i.num /\ w[k + 1] \in Int
        BY <1>2, <2>1 DEF i
      <3>7. Units(c) = Units(d) + i.num
        BY <2>5 DEF Takes
      <3> DEFINE x == Total(w, 1 .. k)
                 y == Total(w, 1 .. (k + 1))
      <3>8. y = i.num + x /\ Units(d) = Units(b) + x /\ x \in Int /\ i.num \in Int
        BY <2>2, <3>1, <3>4, <3>5, <3>6, Zenon
      <3> HIDE DEF x, y
      <3>9. Units(c) = Units(b) + y
        BY <1>3, <3>7, <3>8
      <3> QED
        BY <3>9 DEF y
    <2> QED
      BY <2>7, <2>8, <2>9, <2>10 DEF c
  <1>6. K = Nat
    <2> HIDE DEF K
    <2>1. K \subseteq Nat
      BY DEF K
    <2> QED
      BY <1>4, <1>5, <2>1, NatSetInduction
  <1>7. J(n)
    <2>1. n <= n
      OBVIOUS
    <2> HIDE DEF J
    <2> QED
      BY <1>6, <2>1
  <1>8. F[n] \in Bags
    BY <1>1
  <1> QED
    BY <1>7, <1>8 DEF w

LEMMA PlacedFinds ==
    ASSUME NEW b \in Bags, NEW n \in Nat, NEW items \in [1 .. n -> Item], NEW F,
           PlacedRun(b, n, items, F)
    PROVE  Finds(b, n, items, F)
  <1>1. ASSUME NEW k \in 1 .. n, FreeSlots(F[k - 1]) # {}
        PROVE  Takes(F[k - 1], items[k], F[k])
    <2>1. F[k - 1] \in Bags /\ items[k] \in Item /\ F[k] = Placed(F[k - 1], items[k])
      BY DEF PlacedRun
    <2> QED
      BY <1>1, <2>1, PlacedTakes
  <1> QED
    BY <1>1 DEF PlacedRun, Finds

LEMMA AddedFinds ==
    ASSUME NEW b \in Bags, NEW n \in Nat, NEW items \in [1 .. n -> Item], NEW F,
           AddedRun(b, n, items, F)
    PROVE  Finds(b, n, items, F)
  <1>1. ASSUME NEW k \in 1 .. n, FreeSlots(F[k - 1]) # {}
        PROVE  Takes(F[k - 1], items[k], F[k])
    <2>1. F[k - 1] \in Bags /\ items[k] \in Item /\ F[k] = Added(F[k - 1], items[k])
      BY DEF AddedRun
    <2> QED
      BY <1>1, <2>1, AddedTakes
  <1> QED
    BY <1>1 DEF AddedRun, Finds

-----------------------------------------------------------------------------
(* Every object lies at one place, and what is there is counted.              *)

\* Objects at different places differ in both address and ID.
Apart ==
    \A p, q \in Players, s, t \in Slots :
        /\ bag[p][s] # Empty /\ bag[q][t] # Empty
        /\ bag[p][s].ptr = bag[q][t].ptr \/ bag[p][s].id = bag[q][t].id
        => p = q /\ s = t

Numbered ==
    /\ nextID \in Int /\ Many < nextID /\ nextID <= Many + 1 + moves
    /\ \A p \in Players, s \in Slots : bag[p][s].id < nextID

Held == [p \in Players |-> Units(bag[p])]

Counted == Total(Held, Players) + world.units = Many + MaxMoves

Stock ==
    /\ bag \in [Players -> Bags]
    /\ DOMAIN world = {"units", "money"} /\ world.units \in Nat
    /\ Numbered /\ Apart /\ Counted

\* There is always an address left.
LEMMA NewPtrFree ==
    ASSUME bag \in [Players -> Bags]
    PROVE  NewPtr \in Ptrs /\ \A p \in Players, s \in Slots : bag[p][s].ptr # NewPtr
  <1> DEFINE used == {bag[p][s].ptr : p \in Players, s \in Slots}
             places == Players \X Slots
             f == [x \in places |-> bag[x[1]][x[2]].ptr]
             size == Many * NSlots
  <1>1. IsFiniteSet(places) /\ Cardinality(places) = size
    <2>1. IsFiniteSet(Players) /\ IsFiniteSet(Slots) /\ Cardinality(Slots) = NSlots
      BY PlayersFinite, SlotsFinite
    <2> QED
      BY <2>1, FS_Product DEF Many
  <1>2. size \in Nat
    BY <1>1, FS_CardinalityType
  <1>3. f \in Surjection(places, used)
    <2>1. f \in [places -> used]
      OBVIOUS
    <2>2. ASSUME NEW u \in used PROVE \E x \in places : f[x] = u
      <3>1. PICK p \in Players, s \in Slots : u = bag[p][s].ptr
        OBVIOUS
      <3>2. <<p, s>> \in places /\ f[<<p, s>>] = u
        BY <3>1
      <3> QED
        BY <3>2
    <2> HIDE DEF f, used, places
    <2> QED
      BY <2>1, <2>2 DEF Surjection
  <1>4. Ptrs = 1 .. size + 1
    BY DEF Ptrs
  <1>5. \A p \in Players, s \in Slots : bag[p][s].ptr \in used
    OBVIOUS
  <1> HIDE DEF used, places, f, size
  <1>6. IsFiniteSet(used) /\ Cardinality(used) <= size /\ Cardinality(used) \in Nat
    <2>1. IsFiniteSet(used) /\ Cardinality(used) <= Cardinality(places)
      BY <1>1, <1>3, FS_Surjection
    <2> QED
      BY <1>1, <2>1, FS_CardinalityType
  <1>7. IsFiniteSet(Ptrs) /\ Cardinality(Ptrs) = size + 1
    <2>1. 1 \in Int /\ size + 1 \in Int /\ ~(1 > size + 1) /\ size + 1 - 1 + 1 = size + 1
      BY <1>2
    <2>2. IsFiniteSet(1 .. size + 1) /\ Cardinality(1 .. size + 1) = size + 1
      BY <2>1, FS_Interval
    <2> QED
      BY <1>4, <2>2
  <1>8. Ptrs \ used # {}
    <2> SUFFICES ASSUME Ptrs \subseteq used PROVE FALSE
      OBVIOUS
    <2>1. Cardinality(Ptrs) <= Cardinality(used)
      BY <1>6, FS_Subset
    <2> QED
      BY <1>2, <1>6, <1>7, <2>1
  <1>9. Ptrs \ used \subseteq Nat
    BY <1>2, <1>4
  <1>10. \E a \in Ptrs \ used : \A b \in Ptrs \ used : a <= b
    BY <1>8, <1>9, LeastElement
  <1>11. NewPtr \in Ptrs \ used
    BY <1>10 DEF NewPtr, used
  <1> QED
    BY <1>5, <1>11

NewObject(i) == i.ptr = NewPtr /\ i.id = nextID

LEMMA NewItem ==
    ASSUME Stock, moves \in 0 .. MaxMoves, Move, NEW i, DOMAIN i = {"ptr", "id", "num"}, NewObject(i), i.num \in 1 .. MaxStack,
           i = [ptr |-> NewPtr, id |-> nextID, num |-> i.num]
    PROVE  /\ i \in Item /\ nextID + 1 \in Int /\ Many < nextID + 1 /\ nextID + 1 <= Many + 1 + moves'
           /\ \A p \in Players, s \in Slots : bag[p][s] # Empty =>
                 bag[p][s].ptr # i.ptr /\ bag[p][s].id # i.id
  <1>1. NewPtr \in Ptrs /\ \A p \in Players, s \in Slots : bag[p][s].ptr # NewPtr
    BY NewPtrFree DEF Stock
  <1>2. nextID \in 1 .. MaxID
    BY PlayersFinite, TradingAssumption DEF Stock, Numbered, MaxID, Move
  <1>3. i \in Item
    BY <1>1, <1>2 DEF Item
  <1>4. nextID + 1 \in Int /\ Many < nextID + 1 /\ nextID + 1 <= Many + 1 + moves'
    BY PlayersFinite, TradingAssumption DEF Stock, Numbered, Move
  <1>5. \A p \in Players, s \in Slots : bag[p][s].id # nextID
    <2> SUFFICES ASSUME NEW p \in Players, NEW s \in Slots PROVE bag[p][s].id # nextID
      OBVIOUS
    <2>1. bag[p][s].id < nextID /\ nextID \in Int
      BY DEF Stock, Numbered
    <2>2. bag[p][s] \in Things
      BY DEF Stock, Bags
    <2>3. bag[p][s].id \in Int
      BY <2>2, ThingTypes DEF Item
    <2> QED
      BY <2>1, <2>3
  <1> QED
    BY <1>1, <1>3, <1>4, <1>5 DEF NewObject

-----------------------------------------------------------------------------
(* How bags may change.                                                       *)

AllDistinct ==
    \A p, q \in Players, s, t \in Slots :
        bag[p][s] # Empty /\ bag[q][t] # Empty /\ SameObject(bag[p][s], bag[q][t])
        => p = q /\ s = t

\* What is known by name lay at the place x.
Was(i, x) == bag[x[1]][x[2]] # Empty /\ SameObject(i, bag[x[1]][x[2]])

LEMMA StaysApart ==
    ASSUME Stock, NEW x \in Players \X Slots, NEW y \in Players \X Slots, NEW i, NEW j,
           Was(i, x), Was(j, y), i.ptr = j.ptr \/ i.id = j.id
    PROVE  x = y /\ SameObject(i, j)
  <1>1. x[1] \in Players /\ y[1] \in Players /\ x[2] \in Slots /\ y[2] \in Slots
        /\ x = <<x[1], x[2]>> /\ y = <<y[1], y[2]>>
    OBVIOUS
  <1> DEFINE a == bag[x[1]][x[2]]
             b == bag[y[1]][y[2]]
  <1>2. a # Empty /\ b # Empty /\ i.ptr = a.ptr /\ i.id = a.id /\ j.ptr = b.ptr /\ j.id = b.id
    BY DEF Was, SameObject
  <1>3. x[1] = y[1] /\ x[2] = y[2]
    <2>1. a.ptr = b.ptr \/ a.id = b.id
      BY <1>2
    <2> QED
      BY <1>1, <1>2, <2>1, Zenon DEF Stock, Apart
  <1>4. x = y
    BY <1>1, <1>3
  <1> QED
    BY <1>2, <1>4 DEF SameObject

\* Objects come from somewhere, or are new, and lie at one place each.
LEMMA ApartFrom ==
    ASSUME Stock, AllDistinct',
           \A p \in Players, s \in Slots : bag'[p][s] # Empty =>
              (\E x \in Players \X Slots : Was(bag'[p][s], x)) \/ NewObject(bag'[p][s])
    PROVE  Apart'
  <1>1. ASSUME NEW p \in Players, NEW q \in Players, NEW s \in Slots, NEW t \in Slots,
               bag'[p][s] # Empty, bag'[q][t] # Empty,
               bag'[p][s].ptr = bag'[q][t].ptr \/ bag'[p][s].id = bag'[q][t].id
        PROVE  SameObject(bag'[p][s], bag'[q][t])
    <2> DEFINE i == bag'[p][s]
               j == bag'[q][t]
    <2>1. (\E x \in Players \X Slots : Was(i, x)) \/ NewObject(i)
      BY <1>1
    <2>2. (\E x \in Players \X Slots : Was(j, x)) \/ NewObject(j)
      BY <1>1
    <2>3. i.ptr = j.ptr \/ i.id = j.id
      BY <1>1
    <2> SUFFICES SameObject(i, j)
      OBVIOUS
    <2> HIDE DEF i, j
    <2>4. CASE NewObject(i) /\ NewObject(j)
      BY <2>4 DEF NewObject, SameObject
    <2>5. ASSUME NEW a, NEW b, NewObject(a), NEW x \in Players \X Slots, Was(b, x)
          PROVE  a.ptr # b.ptr /\ a.id # b.id
      <3>1. x[1] \in Players /\ x[2] \in Slots
        OBVIOUS
      <3> DEFINE c == bag[x[1]][x[2]]
      <3>2. a.ptr = NewPtr /\ a.id = nextID /\ b.ptr = c.ptr /\ b.id = c.id
        BY <2>5 DEF NewObject, Was, SameObject
      <3>3. c.ptr # NewPtr
        BY <3>1, NewPtrFree DEF Stock
      <3>4. c.id < nextID /\ nextID \in Int
        BY <3>1 DEF Stock, Numbered
      <3>5. c \in Things
        BY <3>1 DEF Stock, Bags
      <3>6. c.id \in Int
        BY <3>5, ThingTypes DEF Item
      <3> HIDE DEF c
      <3> QED
        BY <3>2, <3>3, <3>4, <3>6
    <2>6. CASE NewObject(i) /\ ~NewObject(j)
      BY <2>2, <2>3, <2>5, <2>6
    <2>7. CASE NewObject(j) /\ ~NewObject(i)
      BY <2>1, <2>3, <2>5, <2>7
    <2>8. CASE ~NewObject(i) /\ ~NewObject(j)
      BY <2>1, <2>2, <2>3, <2>8, StaysApart
    <2> QED
      BY <2>4, <2>6, <2>7, <2>8
  <1>2. ASSUME NEW p \in Players, NEW q \in Players, NEW s \in Slots, NEW t \in Slots,
               bag'[p][s] # Empty, bag'[q][t] # Empty,
               SameObject(bag'[p][s], bag'[q][t])
        PROVE  p = q /\ s = t
    BY <1>2 DEF AllDistinct
  <1> QED
    BY <1>1, <1>2 DEF Apart

\* One bag changes, by what becomes of its own things or is new.
LEMMA OneBag ==
    ASSUME Stock, NEW p \in Players, NEW c \in Bags, SetBag(p, c), Distinct(c),
           \A s \in Slots : c[s] # Empty =>
              (\E t \in Slots : bag[p][t] # Empty /\ SameObject(c[s], bag[p][t])) \/ NewObject(c[s]),
           DOMAIN world' = {"units", "money"}, world'.units \in Nat,
           Units(c) + world'.units = Units(bag[p]) + world.units,
           nextID' \in Int, nextID <= nextID', nextID' <= Many + 1 + moves',
           \A s \in Slots : c[s].id < nextID'
    PROVE  Stock'
  <1>1. /\ bag' \in [Players -> Bags] /\ bag'[p] = c
        /\ \A q \in Players \ {p} : bag'[q] = bag[q]
    BY DEF SetBag, Stock
  <1>2. bag \in [Players -> Bags]
    BY DEF Stock
  <1>3. ASSUME NEW q \in Players, NEW s \in Slots, bag'[q][s] # Empty
        PROVE  \/ \E t \in Slots : <<q, t>> \in Players \X Slots /\ Was(bag'[q][s], <<q, t>>)
               \/ q = p /\ NewObject(bag'[q][s])
    <2>1. CASE q = p
      <3>1. CASE NewObject(c[s])
        BY <1>1, <2>1, <3>1
      <3>2. ASSUME NEW t \in Slots, bag[p][t] # Empty, SameObject(c[s], bag[p][t])
            PROVE  \E u \in Slots : <<q, u>> \in Players \X Slots /\ Was(bag'[q][s], <<q, u>>)
        BY <1>1, <2>1, <3>2 DEF Was
      <3> QED
        BY <1>1, <1>3, <2>1, <3>1, <3>2
    <2>2. CASE q # p
      <3>1. Was(bag'[q][s], <<q, s>>)
        BY <1>1, <1>3, <2>2 DEF Was, SameObject
      <3> QED
        BY <3>1
    <2> QED
      BY <2>1, <2>2
  <1>4. ASSUME NEW q \in Players, NEW r \in Players, NEW s \in Slots, NEW t \in Slots,
               bag'[q][s] # Empty, bag'[r][t] # Empty, SameObject(bag'[q][s], bag'[r][t])
        PROVE  q = r /\ s = t
    <2> DEFINE i == bag'[q][s]
               j == bag'[r][t]
    <2>1. i.ptr = j.ptr /\ i.id = j.id
      BY <1>4 DEF SameObject
    <2>2. ASSUME q # r PROVE FALSE
      <3>1. ASSUME NEW u \in Slots, Was(i, <<q, u>>), NEW v \in Slots, Was(j, <<r, v>>)
            PROVE  FALSE
        <4>1. <<q, u>> = <<r, v>>
          <5> HIDE DEF i, j
          <5>1. <<q, u>> \in Players \X Slots /\ <<r, v>> \in Players \X Slots
            OBVIOUS
          <5> QED
            BY <2>1, <3>1, <5>1, StaysApart, Zenon
        <4> QED
          BY <2>2, <4>1
      <3>2. ASSUME NEW a, NEW b, NewObject(a), NEW u \in Players, NEW v \in Slots,
                   b = bag[u][v], b # Empty, a.ptr = b.ptr
            PROVE  FALSE
        <4>1. b.ptr # NewPtr
          BY <1>2, <3>2, NewPtrFree
        <4> QED
          BY <3>2, <4>1 DEF NewObject
      <3>3. CASE q = p /\ NewObject(i)
        <4>1. j = bag[r][t] /\ j # Empty
          BY <1>1, <1>4, <2>2, <3>3
        <4> HIDE DEF i, j
        <4> QED
          BY <2>1, <3>2, <3>3, <4>1
      <3>4. CASE r = p /\ NewObject(j)
        <4>1. i = bag[q][s] /\ i # Empty
          BY <1>1, <1>4, <2>2, <3>4
        <4> HIDE DEF i, j
        <4> QED
          BY <2>1, <3>2, <3>4, <4>1
      <3> QED
        BY <1>3, <1>4, <3>1, <3>3, <3>4, Zenon
    <2>3. q = r
      BY <2>2
    <2>4. CASE q = p
      BY <1>1, <1>4, <2>3, <2>4 DEF Distinct
    <2>5. CASE q # p
      <3>1. i = bag[q][s] /\ j = bag[q][t]
        BY <1>1, <2>3, <2>5
      <3> QED
        BY <1>4, <2>1, <2>3, <3>1 DEF Stock, Apart
    <2> QED
      BY <2>3, <2>4, <2>5
  <1>5. AllDistinct'
    BY <1>4 DEF AllDistinct
  <1>6. Apart'
    <2>1. ASSUME NEW q \in Players, NEW s \in Slots, bag'[q][s] # Empty
          PROVE  (\E x \in Players \X Slots : Was(bag'[q][s], x)) \/ NewObject(bag'[q][s])
      BY <1>3, <2>1, Zenon
    <2> QED
      BY <1>5, <2>1, ApartFrom
  <1>7. Numbered'
    <2>1. ASSUME NEW q \in Players, NEW s \in Slots PROVE bag'[q][s].id < nextID'
      <3>1. CASE q = p
        BY <1>1, <3>1
      <3>2. CASE q # p
        <4>1. bag'[q][s] = bag[q][s] /\ bag[q][s] \in Things
          BY <1>1, <1>2, <3>2 DEF Bags
        <4>2. bag[q][s].id \in Int
          BY <4>1, ThingTypes DEF Item
        <4>3. bag[q][s].id < nextID /\ nextID \in Int
          BY DEF Stock, Numbered
        <4> QED
          BY <4>1, <4>2, <4>3
      <3> QED
        BY <3>1, <3>2
    <2>2. Many < nextID'
      BY PlayersFinite DEF Stock, Numbered
    <2> QED
      BY <2>1, <2>2 DEF Numbered
  <1>8. Counted'
    <2>1. \A q \in Players : Held[q] = Units(bag[q]) /\ Held'[q] = Units(bag'[q])
      BY DEF Held
    <2>2. \A q \in Players : Held[q] \in Int /\ Held'[q] \in Int
      BY <1>1, <1>2, <2>1, UnitsType
    <2>3. \A q \in Players \ {p} : Held'[q] = Held[q]
      BY <1>1, <2>1
    <2>4. Total(Held', Players) = Total(Held, Players) + Held'[p] - Held[p]
      BY <2>2, <2>3, PlayersFinite, SumChange
    <2>5. Total(Held, Players) \in Int
      BY <2>2, PlayersFinite, SumType
    <2>6. Held'[p] + world'.units = Held[p] + world.units
      BY <1>1, <2>1
    <2>7. Total(Held, Players) + world.units = Many + MaxMoves /\ world.units \in Int
      BY DEF Stock, Counted
    <2>8. Total(Held', Players) + world'.units = Many + MaxMoves
      <3> DEFINE x == Total(Held, Players)
                 y == Total(Held', Players)
                 u == Held[p]
                 v == Held'[p]
      <3>1. y = x + v - u /\ x \in Int /\ u \in Int /\ v \in Int /\ v + world'.units = u + world.units
        BY <2>2, <2>4, <2>5, <2>6
      <3> HIDE DEF x, y, u, v
      <3>2. y + world'.units = x + world.units
        BY <2>7, <3>1
      <3> QED
        BY <2>7, <3>2 DEF x, y
    <2> QED
      BY <2>8 DEF Counted
  <1> QED
    BY <1>1, <1>6, <1>7, <1>8 DEF Stock

\* Everything in the bag c lay at one of the places X.
From(c, X) == \A s \in Slots : c[s] # Empty => \E x \in X : Was(c[s], x)

\* Two bags change, by what lay in them.
LEMMA TwoBags ==
    ASSUME Stock, NEW p \in Players, NEW q \in Players, p # q,
           NEW c \in Bags, NEW d \in Bags, Distinct(c), Distinct(d),
           NEW X, NEW Y, X \subseteq {p, q} \X Slots, Y \subseteq {p, q} \X Slots, X \cap Y = {},
           From(c, X), From(d, Y),
           bag' = [bag EXCEPT ![p] = c, ![q] = d],
           Units(c) + Units(d) = Units(bag[p]) + Units(bag[q]),
           UNCHANGED <<world, nextID, moves>>
    PROVE  Stock'
  <1>1. bag \in [Players -> Bags]
    BY DEF Stock
  <1>2. /\ bag' \in [Players -> Bags] /\ bag'[p] = c /\ bag'[q] = d
        /\ \A r \in Players \ {p, q} : bag'[r] = bag[r]
    BY <1>1
  <1> DEFINE Z(r) == IF r = p THEN X ELSE IF r = q THEN Y ELSE {r} \X Slots
  <1>3. /\ \A r \in Players : Z(r) \subseteq Players \X Slots
        /\ \A r, t \in Players : r # t => Z(r) \cap Z(t) = {}
    <2>1. \A r \in Players : Z(r) \subseteq Players \X Slots
      OBVIOUS
    <2>2. \A r \in Players \ {p, q} : \A x \in Z(r) : x[1] = r
      OBVIOUS
    <2>3. \A r \in {p, q} : \A x \in Z(r) : x[1] \in {p, q}
      OBVIOUS
    <2>4. Z(p) \cap Z(q) = {}
      OBVIOUS
    <2> HIDE DEF Z
    <2>5. ASSUME NEW r \in Players, NEW t \in Players, r # t
          PROVE  Z(r) \cap Z(t) = {}
      <3>1. CASE r \in {p, q} /\ t \in {p, q}
        BY <2>4, <2>5, <3>1
      <3>2. CASE r \notin {p, q} \/ t \notin {p, q}
        BY <2>2, <2>3, <2>5, <3>2
      <3> QED
        BY <3>1, <3>2
    <2> QED
      BY <2>1, <2>5
  <1>4. \A r \in Players : From(bag'[r], Z(r))
    <2>1. ASSUME NEW r \in Players \ {p, q}, NEW s \in Slots, bag'[r][s] # Empty
          PROVE  \E x \in {r} \X Slots : Was(bag'[r][s], x)
      <3>1. <<r, s>> \in {r} \X Slots /\ Was(bag'[r][s], <<r, s>>)
        BY <1>2, <2>1 DEF Was, SameObject
      <3> QED
        BY <3>1
    <2>2. \A r \in Players \ {p, q} : From(bag'[r], {r} \X Slots)
      BY <2>1, Zenon DEF From
    <2>3. /\ \A r \in Players \ {p, q} : Z(r) = {r} \X Slots
          /\ Z(p) = X /\ Z(q) = Y
      OBVIOUS
    <2> HIDE DEF Z
    <2> QED
      BY <1>2, <2>2, <2>3
  <1> HIDE DEF Z
  <1>5. \A r \in Players : Distinct(bag'[r])
    <2>1. ASSUME NEW r \in Players \ {p, q} PROVE Distinct(bag[r])
      BY DEF Stock, Apart, Distinct, SameObject
    <2> QED
      BY <1>2, <2>1
  <1>6. ASSUME NEW r \in Players, NEW t \in Players, NEW s \in Slots, NEW u \in Slots,
               bag'[r][s] # Empty, bag'[t][u] # Empty, SameObject(bag'[r][s], bag'[t][u])
        PROVE  r = t /\ s = u
    <2> DEFINE i == bag'[r][s]
               j == bag'[t][u]
    <2>1. i.ptr = j.ptr
      BY <1>6 DEF SameObject
    <2>2. PICK x \in Z(r) : Was(i, x)
      BY <1>4, <1>6 DEF From
    <2>3. PICK y \in Z(t) : Was(j, y)
      BY <1>4, <1>6 DEF From
    <2> HIDE DEF i, j
    <2>4. x = y
      BY <1>3, <2>1, <2>2, <2>3, StaysApart
    <2>5. r = t
      BY <1>3, <2>4
    <2>6. s = u
      BY <1>5, <1>6, <2>5 DEF Distinct
    <2> QED
      BY <2>5, <2>6
  <1>7. AllDistinct'
    BY <1>6 DEF AllDistinct
  <1>8. ASSUME NEW r \in Players, NEW s \in Slots, bag'[r][s] # Empty
        PROVE  \E x \in Players \X Slots : Was(bag'[r][s], x)
    <2> DEFINE i == bag'[r][s]
    <2>1. PICK x \in Z(r) : Was(i, x)
      BY <1>4, <1>8 DEF From
    <2> QED
      BY <1>3, <2>1
  <1>9. Apart'
    BY <1>7, <1>8, ApartFrom
  <1>10. Numbered'
    <2>1. ASSUME NEW r \in Players, NEW s \in Slots PROVE bag'[r][s].id < nextID
      <3> DEFINE i == bag'[r][s]
      <3>1. CASE i = Empty
        <4>1. 0 < nextID
          BY PlayersFinite DEF Stock, Numbered
        <4> QED
          BY <3>1, <4>1, ThingTypes
      <3>2. CASE i # Empty
        <4>1. PICK x \in Players \X Slots : Was(i, x)
          BY <1>8, <3>2
        <4>2. x[1] \in Players /\ x[2] \in Slots
          OBVIOUS
        <4>3. bag[x[1]][x[2]].id < nextID
          BY <4>2 DEF Stock, Numbered
        <4> HIDE DEF i
        <4>4. i.id < nextID
          BY <4>1, <4>3 DEF Was, SameObject
        <4> QED
          BY <4>4 DEF i
      <3> QED
        BY <3>1, <3>2
    <2> QED
      BY <2>1 DEF Stock, Numbered
  <1>11. Counted'
    <2>1. \A r \in Players : Held[r] = Units(bag[r]) /\ Held'[r] = Units(bag'[r])
      BY DEF Held
    <2>2. \A r \in Players : Held[r] \in Int /\ Held'[r] \in Int
      BY <1>1, <1>2, <2>1, UnitsType
    <2>3. \A r \in Players \ {p, q} : Held'[r] = Held[r]
      BY <1>2, <2>1
    <2>4. Total(Held', Players) = Total(Held, Players) + Held'[p] - Held[p] + Held'[q] - Held[q]
      BY <2>2, <2>3, PlayersFinite, SumChangeTwo
    <2>5. Total(Held, Players) \in Int
      BY <2>2, PlayersFinite, SumType
    <2>6. Held'[p] + Held'[q] = Held[p] + Held[q]
      BY <1>2, <2>1
    <2>7. Total(Held', Players) = Total(Held, Players)
      <3> DEFINE x == Total(Held, Players)
                 y == Total(Held', Players)
                 u == Held[p]
                 v == Held'[p]
                 a == Held[q]
                 b == Held'[q]
      <3>1. /\ y = x + v - u + b - a /\ x \in Int /\ u \in Int /\ v \in Int /\ a \in Int /\ b \in Int
            /\ v + b = u + a
        BY <2>2, <2>4, <2>5, <2>6
      <3> HIDE DEF x, y, u, v, a, b
      <3>2. y = x
        BY <3>1
      <3> QED
        BY <3>2 DEF x, y
    <2> QED
      BY <2>7 DEF Stock, Counted
  <1> QED
    BY <1>2, <1>9, <1>10, <1>11 DEF Stock

-----------------------------------------------------------------------------
(* Players use their own things.                                              *)

LEMMA GoodNumbers ==
    ASSUME Stock, NEW p \in Players
    PROVE  /\ bag[p] \in Bags /\ Distinct(bag[p])
           /\ \A s \in Slots : bag[p][s] \in Things /\ bag[p][s].id < nextID
           /\ nextID \in Int /\ Many < nextID /\ nextID <= Many + 1 + moves /\ 0 < nextID
  <1>1. bag[p] \in Bags /\ \A s \in Slots : bag[p][s] \in Things
    BY DEF Stock, Bags
  <1>2. Distinct(bag[p])
    BY DEF Stock, Apart, Distinct, SameObject
  <1> QED
    BY <1>1, <1>2, PlayersFinite DEF Stock, Numbered

LEMMA DestroyInv ==
    ASSUME Stock, moves \in 0 .. MaxMoves, NEW p \in Players, NEW s \in Slots, DestroyItem(p, s)
    PROVE  Stock'
  <1> DEFINE b == bag[p]
             c == [b EXCEPT ![s] = Empty]
  <1>1. /\ Move /\ SetBag(p, c) /\ world' = [world EXCEPT !.units = @ + b[s].num] /\ nextID' = nextID
    BY DEF DestroyItem, Busy
  <1>2. b \in Bags /\ Distinct(b) /\ b[s] \in Things
    BY GoodNumbers
  <1>3. moves' = moves + 1 /\ moves \in Int
    BY <1>1, TradingAssumption DEF Move
  <1>4. c \in Bags /\ c[s] = Empty /\ \A t \in Slots \ {s} : c[t] = b[t]
    BY <1>2 DEF Bags, Things
  <1>5. /\ DOMAIN world' = {"units", "money"} /\ world'.units = world.units + b[s].num
        /\ world.units \in Nat
    BY <1>1 DEF Stock
  <1>6. nextID \in Int /\ nextID <= nextID' /\ nextID' <= Many + 1 + moves' /\ \A t \in Slots : b[t].id < nextID
        /\ 0 < nextID
    BY <1>1, <1>3, GoodNumbers, PlayersFinite
  <1> HIDE DEF b, c
  <1>7. Units(c) = Units(b) - b[s].num
    <2>1. Units(c) = Units(b) + c[s].num - b[s].num
      BY <1>2, <1>4, UnitsChange
    <2>2. Units(b) \in Int /\ b[s].num \in Nat /\ c[s].num = 0
      BY <1>2, <1>4, UnitsType, ThingTypes
    <2> QED
      BY <2>1, <2>2
  <1>8. world'.units \in Nat /\ Units(c) + world'.units = Units(b) + world.units
    BY <1>2, <1>5, <1>7, UnitsType
  <1>9. Distinct(c)
    BY <1>2, <1>4 DEF Distinct
  <1>10. \A t \in Slots : c[t] # Empty => \E u \in Slots : b[u] # Empty /\ SameObject(c[t], b[u])
    BY <1>4 DEF SameObject
  <1>11. \A t \in Slots : c[t].id < nextID'
    BY <1>1, <1>4, <1>6, ThingTypes
  <1> QED
    BY <1>1, <1>4, <1>5, <1>6, <1>8, <1>9, <1>10, <1>11, OneBag DEF b

LEMMA GainInv ==
    ASSUME Stock, moves \in 0 .. MaxMoves, NEW p \in Players, GainItem(p)
    PROVE  Stock'
  <1> DEFINE b == bag[p]
             i == [ptr |-> NewPtr, id |-> nextID, num |-> 1]
             c == Added(b, i)
  <1>1. /\ Move /\ SetBag(p, c) /\ nextID' = nextID + 1
        /\ FreeSlots(b) # {} \/ StackRoom(b) > 0
    BY Zenon DEF GainItem, Busy
  <1>2. world' = [world EXCEPT !.units = @ - 1] /\ world.units > 0
    BY DEF GainItem
  <1>3. /\ DOMAIN world' = {"units", "money"} /\ world'.units = world.units - 1 /\ world.units \in Nat
        /\ world'.units \in Nat
    BY <1>2 DEF Stock
  <1>4. /\ i \in Item /\ nextID + 1 \in Int /\ Many < nextID + 1 /\ nextID + 1 <= Many + 1 + moves'
        /\ \A q \in Players, s \in Slots : bag[q][s] # Empty =>
              bag[q][s].ptr # i.ptr /\ bag[q][s].id # i.id
    <2>1. DOMAIN i = {"ptr", "id", "num"} /\ NewObject(i) /\ i.num = 1
          /\ i = [ptr |-> NewPtr, id |-> nextID, num |-> i.num]
      BY DEF NewObject
    <2>2. 1 \in 1 .. MaxStack
      BY TradingAssumption
    <2> QED
      BY <1>1, <2>1, <2>2, NewItem
  <1>5. i.num = 1 /\ NewObject(i)
    BY DEF NewObject
  <1>6. b \in Bags /\ Distinct(b) /\ \A s \in Slots : b[s].id < nextID
    BY GoodNumbers
  <1>7. nextID \in Int /\ nextID <= nextID'  /\ 0 < nextID
    BY <1>1, GoodNumbers
  <1>8. \A s \in Slots : b[s] # Empty => ~SameObject(b[s], i)
    BY <1>4 DEF SameObject
  <1>9. b = bag[p] /\ c = Added(b, i)
    OBVIOUS
  <1> HIDE DEF b, i, c
  <1>10. FreeSlots(b) # {} \/ StackRoom(b) >= i.num
    <2>1. StackRoom(b) \in Int
      <3>1. PICK R : /\ R \in [0 .. NSlots -> Int] /\ R[0] = 0 /\ StackRoom(b) = R[NSlots]
                     /\ \A k \in Slots : R[k] = R[k - 1] + Room(b, k)
        BY <1>6, StackRoomSteps
      <3>2. NSlots \in 0 .. NSlots
        BY ThingTypes
      <3> QED
        BY <3>1, <3>2
    <2> QED
      BY <1>1, <1>5, <2>1
  <1>11. Takes(b, i, c)
    BY <1>4, <1>6, <1>9, <1>10, AddedTakes
  <1>12. c \in Bags /\ Units(c) = Units(b) + 1
    BY <1>5, <1>11 DEF Takes
  <1>13. /\ Distinct(c)
         /\ \A s \in Slots : c[s] # Empty =>
               SameObject(c[s], i) \/ (b[s] # Empty /\ SameObject(c[s], b[s]))
    BY <1>4, <1>6, <1>8, <1>11, <1>12, TakesOne
  <1>14. ASSUME NEW s \in Slots
         PROVE  /\ c[s] # Empty => (\E t \in Slots : b[t] # Empty /\ SameObject(c[s], b[t])) \/ NewObject(c[s])
                /\ c[s].id < nextID'
    <2>1. CASE c[s] = Empty
      BY <1>7, <2>1, ThingTypes, <1>1
    <2>2. CASE c[s] # Empty /\ SameObject(c[s], i)
      BY <1>1, <1>5, <1>7, <2>2 DEF SameObject, NewObject
    <2>3. CASE c[s] # Empty /\ b[s] # Empty /\ SameObject(c[s], b[s])
      <3>1. c[s].id = b[s].id /\ b[s].id < nextID
        BY <1>6, <2>3 DEF SameObject
      <3>2. b[s] \in Things
        BY <1>6 DEF Bags
      <3>3. b[s].id \in Int
        BY <3>2, ThingTypes DEF Item
      <3>4. c[s].id < nextID'
        BY <1>1, <1>7, <3>1, <3>3
      <3> QED
        BY <2>3, <3>4
    <2> QED
      BY <1>13, <2>1, <2>2, <2>3
  <1>15. Units(c) + world'.units = Units(b) + world.units
    BY <1>3, <1>6, <1>12, UnitsType
  <1> QED
    BY <1>1, <1>3, <1>4, <1>7, <1>9, <1>12, <1>13, <1>14, <1>15, OneBag

\* x and y lie now where b[s] and b[t] lay.
LEMMA MovedInv ==
    ASSUME Stock, moves \in 0 .. MaxMoves, Move, NEW p \in Players, NEW s \in Slots, NEW t \in Slots, s # t,
           NEW b, b = bag[p], b[s] # Empty, NEW x \in Things, NEW y \in Things,
           SetBag(p, [b EXCEPT ![s] = x, ![t] = y]), UNCHANGED world,
           x.num + y.num = b[s].num + b[t].num,
           x # Empty => SameObject(x, b[s]),
           \/ b[t] # Empty /\ SameObject(y, b[t]) /\ nextID' = nextID
           \/ x = Empty /\ SameObject(y, b[s]) /\ nextID' = nextID
           \/ NewObject(y) /\ nextID' = nextID + 1
    PROVE  Stock'
  <1> DEFINE c == [b EXCEPT ![s] = x, ![t] = y]
  <1>1. /\ b \in Bags /\ Distinct(b) /\ \A u \in Slots : b[u] \in Things /\ b[u].id < nextID
        /\ nextID \in Int /\ Many < nextID /\ nextID <= Many + 1 + moves /\ 0 < nextID
    BY GoodNumbers
  <1>2. moves' = moves + 1 /\ moves \in Int /\ Many \in Int
    BY PlayersFinite, TradingAssumption DEF Move
  <1>3. c \in Bags /\ c[s] = x /\ c[t] = y /\ \A u \in Slots \ {s, t} : c[u] = b[u]
    BY <1>1 DEF Bags
  <1>4. SetBag(p, c)
    OBVIOUS
  <1> HIDE DEF c
  <1>5. Units(c) = Units(b)
    <2>1. Units(c) = Units(b) + c[s].num - b[s].num + c[t].num - b[t].num
      BY <1>1, <1>3, UnitsChangeTwo
    <2>2. /\ Units(b) \in Int /\ b[s].num \in Nat /\ b[t].num \in Nat
          /\ c[s].num \in Nat /\ c[t].num \in Nat
      BY <1>1, <1>3, UnitsType
    <2>3. c[s].num + c[t].num = b[s].num + b[t].num
      BY <1>3
    <2> QED
      BY <2>1, <2>2, <2>3
  <1>6. \A u \in Slots : b[u].id \in Int /\ b[u].id # nextID
    <2>1. \A u \in Slots : b[u].id \in Int
      BY <1>1, ThingTypes DEF Item
    <2> QED
      BY <1>1, <2>1
  <1>7. Distinct(c)
    <2> SUFFICES ASSUME NEW u \in Slots, NEW v \in Slots, c[u] # Empty, c[v] # Empty,
                        SameObject(c[u], c[v])
                 PROVE  u = v
      BY DEF Distinct
    <2>1. CASE b[t] # Empty /\ SameObject(y, b[t])
      <3>1. \A w \in Slots : c[w] # Empty => b[w] # Empty /\ SameObject(c[w], b[w])
        BY <1>3, <2>1 DEF SameObject
      <3> QED
        BY <1>1, <3>1 DEF Distinct, SameObject
    <2>2. CASE x = Empty /\ SameObject(y, b[s])
      <3>1. \A w \in Slots : c[w] # Empty => w # s
        BY <1>3, <2>2
      <3>2. \A w \in Slots \ {t} : c[w] # Empty => b[w] # Empty /\ SameObject(c[w], b[w])
        BY <1>3, <3>1 DEF SameObject
      <3> QED
        BY <1>1, <1>3, <2>2, <3>1, <3>2 DEF Distinct, SameObject
    <2>3. CASE NewObject(y)
      <3>1. \A w \in Slots \ {t} : c[w] # Empty => b[w] # Empty /\ SameObject(c[w], b[w])
        BY <1>3 DEF SameObject
      <3>2. \A w \in Slots \ {t} : c[w] # Empty => c[w].id # c[t].id
        BY <1>3, <1>6, <2>3, <3>1 DEF SameObject, NewObject
      <3> QED
        BY <1>1, <3>1, <3>2 DEF Distinct, SameObject
    <2> QED
      BY <2>1, <2>2, <2>3
  <1>8. ASSUME NEW u \in Slots, c[u] # Empty
        PROVE  (\E v \in Slots : b[v] # Empty /\ SameObject(c[u], b[v])) \/ NewObject(c[u])
    BY <1>3, <1>8 DEF SameObject
  <1>9. nextID' \in Int /\ nextID <= nextID' /\ nextID' <= Many + 1 + moves'
    BY <1>1, <1>2
  <1>10. ASSUME NEW u \in Slots PROVE c[u].id < nextID'
    <2>1. CASE c[u] = Empty
      BY <1>1, <1>9, <2>1, ThingTypes
    <2>2. CASE c[u] # Empty
      <3>1. CASE NewObject(c[u]) /\ nextID' = nextID + 1
        BY <1>1, <3>1 DEF NewObject
      <3>2. ASSUME NEW v \in Slots, SameObject(c[u], b[v])
            PROVE  c[u].id < nextID'
        BY <1>1, <1>6, <1>9, <3>2 DEF SameObject
      <3>3. u = t \/ \E v \in Slots : SameObject(c[u], b[v])
        BY <1>3, <2>2 DEF SameObject
      <3> QED
        BY <1>3, <3>1, <3>2, <3>3
    <2> QED
      BY <2>1, <2>2
  <1>11. /\ DOMAIN world' = {"units", "money"} /\ world'.units \in Nat
         /\ Units(c) + world'.units = Units(bag[p]) + world.units
    BY <1>5 DEF Stock
  <1> QED
    BY <1>3, <1>4, <1>7, <1>8, <1>9, <1>10, <1>11, OneBag

LEMMA ExchangeInv ==
    ASSUME Stock, moves \in 0 .. MaxMoves, NEW p \in Players, NEW s \in Slots, NEW t \in Slots,
           NEW n \in 1 .. MaxStack, ExchangeItem(p, s, t, n)
    PROVE  Stock'
  <1> DEFINE b == bag[p]
             src == b[s]
             dst == b[t]
             fits == IF MaxStack - dst.num < n THEN MaxStack - dst.num ELSE n
             rest(k) == IF src.num = k THEN Empty ELSE [src EXCEPT !.num = @ - k]
  <1>1. Move /\ s # t /\ src # Empty /\ n \in 1 .. src.num /\ UNCHANGED world
    BY DEF ExchangeItem, Busy
  <1>2. b \in Bags /\ src \in Things /\ dst \in Things /\ Distinct(b)
    BY GoodNumbers
  <1>3. src \in Item /\ src.num \in 1 .. MaxStack /\ dst.num \in 0 .. MaxStack
    BY <1>1, <1>2, ThingTypes
  <1>4. ASSUME NEW k \in 0 .. src.num
        PROVE  /\ rest(k) \in Things /\ rest(k).num = src.num - k
               /\ rest(k) # Empty => SameObject(rest(k), src)
    <2>1. CASE src.num = k
      BY <1>3, <2>1, ThingTypes DEF Things
    <2>2. CASE src.num # k
      <3> DEFINE r == [src EXCEPT !.num = src.num - k]
      <3>1. src.num - k \in 1 .. MaxStack
        BY <1>3, <2>2, TradingAssumption
      <3>2. r \in Item /\ r.num = src.num - k /\ r.ptr = src.ptr /\ r.id = src.id
        BY <1>3, <3>1 DEF Item
      <3>3. rest(k) = r
        BY <2>2
      <3> QED
        BY <3>2, <3>3 DEF SameObject, Things
    <2> QED
      BY <2>1, <2>2
  <1>5. CASE /\ dst = Empty /\ n = src.num
             /\ SetBag(p, [b EXCEPT ![s] = Empty, ![t] = src]) /\ UNCHANGED nextID
    <2>1. Empty \in Things /\ src.num = Empty.num + src.num /\ Empty.num = 0 /\ src.num \in Int
      BY <1>3, ThingTypes DEF Things
    <2>2. SameObject(src, src)
      BY DEF SameObject
    <2>3. Empty.num + src.num = src.num + dst.num
      BY <1>5, <2>1
    <2>4. b = bag[p] /\ b[s] # Empty
      BY <1>1
    <2> HIDE DEF b
    <2> QED
      BY <1>1, <1>2, <1>5, <2>1, <2>2, <2>3, <2>4, MovedInv
  <1>6. CASE /\ dst = Empty /\ n < src.num
             /\ SetBag(p, [b EXCEPT ![s] = rest(n), ![t] = [ptr |-> NewPtr, id |-> nextID, num |-> n]])
             /\ nextID' = nextID + 1
    <2> DEFINE y == [ptr |-> NewPtr, id |-> nextID, num |-> n]
               x == rest(n)
    <2>1. n \in 0 .. src.num
      BY <1>1, <1>3
    <2>2. x \in Things /\ x.num = src.num - n /\ (x # Empty => SameObject(x, src))
      BY <1>4, <2>1
    <2>3. y \in Item
      <3>1. DOMAIN y = {"ptr", "id", "num"} /\ NewObject(y) /\ y.num = n
            /\ y = [ptr |-> NewPtr, id |-> nextID, num |-> y.num]
        BY DEF NewObject
      <3> HIDE DEF y
      <3> QED
        BY <1>1, <3>1, NewItem
    <2>4. y \in Things /\ y.num = n /\ NewObject(y)
      BY <2>3 DEF Things, NewObject
    <2>5. SetBag(p, [b EXCEPT ![s] = x, ![t] = y])
      BY <1>6
    <2>6. b = bag[p] /\ b[s] # Empty
      BY <1>1
    <2> HIDE DEF b, x, y, rest
    <2>7. x.num + y.num = b[s].num + b[t].num
      BY <1>3, <1>6, <2>2, <2>4, ThingTypes
    <2> QED
      BY <1>1, <1>6, <2>2, <2>4, <2>5, <2>6, <2>7, MovedInv
  <1>7. CASE /\ dst # Empty
             /\ SetBag(p, [b EXCEPT ![s] = rest(fits), ![t].num = @ + fits]) /\ UNCHANGED nextID
    <2> DEFINE x == rest(fits)
               y == [dst EXCEPT !.num = dst.num + fits]
    <2>1. fits \in 0 .. src.num /\ dst.num + fits \in 1 .. MaxStack
      <3>1. dst.num \in 1 .. MaxStack
        BY <1>2, <1>7, ThingTypes
      <3> QED
        BY <1>1, <1>3, <3>1, TradingAssumption
    <2>2. x \in Things /\ x.num = src.num - fits /\ (x # Empty => SameObject(x, src))
      BY <1>4, <2>1
    <2>3. dst \in Item
      BY <1>2, <1>7, ThingTypes
    <2> HIDE DEF fits
    <2>4. y \in Item /\ y.num = dst.num + fits /\ SameObject(y, dst)
      BY <2>1, <2>3 DEF Item, SameObject
    <2>5. SetBag(p, [b EXCEPT ![s] = x, ![t] = y])
      <3>1. [b EXCEPT ![s] = x, ![t].num = @ + fits] = [b EXCEPT ![s] = x, ![t] = y]
        <4> HIDE DEF x
        <4> QED
          BY <1>1, <1>2 DEF Bags
      <3> QED
        BY <1>7, <3>1
    <2>6. b = bag[p] /\ b[s] # Empty /\ b[t] # Empty
      BY <1>1, <1>7
    <2> HIDE DEF b, x, y, rest
    <2>7. x.num + y.num = b[s].num + b[t].num
      BY <1>3, <2>1, <2>2, <2>4
    <2>8. y \in Things
      BY <2>4 DEF Things
    <2> QED
      BY <1>1, <1>7, <2>2, <2>4, <2>5, <2>6, <2>7, <2>8, MovedInv
  <1> QED
    BY <1>5, <1>6, <1>7 DEF ExchangeItem

-----------------------------------------------------------------------------
(* The exchange.                                                              *)

\* The places p gives from.
Picked(p) == {box[p].grid[g].slot : g \in {h \in Grids : Filled(p, h)}}

\* p gives the items at the n places s, the last grid first.
Gives(p, n, s) ==
    /\ n \in Nat /\ s \in [1 .. n -> Slots] /\ {s[k] : k \in 1 .. n} = Picked(p)
    /\ \A j, k \in 1 .. n : s[j] = s[k] => j = k
    /\ Given(p) = [k \in 1 .. n |-> bag[p][s[k]]]
    /\ \A k \in 1 .. n : bag[p][s[k]] \in Item

LEMMA GivenIs ==
    ASSUME Stock, NEW p \in Players, GoodBox(box[p]), \A g \in Grids : GridIsSound(p, g)
    PROVE  \E n, s : Gives(p, n, s)
  <1> DEFINE filled == {g \in Grids : Filled(p, g)}
             n == Cardinality(filled)
             o == GridOrder(p)
             d(g) == box[p].grid[g]
             s == [k \in 1 .. n |-> d(o[k]).slot]
  <1>1. NGrids \in Nat /\ filled \in SUBSET (1 .. NGrids)
    BY TradingAssumption DEF Grids
  <1>2. n \in Nat
    <2>1. IsFiniteSet(1 .. NGrids)
      BY <1>1, FS_Interval
    <2>2. IsFiniteSet(filled)
      BY <1>1, <2>1, FS_Subset
    <2> QED
      BY <2>2, FS_CardinalityType
  <1>3. o \in Bijection(1 .. n, filled)
    <2>1. \E z \in Bijection(1 .. n, filled) : \A i, j \in 1 .. n : i < j => z[i] > z[j]
      BY <1>1, Decreasing
    <2>2. \A z \in Bijection(1 .. n, filled) : DOMAIN z = 1 .. n
      BY DEF Bijection, Injection
    <2>3. \E z \in Bijection(1 .. n, filled) : \A i, j \in DOMAIN z : i < j => z[i] > z[j]
      <3> HIDE DEF n, filled
      <3> QED
        BY <2>1, <2>2
    <2> QED
      BY <2>3 DEF GridOrder
  <1>4. /\ o \in [1 .. n -> filled] /\ \A j, k \in 1 .. n : o[j] = o[k] => j = k
        /\ \A g \in filled : \E k \in 1 .. n : o[k] = g
    <2> HIDE DEF n, filled, o
    <2> QED
      BY <1>3 DEF Bijection, Injection, Surjection, IsInjective
  <1>5. /\ \A g \in filled : d(g) \in Promise /\ d(g).slot \in Slots
        /\ \A g, h \in filled : d(g).slot = d(h).slot => g = h
    BY DEF GoodBox, Filled, Promise
  <1>6. \A g \in filled : bag[p][d(g).slot] \in Item
    <2> SUFFICES ASSUME NEW g \in filled PROVE bag[p][d(g).slot] \in Item
      OBVIOUS
    <2>1. d(g) \in Promise /\ d(g).slot \in Slots
      BY <1>5
    <2>2. bag[p][d(g).slot].ptr = d(g).ptr
      BY Zenon DEF GridIsSound
    <2>3. bag[p][d(g).slot] \in Things
      BY <2>1, GoodNumbers
    <2>4. d(g).ptr # 0
      BY <2>1 DEF Promise, Ptrs
    <2> QED
      BY <2>2, <2>3, <2>4, ThingTypes
  <1>7. {s[k] : k \in 1 .. n} = Picked(p)
    <2>1. Picked(p) = {d(g).slot : g \in filled}
      BY DEF Picked
    <2> HIDE DEF filled, n, d, o
    <2> QED
      BY <1>4, <2>1
  <1>8. Given(p) = [k \in 1 .. n |-> bag[p][s[k]]]
    <2>1. Given(p) = [k \in DOMAIN o |-> bag[p][d(o[k]).slot]]
      BY DEF Given
    <2>2. DOMAIN o = 1 .. n
      BY <1>4
    <2> HIDE DEF o, n, d, filled
    <2> QED
      BY <2>1, <2>2
  <1> HIDE DEF filled, n, d, o
  <1>9. /\ s \in [1 .. n -> Slots] /\ \A j, k \in 1 .. n : s[j] = s[k] => j = k
        /\ \A k \in 1 .. n : bag[p][s[k]] \in Item
    BY <1>4, <1>5, <1>6
  <1> HIDE DEF s
  <1>10. Gives(p, n, s)
    BY <1>2, <1>7, <1>8, <1>9 DEF Gives
  <1> QED
    BY <1>10

LEMMA PickedUpIs ==
    ASSUME NEW p \in Players
    PROVE  /\ Picked(p) \subseteq Slots => PickedUp(p) = [s \in Slots |-> IF s \in Picked(p) THEN Empty ELSE bag[p][s]]
  <1>1. \A s : (\E g \in Grids : Filled(p, g) /\ box[p].grid[g].slot = s) <=> s \in Picked(p)
    BY DEF Picked
  <1> QED
    BY <1>1 DEF PickedUp

Worth(items, n) == Total([k \in 1 .. n |-> items[k].num], 1 .. n)

\* What is picked up makes room, and is counted once.
LEMMA PickedUnits ==
    ASSUME Stock, NEW p \in Players, NEW n, NEW s, Gives(p, n, s)
    PROVE  /\ PickedUp(p) \in Bags /\ Distinct(PickedUp(p))
           /\ Given(p) \in [1 .. n -> Item]
           /\ Units(bag[p]) = Units(PickedUp(p)) + Worth(Given(p), n)
           /\ Worth(Given(p), n) \in Int
           /\ Cardinality(FreeSlots(PickedUp(p))) >= n
           /\ \A t \in Slots : IF t \in Picked(p) THEN PickedUp(p)[t] = Empty ELSE PickedUp(p)[t] = bag[p][t]
  <1> DEFINE b == bag[p]
             c == PickedUp(p)
             P == Picked(p)
             w == [t \in Slots |-> b[t].num]
             u == [t \in Slots |-> c[t].num]
             v == [k \in 1 .. n |-> Given(p)[k].num]
  <1>1. /\ n \in Nat /\ s \in [1 .. n -> Slots] /\ {s[k] : k \in 1 .. n} = P
        /\ \A j, k \in 1 .. n : s[j] = s[k] => j = k
        /\ Given(p) = [k \in 1 .. n |-> b[s[k]]]
        /\ \A k \in 1 .. n : b[s[k]] \in Item
    BY DEF Gives
  <1>2. P \in SUBSET Slots
    BY <1>1
  <1>3. c = [t \in Slots |-> IF t \in P THEN Empty ELSE b[t]]
    BY <1>2, PickedUpIs
  <1>4. b \in Bags /\ Distinct(b)
    BY GoodNumbers
  <1>5. Given(p) \in [1 .. n -> Item] /\ \A k \in 1 .. n : Given(p)[k] = b[s[k]] /\ v[k] = b[s[k]].num
    BY <1>1
  <1> HIDE DEF P, b, c
  <1>6. c \in Bags /\ \A t \in Slots : IF t \in P THEN c[t] = Empty ELSE c[t] = b[t]
    BY <1>3, <1>4 DEF Bags, Things
  <1>7. Distinct(c)
    BY <1>4, <1>6 DEF Distinct
  <1>8. IsFiniteSet(Slots) /\ IsFiniteSet(P) /\ IsFiniteSet(Slots \ P) /\ IsFiniteSet(1 .. n)
    <2>1. IsFiniteSet(Slots)
      BY SlotsFinite
    <2>2. Slots \ P \in SUBSET Slots /\ n \in Int /\ 1 \in Int
      BY <1>1
    <2> QED
      BY <1>2, <2>1, <2>2, FS_Subset, FS_Interval
  <1>9. \A t \in Slots : w[t] = b[t].num /\ u[t] = c[t].num /\ w[t] \in Int /\ u[t] \in Int
    BY <1>4, <1>6, UnitsType
  <1>10. Units(b) = Total(w, Slots) /\ Units(c) = Total(u, Slots)
    BY DEF Units
  <1>11. Worth(Given(p), n) = Total(v, 1 .. n)
    BY DEF Worth
  <1>12. \A k \in 1 .. n : v[k] = w[s[k]] /\ v[k] \in Int
    BY <1>1, <1>5, <1>9
  <1> HIDE DEF u, v, w
  <1>13. Total(v, 1 .. n) = Total(w, P)
    <2> DEFINE K == 1 .. n
    <2>1. IsFiniteSet(K) /\ P = {s[k] : k \in K} /\ \A j, k \in K : s[j] = s[k] => j = k
      BY <1>1, <1>8
    <2>2. \A k \in K : v[k] = w[s[k]] /\ v[k] \in Int
      BY <1>12
    <2> HIDE DEF K
    <2>3. Total(v, K) = Total(w, P)
      BY <2>1, <2>2, SumBijection
    <2> QED
      BY <2>3 DEF K
  <1>14. Total(w, Slots) = Total(w, P) + Total(w, Slots \ P)
    BY <1>2, <1>8, <1>9, SumSplit
  <1>15. Total(u, Slots) = Total(u, P) + Total(u, Slots \ P)
    BY <1>2, <1>8, <1>9, SumSplit
  <1>16. Total(u, P) = 0
    <2>1. \A t \in P : u[t] = 0
      BY <1>2, <1>6, <1>9, ThingTypes
    <2> QED
      BY <1>8, <2>1, SumZeros
  <1>17. Total(u, Slots \ P) = Total(w, Slots \ P)
    <2>1. \A t \in Slots \ P : u[t] \in Int /\ u[t] = w[t]
      BY <1>6, <1>9
    <2> QED
      BY <1>8, <2>1, SumAgree
  <1>18. Total(w, P) \in Int /\ Total(w, Slots \ P) \in Int
    BY <1>2, <1>8, <1>9, SumType
  <1>19. Units(b) = Units(c) + Worth(Given(p), n) /\ Worth(Given(p), n) \in Int
    BY <1>10, <1>11, <1>13, <1>14, <1>15, <1>16, <1>17, <1>18
  <1>20. Cardinality(FreeSlots(c)) >= n
    <2>1. s \in Injection(1 .. n, FreeSlots(c))
      <3>1. \A k \in 1 .. n : s[k] \in FreeSlots(c)
        <4>1. \A k \in 1 .. n : s[k] \in P /\ s[k] \in Slots
          BY <1>1
        <4> QED
          BY <1>6, <4>1 DEF FreeSlots
      <3>2. s \in [1 .. n -> FreeSlots(c)]
        BY <1>1, <3>1
      <3> QED
        BY <1>1, <3>2 DEF Injection, IsInjective
    <2>2. Cardinality(1 .. n) <= Cardinality(FreeSlots(c))
      <3> DEFINE K == 1 .. n
                 F == FreeSlots(c)
      <3>1. IsFiniteSet(K) /\ IsFiniteSet(F) /\ s \in Injection(K, F)
        <4>1. F \in SUBSET Slots
          BY DEF FreeSlots
        <4> QED
          BY <1>8, <2>1, <4>1, FS_Subset
      <3> HIDE DEF K, F
      <3>2. Cardinality(K) <= Cardinality(F)
        BY <3>1, FS_Injection
      <3> QED
        BY <3>2 DEF K, F
    <2>3. Cardinality(1 .. n) = n
      <3>1. 1 \in Int /\ n \in Int /\ (IF 1 > n THEN 0 ELSE n - 1 + 1) = n
        BY <1>1
      <3> QED
        BY <3>1, FS_Interval
    <2>4. Cardinality(FreeSlots(c)) \in Nat
      <3>1. FreeSlots(c) \in SUBSET Slots
        BY DEF FreeSlots
      <3> QED
        BY <1>8, <3>1, FS_Subset, FS_CardinalityType
    <2> QED
      BY <1>1, <2>2, <2>3, <2>4
  <1> QED
    BY <1>5, <1>6, <1>7, <1>19, <1>20 DEF c, b, P

Kept(p)  == {p} \X (Slots \ Picked(p))
Taken(p) == {p} \X Picked(p)

\* What p has after putting r's items (its own, or the other's) into what it kept.
Gets(p, r, n, c) ==
    /\ c \in Bags /\ Distinct(c) /\ From(c, Kept(p) \cup Taken(r))
    /\ Units(c) = Units(PickedUp(p)) + Worth(Given(r), n)

LEMMA ReceivedInv ==
    ASSUME Stock, NEW p \in Players, NEW r \in Players,
           NEW m, NEW s, Gives(p, m, s), NEW n, NEW t, Gives(r, n, t),
           Cardinality(FreeSlots(PickedUp(p))) >= n,
           NEW F, Finds(PickedUp(p), n, Given(r), F)
    PROVE  Gets(p, r, n, F[n])
  <1> DEFINE b == PickedUp(p)
             items == Given(r)
             c == F[n]
  <1>1. /\ n \in Nat /\ t \in [1 .. n -> Slots] /\ \A k \in 1 .. n : t[k] \in Picked(r)
        /\ \A j, k \in 1 .. n : t[j] = t[k] => j = k
        /\ \A k \in 1 .. n : items[k] = bag[r][t[k]] /\ items[k] \in Item
    BY DEF Gives
  <1>2. /\ b \in Bags /\ Distinct(b)
        /\ \A u \in Slots : IF u \in Picked(p) THEN b[u] = Empty ELSE b[u] = bag[p][u]
    BY PickedUnits
  <1>3. items \in [1 .. n -> Item]
    BY PickedUnits
  <1> HIDE DEF b, items
  <1>4. \A k \in 1 .. n : /\ <<r, t[k]>> \in Players \X Slots /\ <<r, t[k]>> \in Taken(r)
                          /\ Was(items[k], <<r, t[k]>>)
    BY <1>1, ThingTypes DEF Was, SameObject, Taken
  <1>5. \A u \in Slots : b[u] # Empty =>
           /\ <<p, u>> \in Players \X Slots /\ <<p, u>> \in Kept(p) /\ u \notin Picked(p)
           /\ Was(b[u], <<p, u>>)
    BY <1>2 DEF Was, SameObject, Kept
  <1>6. Foreign(b, n, items)
    <2>1. ASSUME NEW k \in 1 .. n, NEW u \in Slots, b[u] # Empty, SameObject(b[u], items[k])
          PROVE  FALSE
      <3>1. b[u].ptr = items[k].ptr
        BY <2>1 DEF SameObject
      <3>2. <<p, u>> = <<r, t[k]>>
        BY <1>4, <1>5, <2>1, <3>1, StaysApart
      <3> QED
        BY <1>1, <1>5, <2>1, <3>2
    <2>2. ASSUME NEW k \in 1 .. n, NEW j \in 1 .. n, j # k, SameObject(items[j], items[k])
          PROVE  FALSE
      <3>1. items[j].ptr = items[k].ptr
        BY <2>2 DEF SameObject
      <3>2. <<r, t[j]>> = <<r, t[k]>>
        BY <1>4, <3>1, StaysApart
      <3> QED
        BY <1>1, <2>2, <3>2
    <2> QED
      BY <2>1, <2>2 DEF Foreign
  <1>7. /\ c \in Bags /\ Distinct(c) /\ Known(b, n, items, c)
        /\ Units(c) = Units(b) + Worth(items, n)
    <2>1. Finds(b, n, items, F) /\ Cardinality(FreeSlots(b)) >= n
      BY DEF b, items
    <2>2. Units(c) = Units(b) + Total([k \in 1 .. n |-> items[k].num], 1 .. n)
      BY <1>1, <1>2, <1>3, <1>6, <2>1, FindsAll
    <2> QED
      BY <1>1, <1>2, <1>3, <1>6, <2>1, <2>2, FindsAll DEF Worth
  <1> HIDE DEF c
  <1>8. From(c, Kept(p) \cup Taken(r))
    <2> SUFFICES ASSUME NEW u \in Slots, c[u] # Empty
                 PROVE  \E x \in Kept(p) \cup Taken(r) : Was(c[u], x)
      BY DEF From
    <2>1. ASSUME NEW v \in Slots, b[v] # Empty, SameObject(c[u], b[v])
          PROVE  \E x \in Kept(p) \cup Taken(r) : Was(c[u], x)
      <3>1. Was(c[u], <<p, v>>) /\ <<p, v>> \in Kept(p)
        BY <1>5, <2>1 DEF Was, SameObject
      <3> QED
        BY <3>1
    <2>2. ASSUME NEW j \in 1 .. n, SameObject(c[u], items[j])
          PROVE  \E x \in Kept(p) \cup Taken(r) : Was(c[u], x)
      <3>1. Was(c[u], <<r, t[j]>>) /\ <<r, t[j]>> \in Taken(r)
        BY <1>4, <2>2 DEF Was, SameObject
      <3> QED
        BY <3>1
    <2> QED
      BY <1>7, <2>1, <2>2 DEF Known
  <1> QED
    BY <1>7, <1>8 DEF Gets, b, c, items

\* The items picked up are put back.
LEMMA PutBack ==
    ASSUME Stock, NEW r \in Players, NEW k, NEW u, Gives(r, k, u)
    PROVE  Gets(r, r, k, FoldLeft(Added, PickedUp(r), Given(r)))
  <1>1. /\ PickedUp(r) \in Bags /\ Given(r) \in [1 .. k -> Item] /\ k \in Nat
        /\ Cardinality(FreeSlots(PickedUp(r))) >= k
    BY PickedUnits DEF Gives
  <1>2. PICK F : AddedRun(PickedUp(r), k, Given(r), F)
    BY <1>1, AddedSteps
  <1>3. Finds(PickedUp(r), k, Given(r), F)
    BY <1>1, <1>2, AddedFinds
  <1>4. Gets(r, r, k, F[k])
    BY <1>1, <1>3, ReceivedInv
  <1>5. FoldLeft(Added, PickedUp(r), Given(r)) = F[k]
    BY <1>2, Zenon DEF AddedRun
  <1> QED
    BY <1>4, <1>5, Zenon

LEMMA GivenType ==
    ASSUME Stock, NEW r \in Players, NEW k, NEW u, Gives(r, k, u)
    PROVE  /\ PickedUp(r) \in Bags /\ Given(r) \in [1 .. k -> Item] /\ k \in Nat
           /\ Len(Given(r)) = k
  <1>1. PickedUp(r) \in Bags /\ Given(r) \in [1 .. k -> Item] /\ k \in Nat
    BY PickedUnits DEF Gives
  <1> DEFINE items == Given(r)
  <1> HIDE DEF items
  <1>2. items \in [1 .. k -> Item] /\ k \in Nat
    BY <1>1 DEF items
  <1>3. Len(items) = k
    BY <1>2
  <1> QED
    BY <1>1, <1>3 DEF items

\* r puts o's items into free places.
LEMMA PutAway ==
    ASSUME Stock, NEW r \in Players, NEW j, NEW v, Gives(r, j, v),
           NEW o \in Players, NEW k, NEW u, Gives(o, k, u),
           Cardinality(FreeSlots(PickedUp(r))) >= Len(Given(o))
    PROVE  Gets(r, o, k, FoldLeft(Placed, PickedUp(r), Given(o)))
  <1>1. /\ PickedUp(r) \in Bags /\ Given(o) \in [1 .. k -> Item] /\ k \in Nat
        /\ Cardinality(FreeSlots(PickedUp(r))) >= k
    BY GivenType
  <1>2. PICK F : PlacedRun(PickedUp(r), k, Given(o), F)
    BY <1>1, PlacedSteps
  <1>3. Finds(PickedUp(r), k, Given(o), F)
    BY <1>1, <1>2, PlacedFinds
  <1>4. Gets(r, o, k, F[k])
    BY <1>1, <1>3, ReceivedInv
  <1>5. FoldLeft(Placed, PickedUp(r), Given(o)) = F[k]
    BY <1>2, Zenon DEF PlacedRun
  <1> QED
    BY <1>4, <1>5, Zenon

LEMMA BothGive ==
    ASSUME Stock, IInv, Boxes, NEW p \in Players, HasBox(p), FinishTradingCheck(p, Other(p))
    PROVE  (\E n, s : Gives(p, n, s)) /\ (\E n, s : Gives(Other(p), n, s))
  <1> DEFINE q == Other(p)
  <1>1. q \in Players
    BY TradingAssumption DEF IInv, Shape, HasBox, Other
  <1>2. \A g \in Grids : GridIsSound(p, g) /\ GridIsSound(q, g)
    BY Zenon DEF FinishTradingCheck
  <1>3. GoodBox(box[p]) /\ GoodBox(box[q])
    BY <1>1 DEF Boxes
  <1> HIDE DEF q
  <1>4. (\E n, s : Gives(p, n, s)) /\ (\E n, s : Gives(q, n, s))
    BY <1>1, <1>2, <1>3, GivenIs
  <1> QED
    BY <1>4 DEF q

LEMMA FinishInv ==
    ASSUME Stock, IInv, Boxes, NEW p \in Players, HasBox(p), FinishTrading(p, Other(p))
    PROVE  Stock'
  <1> DEFINE q == Other(p)
  <1>1. q \in Players /\ q # p
    BY TradingAssumption DEF IInv, Shape, Paired, HasBox, Other
  <1>2. UNCHANGED <<world, nextID, moves>>
    BY DEF FinishTrading
  <1>3. CASE UNCHANGED <<bag, purse>>
    <2>1. Numbered' /\ Apart'
      BY <1>2, <1>3 DEF Stock, Numbered, Apart
    <2>2. Counted'
      <3>1. Held' = Held
        BY <1>3 DEF Held, Units
      <3> QED
        BY <1>2, <3>1 DEF Stock, Counted
    <2> QED
      BY <1>2, <1>3, <2>1, <2>2 DEF Stock
  <1>4. FinishTradingCheck(p, q) => (\E n, s : Gives(p, n, s)) /\ (\E n, s : Gives(q, n, s))
    BY BothGive
  <1> HIDE DEF q
  <1>5. ASSUME NEW m, NEW s, Gives(p, m, s), NEW n, NEW t, Gives(q, n, t),
               NEW c, NEW d, bag' = [bag EXCEPT ![p] = c, ![q] = d],
               (Gets(p, p, m, c) /\ Gets(q, q, n, d)) \/ (Gets(p, q, n, c) /\ Gets(q, p, m, d))
        PROVE  Stock'
    <2>1. Picked(p) \subseteq Slots /\ Picked(q) \subseteq Slots
      BY <1>5 DEF Gives
    <2>2. /\ Units(bag[p]) = Units(PickedUp(p)) + Worth(Given(p), m)
          /\ Units(bag[q]) = Units(PickedUp(q)) + Worth(Given(q), n)
          /\ Worth(Given(p), m) \in Int /\ Worth(Given(q), n) \in Int
          /\ PickedUp(p) \in Bags /\ PickedUp(q) \in Bags
      BY <1>1, <1>5, PickedUnits
    <2>3. Units(PickedUp(p)) \in Int /\ Units(PickedUp(q)) \in Int
      BY <2>2, UnitsType
    <2>4. CASE Gets(p, p, m, c) /\ Gets(q, q, n, d)
      <3> DEFINE X == Kept(p) \cup Taken(p)
                 Y == Kept(q) \cup Taken(q)
      <3>1. X \subseteq {p, q} \X Slots /\ Y \subseteq {p, q} \X Slots /\ X \cap Y = {}
        BY <1>1, <2>1 DEF Kept, Taken
      <3>2. /\ c \in Bags /\ Distinct(c) /\ From(c, X) /\ d \in Bags /\ Distinct(d) /\ From(d, Y)
            /\ Units(c) = Units(PickedUp(p)) + Worth(Given(p), m)
            /\ Units(d) = Units(PickedUp(q)) + Worth(Given(q), n)
        BY <2>4, Zenon DEF Gets
      <3> HIDE DEF X, Y
      <3>3. Units(c) + Units(d) = Units(bag[p]) + Units(bag[q])
        BY <2>2, <2>3, <3>2
      <3> QED
        BY <1>1, <1>2, <1>5, <3>1, <3>2, <3>3, TwoBags
    <2>5. CASE Gets(p, q, n, c) /\ Gets(q, p, m, d)
      <3> DEFINE X == Kept(p) \cup Taken(q)
                 Y == Kept(q) \cup Taken(p)
      <3>1. X \subseteq {p, q} \X Slots /\ Y \subseteq {p, q} \X Slots /\ X \cap Y = {}
        BY <1>1, <2>1 DEF Kept, Taken
      <3>2. /\ c \in Bags /\ Distinct(c) /\ From(c, X) /\ d \in Bags /\ Distinct(d) /\ From(d, Y)
            /\ Units(c) = Units(PickedUp(p)) + Worth(Given(q), n)
            /\ Units(d) = Units(PickedUp(q)) + Worth(Given(p), m)
        BY <2>5, Zenon DEF Gets
      <3> HIDE DEF X, Y
      <3>3. Units(c) + Units(d) = Units(bag[p]) + Units(bag[q])
        BY <2>2, <2>3, <3>2
      <3> QED
        BY <1>1, <1>2, <1>5, <3>1, <3>2, <3>3, TwoBags
    <2> QED
      BY <1>5, <2>4, <2>5
  <1>6. CASE FinishTradingCheck(p, q) /\ RolledBack(p, q)
    <2>1. PICK m, s : Gives(p, m, s)
      BY <1>4, <1>6
    <2>2. PICK n, t : Gives(q, n, t)
      BY <1>4, <1>6
    <2> DEFINE c == FoldLeft(Added, PickedUp(p), Given(p))
               d == FoldLeft(Added, PickedUp(q), Given(q))
    <2>4. Gets(p, p, m, c) /\ Gets(q, q, n, d)
      BY <1>1, <2>1, <2>2, PutBack
    <2>5. bag' = [bag EXCEPT ![p] = c, ![q] = d]
      BY <1>6, Zenon DEF RolledBack
    <2> HIDE DEF c, d
    <2> QED
      BY <1>5, <2>1, <2>2, <2>4, <2>5
  <1>7. CASE /\ FinishTradingCheck(p, q)
             /\ Cardinality(FreeSlots(PickedUp(p))) >= Len(Given(q))
             /\ Cardinality(FreeSlots(PickedUp(q))) >= Len(Given(p))
             /\ bag' = [bag EXCEPT ![p] = FoldLeft(Placed, PickedUp(p), Given(q)),
                                   ![q] = FoldLeft(Placed, PickedUp(q), Given(p))]
    <2>1. PICK m, s : Gives(p, m, s)
      BY <1>4, <1>7
    <2>2. PICK n, t : Gives(q, n, t)
      BY <1>4, <1>7
    <2> DEFINE c == FoldLeft(Placed, PickedUp(p), Given(q))
               d == FoldLeft(Placed, PickedUp(q), Given(p))
    <2>5. Gets(p, q, n, c) /\ Gets(q, p, m, d)
      BY <1>1, <1>7, <2>1, <2>2, PutAway
    <2>6. bag' = [bag EXCEPT ![p] = c, ![q] = d]
      BY <1>7, Zenon
    <2> HIDE DEF c, d
    <2> QED
      BY <1>5, <2>1, <2>2, <2>5, <2>6
  <1> QED
    BY <1>3, <1>6, <1>7, Zenon DEF FinishTrading, q

-----------------------------------------------------------------------------
(* All steps.                                                                 *)

LEMMA StockKept ==
    ASSUME Stock, UNCHANGED <<bag, nextID>>, world'.units = world.units,
           DOMAIN world' = {"units", "money"},
           moves \in 0 .. MaxMoves, moves' = moves \/ Move
    PROVE  Stock'
  <1>1. moves' \in Int /\ moves <= moves' /\ moves \in Int
    BY TradingAssumption DEF Move
  <1>2. Numbered'
    <2>1. nextID \in Int /\ Many < nextID /\ nextID <= Many + 1 + moves /\ Many \in Int
      BY PlayersFinite DEF Stock, Numbered
    <2>2. nextID <= Many + 1 + moves'
      <3> DEFINE m == moves
                 n == moves'
      <3>1. nextID <= Many + 1 + m /\ m <= n /\ m \in Int /\ n \in Int
        BY <1>1, <2>1
      <3> HIDE DEF m, n
      <3>2. nextID <= Many + 1 + n
        BY <2>1, <3>1
      <3> QED
        BY <3>2 DEF n
    <2>3. \A p \in Players, s \in Slots : bag'[p][s].id < nextID
      BY DEF Stock, Numbered
    <2> QED
      BY <2>1, <2>2, <2>3 DEF Numbered
  <1>3. Apart'
    BY DEF Stock, Apart
  <1>4. Counted'
    <2>1. Held' = Held
      BY DEF Held, Units
    <2> QED
      BY <2>1 DEF Stock, Counted
  <1> QED
    BY <1>2, <1>3, <1>4 DEF Stock

LEMMA MoneyKept ==
    ASSUME Money, UNCHANGED purse, world'.money = world.money,
           DOMAIN world' = {"units", "money"}
    PROVE  Money'
  <1>1. Balanced'
    <2>1. Balanced
      BY MoneyIs DEF Money
    <2>2. Wealth' = Wealth
      BY DEF Wealth
    <2> QED
      BY <2>1, <2>2 DEF Balanced
  <1>2. MoneyConserved'
    BY <1>1, MoneyIs, PTL
  <1> QED
    BY <1>2 DEF Money

\* Steps that touch nobody's goods, and those that only count as moves.
NoGoods(p) ==
    \/ Enter(p) \/ StatusChanges(p) \/ UnInit(p) \/ OnTradingInviteRespond(p)
    \/ \E q \in Players : OnTradingInviteRequest(p, q)
    \/ OnSync(p) \/ OnTradingCancel(p)

Filling(p) ==
    \/ \E g \in Grids, s \in Slots : AddItem(p, g, s)
    \/ \E g \in Grids : DelItem(p, g)
    \/ \E n \in 0 .. MoneyLimit : SetMoney(p, n)

LEMMA GoodsLeft ==
    ASSUME NEW p, NoGoods(p)
    PROVE  UNCHANGED goods
  <1>1. CASE Enter(p)
    BY <1>1, Zenon DEF Enter
  <1>2. CASE StatusChanges(p)
    BY <1>2, Zenon DEF StatusChanges
  <1>3. CASE UnInit(p)
    BY <1>3, Zenon DEF UnInit
  <1>4. CASE OnTradingInviteRespond(p)
    BY <1>4, Zenon DEF OnTradingInviteRespond
  <1>5. ASSUME NEW q, OnTradingInviteRequest(p, q) PROVE UNCHANGED goods
    BY <1>5, Zenon DEF OnTradingInviteRequest
  <1>6. CASE OnSync(p)
    BY <1>6, Zenon DEF OnSync
  <1>7. CASE OnTradingCancel(p)
    BY <1>7, Zenon DEF OnTradingCancel
  <1> QED
    BY <1>1, <1>2, <1>3, <1>4, <1>5, <1>6, <1>7, Zenon DEF NoGoods

LEMMA FillingLeaves ==
    ASSUME NEW p, Filling(p)
    PROVE  UNCHANGED <<bag, purse, world, nextID>> /\ Move
  <1>1. ASSUME NEW g, NEW s, AddItem(p, g, s) PROVE UNCHANGED <<bag, purse, world, nextID>> /\ Move
    BY <1>1, Zenon DEF AddItem, Changes
  <1>2. ASSUME NEW g, DelItem(p, g) PROVE UNCHANGED <<bag, purse, world, nextID>> /\ Move
    BY <1>2, Zenon DEF DelItem, Changes
  <1>3. ASSUME NEW n, SetMoney(p, n) PROVE UNCHANGED <<bag, purse, world, nextID>> /\ Move
    BY <1>3, Zenon DEF SetMoney, Changes
  <1> QED
    BY <1>1, <1>2, <1>3, Zenon DEF Filling

LEMMA Steps ==
    [Next]_vars => \/ UNCHANGED vars
                   \/ \E p \in Players : NoGoods(p) \/ Filling(p) \/ Errand(p) \/ OnTradingConfirm(p)
  BY Zenon DEF Next, NoGoods, Filling, Errand

\* A confirmation leaves goods alone or finishes the trade.
LEMMA ConfirmEnds ==
    ASSUME NEW p, OnTradingConfirm(p)
    PROVE  HasBox(p) /\ (UNCHANGED goods \/ FinishTrading(p, Other(p)))
  BY Zenon DEF OnTradingConfirm, Confirm

LEMMA StockInv ==
    ASSUME IInv, Boxes, Stock, [Next]_vars
    PROVE  Stock'
  <1>1. moves \in 0 .. MaxMoves /\ DOMAIN world = {"units", "money"}
    BY DEF Boxes, Stock
  <1>2. CASE UNCHANGED goods
    <2>1. UNCHANGED <<bag, nextID>> /\ world' = world /\ moves' = moves
      BY <1>2 DEF goods
    <2> QED
      BY <1>1, <2>1, StockKept
  <1>3. ASSUME NEW p \in Players, Filling(p) PROVE Stock'
    <2>1. UNCHANGED <<bag, nextID>> /\ world' = world /\ Move
      BY <1>3, FillingLeaves
    <2> QED
      BY <1>1, <2>1, StockKept
  <1>4. ASSUME NEW p \in Players, ChangeMoney(p) PROVE Stock'
    <2>1. UNCHANGED <<bag, nextID>> /\ Move /\ \E x : world' = [world EXCEPT !.money = x]
      BY <1>4, Zenon DEF ChangeMoney, Busy
    <2>2. DOMAIN world' = {"units", "money"} /\ world'.units = world.units
      BY <1>1, <2>1
    <2> QED
      BY <1>1, <2>1, <2>2, StockKept
  <1>5. ASSUME NEW p \in Players, Errand(p) PROVE Stock'
    BY <1>1, <1>4, <1>5, DestroyInv, GainInv, ExchangeInv DEF Errand
  <1>6. ASSUME NEW p \in Players, OnTradingConfirm(p) PROVE Stock'
    BY <1>2, <1>6, ConfirmEnds, FinishInv
  <1>7. CASE UNCHANGED vars
    BY <1>2, <1>7 DEF vars, goods
  <1> QED
    BY <1>2, <1>3, <1>5, <1>6, <1>7, Steps, GoodsLeft

LEMMA MoneyInv ==
    ASSUME IInv, Boxes, Money, [Next]_vars
    PROVE  Money'
  <1>1. DOMAIN world = {"units", "money"}
    BY DEF Money
  <1>2. CASE UNCHANGED <<purse, world>>
    BY <1>1, <1>2, MoneyKept
  <1>3. ASSUME NEW x, UNCHANGED purse, world' = [world EXCEPT !.units = x] PROVE Money'
    <2>1. DOMAIN world' = {"units", "money"} /\ world'.money = world.money
      BY <1>1, <1>3
    <2> QED
      BY <1>3, <2>1, MoneyKept
  <1>4. ASSUME NEW p \in Players, Errand(p) PROVE Money'
    <2>1. ASSUME NEW s, DestroyItem(p, s) PROVE Money'
      BY <1>3, <2>1, Zenon DEF DestroyItem
    <2>2. CASE GainItem(p)
      BY <1>3, <2>2, Zenon DEF GainItem
    <2>3. CASE ChangeMoney(p)
      BY <2>3, ChangeMoneyInv
    <2>4. ASSUME NEW s, NEW t, NEW n, ExchangeItem(p, s, t, n) PROVE Money'
      BY <1>2, <2>4, Zenon DEF ExchangeItem
    <2> QED
      BY <1>4, <2>1, <2>2, <2>3, <2>4, Zenon DEF Errand
  <1>5. ASSUME NEW p \in Players, OnTradingConfirm(p) PROVE Money'
    <2>1. CASE UNCHANGED goods
      BY <1>2, <2>1, Zenon DEF goods
    <2>2. CASE FinishTrading(p, Other(p))
      <3>1. UNCHANGED world /\ (UNCHANGED purse \/ (FinishTradingCheck(p, Other(p)) /\ purse' = Paid(p, Other(p))))
        BY <2>2, Zenon DEF FinishTrading
      <3> QED
        BY <1>2, <1>5, <3>1, ConfirmEnds, PaidInv
    <2> QED
      BY <1>5, <2>1, <2>2, ConfirmEnds
  <1>6. ASSUME NEW p \in Players, NoGoods(p) \/ Filling(p) PROVE Money'
    BY <1>2, <1>6, GoodsLeft, FillingLeaves DEF goods
  <1>7. CASE UNCHANGED vars
    BY <1>2, <1>7 DEF vars
  <1> QED
    BY <1>4, <1>5, <1>6, <1>7, Steps

-----------------------------------------------------------------------------
(* The start.                                                                 *)

LEMMA Numbers ==
    /\ Number \in [Players -> 1 .. Many]
    /\ \A p, q \in Players : Number[p] = Number[q] => p = q
  <1>1. IsFiniteSet(1 .. Many) /\ Cardinality(1 .. Many) = Cardinality(Players)
    <2>1. Many \in Int /\ 1 \in Int /\ (IF 1 > Many THEN 0 ELSE Many - 1 + 1) = Many
      BY PlayersFinite
    <2>2. IsFiniteSet(1 .. Many) /\ Cardinality(1 .. Many) = Many
      BY <2>1, FS_Interval
    <2> QED
      BY <2>2 DEF Many
  <1>2. ExistsBijection(Players, 1 .. Many)
    BY <1>1, PlayersFinite, FS_SameCardinalityBij
  <1>3. Number \in Bijection(Players, 1 .. Many)
    BY <1>2 DEF Number, ExistsBijection
  <1> QED
    BY <1>3 DEF Bijection, Injection, IsInjective

LEMMA StockInit ==
    ASSUME Init
    PROVE  Stock
  <1> DEFINE first(p) == [ptr |-> Number[p], id |-> Number[p], num |-> 1]
             none == [s \in Slots |-> Empty]
  <1>1. /\ bag = [p \in Players |-> [s \in Slots |-> IF s = 1 THEN first(p) ELSE Empty]]
        /\ world = [units |-> MaxMoves, money |-> MaxMoves]
        /\ nextID = Many + 1 /\ moves = 0
    BY DEF Init
  <1>2. Many \in Nat /\ NSlots \in Nat \ {0} /\ MaxMoves \in Nat /\ MaxStack \in Nat \ {0} /\ 1 \in Slots
    BY PlayersFinite, TradingAssumption DEF Slots
  <1>3. 1 .. Many \subseteq Ptrs /\ 1 .. Many \subseteq 1 .. MaxID /\ 1 \in 1 .. MaxStack
    <2>1. Many <= Many * NSlots /\ Many * NSlots \in Int
      BY <1>2
    <2> QED
      BY <1>2, <2>1 DEF Ptrs, MaxID
  <1>4. ASSUME NEW p \in Players
        PROVE  /\ first(p) \in Item /\ first(p).ptr = Number[p] /\ first(p).id = Number[p]
               /\ first(p).num = 1 /\ first(p) # Empty /\ Number[p] \in 1 .. Many
    <2>1. Number[p] \in 1 .. Many
      BY Numbers
    <2>2. first(p) \in Item
      BY <1>3, <2>1 DEF Item
    <2> QED
      BY <2>1, <2>2, ThingTypes
  <1> HIDE DEF first
  <1>5. /\ bag \in [Players -> Bags]
        /\ \A p \in Players : bag[p][1] = first(p) /\ \A s \in Slots \ {1} : bag[p][s] = Empty
    BY <1>1, <1>2, <1>4 DEF Bags, Things
  <1>6. Numbered
    <2>1. ASSUME NEW p \in Players, NEW s \in Slots PROVE bag[p][s].id < nextID
      BY <1>1, <1>2, <1>4, <1>5, ThingTypes
    <2> QED
      BY <1>1, <1>2, <2>1 DEF Numbered
  <1>7. Apart
    <2>1. ASSUME NEW p \in Players, NEW q \in Players, NEW s \in Slots, NEW t \in Slots,
                 bag[p][s] # Empty, bag[q][t] # Empty,
                 bag[p][s].ptr = bag[q][t].ptr \/ bag[p][s].id = bag[q][t].id
          PROVE  p = q /\ s = t
      <3>1. s = 1 /\ t = 1
        BY <1>5, <2>1
      <3>2. Number[p] = Number[q]
        BY <1>4, <1>5, <2>1, <3>1
      <3> QED
        BY <3>1, <3>2, Numbers
    <2> QED
      BY <2>1 DEF Apart
  <1>8. ASSUME NEW p \in Players PROVE Units(bag[p]) = 1
    <2>1. none \in Bags /\ \A s \in Slots : none[s] = Empty
      BY DEF Bags, Things
    <2>2. Units(none) = 0
      <3> DEFINE w == [s \in Slots |-> none[s].num]
      <3>1. \A s \in Slots : w[s] = 0
        BY <2>1, ThingTypes
      <3> HIDE DEF w
      <3>2. Total(w, Slots) = 0
        BY <3>1, SlotsFinite, SumZeros
      <3> QED
        BY <3>2 DEF w, Units
    <2> HIDE DEF none
    <2>3. bag[p] \in Bags /\ bag[p][1].num = 1 /\ \A s \in Slots \ {1} : bag[p][s] = none[s]
      BY <1>4, <1>5, <2>1
    <2>4. Units(bag[p]) = Units(none) + bag[p][1].num - none[1].num
      BY <1>2, <2>1, <2>3, UnitsChange
    <2>5. none[1].num = 0
      BY <1>2, <2>1, ThingTypes
    <2> QED
      BY <2>2, <2>3, <2>4, <2>5
  <1>9. Counted
    <2>1. \A p \in Players : Held[p] = 1
      BY <1>8 DEF Held
    <2>2. Total(Held, Players) = Many
      BY <2>1, PlayersFinite, SumOnes DEF Many
    <2> QED
      BY <1>1, <2>2 DEF Counted
  <1>10. DOMAIN world = {"units", "money"} /\ world.units \in Nat
    BY <1>1, <1>2
  <1> QED
    BY <1>5, <1>6, <1>7, <1>9, <1>10 DEF Stock

LEMMA MoneyInit ==
    ASSUME Init
    PROVE  Money
  <1>1. purse = [p \in Players |-> 1] /\ world = [units |-> MaxMoves, money |-> MaxMoves]
    BY DEF Init
  <1>2. 1 \in 0 .. MoneyLimit /\ MaxMoves \in Nat
    BY TradingAssumption
  <1>3. purse \in [Players -> 0 .. MoneyLimit] /\ \A p \in Players : purse[p] = 1
    BY <1>1, <1>2
  <1>4. DOMAIN world = {"units", "money"} /\ world.money \in Nat /\ world.money = MaxMoves
    BY <1>1, <1>2
  <1>5. Wealth = Many
    BY <1>3, PlayersFinite, SumOnes DEF Many, Wealth
  <1>6. MoneyConserved
    BY <1>4, <1>5, MoneyIs DEF Balanced
  <1> QED
    BY <1>3, <1>4, <1>6 DEF Money

LEMMA BoxesInit ==
    ASSUME Init
    PROVE  Boxes
  <1>1. moves \in 0 .. MaxMoves /\ moves = 0
    BY TradingAssumption DEF Init
  <1>2. ASSUME NEW p \in Players PROVE box[p] = NoBox /\ view[p] = NoView
    BY DEF Init
  <1>3. GoodBox(NoBox) /\ NoBox.key = 0 /\ NoView.key = 0
    BY GoodBoxes
  <1> QED
    BY <1>1, <1>2, <1>3 DEF Boxes

\* What the boxes promise, what the purses hold and what lies in the bags.
Ledger == Boxes /\ Money /\ Stock

\* Promises in the boxes stay well-formed and of different places, every item
\* object stays at one place, and what there is of items and money is all
\* accounted for, through every exchange, rollback and errand.
THEOREM TradingLedger == Spec => [](IInv /\ Invites /\ Ledger)
  <1>1. Init => Ledger
    BY StockInit, MoneyInit, BoxesInit DEF Ledger
  <1>2. IInv /\ Invites /\ Ledger /\ [Next]_vars => Ledger'
    <2> SUFFICES ASSUME IInv, Invites, Ledger, [Next]_vars PROVE Ledger'
      OBVIOUS
    <2>1. Boxes /\ Money /\ Stock /\ bag \in [Players -> Bags]
      BY DEF Ledger, Stock
    <2> QED
      BY <2>1, BoxesInv, MoneyInv, StockInv DEF Ledger
  <1> QED
    BY <1>1, <1>2, TradingInvariant, PTL DEF Spec

LEMMA LedgerType ==
    ASSUME IInv, Invites, Ledger
    PROVE  TypeOK
  <1>1. /\ status \in [Players -> {"absent", "playing", "away"}]
        /\ inviteSrc \in [Players -> Players \cup {NoPlayer}]
        /\ inviteDst \in [Players -> Players \cup {NoPlayer}]
        /\ purse \in [Players -> 0 .. MoneyLimit]
    BY DEF IInv, Shape, Invites, Ledger, Money
  <1>2. ASSUME NEW p \in Players
        PROVE  /\ box[p].other \in Players \cup {NoPlayer}
               /\ box[p].money \in 0 .. MoneyLimit
               /\ box[p].key \in 0 .. MaxMoves /\ box[p].confirm \in BOOLEAN
               /\ view[p].key \in 0 .. MaxMoves /\ view[p].fresh \in BOOLEAN
    <2>1. /\ box[p].other \in Players \cup {NoPlayer}
          /\ box[p].key \in Nat /\ box[p].confirm \in BOOLEAN
          /\ view[p] \in [key : Nat, fresh : BOOLEAN]
      BY DEF IInv, Shape
    <2>2. GoodBox(box[p]) /\ box[p].key <= moves /\ view[p].key <= moves /\ moves \in 0 .. MaxMoves
      BY DEF Ledger, Boxes
    <2>3. box[p].money \in 0 .. MoneyLimit
      BY <2>2 DEF GoodBox
    <2>4. view[p].key \in Nat /\ view[p].fresh \in BOOLEAN
      BY <2>1
    <2>5. box[p].key \in 0 .. MaxMoves /\ view[p].key \in 0 .. MaxMoves
      BY <2>1, <2>2, <2>4, TradingAssumption
    <2> QED
      BY <2>1, <2>3, <2>4, <2>5
  <1>3. bag \in [Players -> [Slots -> ItemRec]]
    <2>1. Item \subseteq ItemRec
      <3>1. Ptrs \subseteq Ptrs \cup {0} /\ 1 .. MaxID \subseteq 0 .. MaxID /\ 1 .. MaxStack \subseteq 0 .. MaxStack
        OBVIOUS
      <3> QED
        BY <3>1 DEF Item, ItemRec
    <2>2. Empty \in ItemRec
      <3>1. 0 \in Ptrs \cup {0} /\ 0 \in 0 .. MaxID /\ 0 \in 0 .. MaxStack
        BY PlayersFinite, TradingAssumption DEF MaxID
      <3> QED
        BY <3>1 DEF Empty, ItemRec
    <2>3. bag \in [Players -> Bags]
      BY DEF Ledger, Stock
    <2> QED
      BY <2>1, <2>2, <2>3 DEF Bags, Things
  <1> QED
    BY <1>1, <1>2, <1>3 DEF TypeOK

LEMMA LedgerItems ==
    ASSUME Stock
    PROVE  ItemsConserved
  <1> DEFINE all    == Players \X Slots
             at     == [x \in all |-> bag[x[1]][x[2]]]
             places == {x \in DOMAIN at : at[x] # Empty}
             num    == [x \in places |-> at[x].num]
             w      == [x \in all |-> bag[x[1]][x[2]].num]
  <1>1. \A x \in all : at[x] = bag[x[1]][x[2]] /\ w[x] = at[x].num /\ x[1] \in Players /\ x[2] \in Slots
                       /\ x = <<x[1], x[2]>>
    OBVIOUS
  <1>2. places \in SUBSET all /\ (\A x \in places : at[x] # Empty /\ num[x] = at[x].num)
        /\ \A x \in all \ places : at[x] = Empty
    OBVIOUS
  <1>3. \A x, y \in places : at[x].ptr = at[y].ptr \/ at[x].id = at[y].id => x = y
    <2> SUFFICES ASSUME NEW x \in places, NEW y \in places, at[x].ptr = at[y].ptr \/ at[x].id = at[y].id
                 PROVE  x = y
      OBVIOUS
    <2>1. x \in all /\ y \in all /\ Was(at[x], x) /\ Was(at[y], y)
      <3> HIDE DEF at, all, places
      <3> QED
        BY <1>1, <1>2 DEF Was, SameObject
    <2> HIDE DEF at, places
    <2> QED
      BY <2>1, StaysApart
  <1>4. \A p \in Players : Held[p] = Total(Line(w, p, Slots), Slots)
    <2> SUFFICES ASSUME NEW p \in Players PROVE Held[p] = Total(Line(w, p, Slots), Slots)
      OBVIOUS
    <2>1. Line(w, p, Slots) = [s \in Slots |-> bag[p][s].num]
      BY DEF Line
    <2> QED
      BY <2>1, Zenon DEF Held, Units
  <1>5. \A x \in all : at[x] \in Things /\ w[x] \in Int
    BY <1>1, ThingTypes DEF Stock, Bags
  <1>6. IsFiniteSet(Players) /\ IsFiniteSet(Slots) /\ IsFiniteSet(all)
    BY PlayersFinite, SlotsFinite, FS_Product
  <1> HIDE DEF at, num, w, places
  <1>7. Total(w, all) = Total(Held, Players)
    <2>1. \A x \in Players \X Slots : w[x] \in Int
      BY <1>5
    <2>2. Total(w, Players \X Slots) = Total(Held, Players)
      BY <1>4, <1>6, <2>1, SumPairs
    <2> QED
      BY <2>2
  <1> HIDE DEF all
  <1>8. Total(w, all) = Total(w, places) + Total(w, all \ places)
    BY <1>2, <1>5, <1>6, SumSplit
  <1>9. IsFiniteSet(places) /\ IsFiniteSet(all \ places)
    <2>1. all \ places \in SUBSET all
      OBVIOUS
    <2> QED
      BY <1>2, <1>6, <2>1, FS_Subset
  <1>10. Total(w, all \ places) = 0
    <2>1. \A x \in all \ places : w[x] = 0
      BY <1>1, <1>2, ThingTypes
    <2> QED
      BY <1>9, <2>1, SumZeros
  <1>11. Total(w, places) = Total(num, places) /\ Total(w, places) \in Int
    <2>1. \A x \in places : w[x] \in Int /\ w[x] = num[x]
      BY <1>1, <1>2, <1>5
    <2> QED
      BY <1>9, <2>1, SumAgree, SumType
  <1>12. Total(num, places) + world.units = Many + MaxMoves
    <2>1. Total(num, places) = Total(Held, Players)
      BY <1>7, <1>8, <1>10, <1>11
    <2> QED
      BY <2>1 DEF Stock, Counted
  <1>13. MapThenSumSet(LAMBDA x : num[x], places) = Total(num, places)
    BY Zenon DEF Total
  <1> QED
    BY <1>3, <1>12, <1>13, Zenon DEF ItemsConserved, at, num, places, all

\* Purses stay between 0 and their limit, stacks within theirs, keys within the
\* number of changes, and every status, box and invitation names a player.
THEOREM TradingTypes == Spec => []TypeOK
  BY TradingLedger, LedgerType, PTL

\* No exchange makes or loses money: a purse is never clamped, because the
\* check asks whether the receiver may have so much.
THEOREM NoMoneyMade == Spec => []MoneyConserved
  <1>1. Ledger => MoneyConserved
    BY DEF Ledger, Money
  <1> QED
    BY <1>1, TradingLedger, PTL

\* No exchange, rollback or errand duplicates or loses an item or a unit of one.
THEOREM NoItemMade == Spec => []ItemsConserved
  <1>1. Ledger => ItemsConserved
    BY LedgerItems DEF Ledger
  <1> QED
    BY <1>1, TradingLedger, PTL

-----------------------------------------------------------------------------
(* Trading is a fair exchange: every step is one of FairExchange.             *)

\* What the exchange sees of an item, and of the items at the places S of a bag.
Name(i)    == [id |-> i.id, num |-> i.num]
Part(b, S) == {Name(b[s]) : s \in S}
Full(b)    == {s \in Slots : b[s] # Empty}
Lots(b)    == Part(b, Full(b))

Named(items, n) == {Name(items[j]) : j \in 1 .. n}
NumOf(S) == [i \in S |-> i.num]

\* No two items of the bag have the same ID.
IdsApart(b) == \A s, t \in Full(b) : b[s].id = b[t].id => s = t

LEMMA NameIs == \A i : Name(i).id = i.id /\ Name(i).num = i.num
  BY DEF Name

\* The exchange counts units with the same sum.
LEMMA FairUnits == \A S : Fair!Units(S) = Total(NumOf(S), S)
  BY Zenon DEF Fair!Units, Fair!MapThenSumSet, MapThenSumSet, Fair!MapThenFoldSet, MapThenFoldSet,
               Total, NumOf

LEMMA LotsHeld ==
    ASSUME Stock, NEW p \in Players
    PROVE  Holds(p) = Lots(bag[p]) /\ IdsApart(bag[p])
  <1>1. Holds(p) = Lots(bag[p])
    BY Zenon DEF Holds, Lots, Part, Full, Name
  <1>2. IdsApart(bag[p])
    BY DEF IdsApart, Full, Stock, Apart
  <1> QED
    BY <1>1, <1>2

\* No two lots look alike, so that counting lots counts items.
LEMMA LotsUnits ==
    ASSUME NEW b \in Bags, IdsApart(b)
    PROVE  Fair!Units(Lots(b)) = Units(b)
  <1> DEFINE S == Full(b)
             R == Lots(b)
             f == [s \in S |-> Name(b[s])]
             u == [s \in Slots |-> b[s].num]
             v == [s \in S |-> b[s].num]
             w == NumOf(R)
  <1>1. S \in SUBSET Slots /\ \A s \in Slots \ S : b[s] = Empty
    BY DEF Full
  <1>2. IsFiniteSet(Slots) /\ IsFiniteSet(S) /\ IsFiniteSet(Slots \ S)
    <2>1. Slots \ S \in SUBSET Slots
      OBVIOUS
    <2> QED
      BY <1>1, <2>1, SlotsFinite, FS_Subset
  <1>3. R = {f[s] : s \in S}
    <2>1. R = {Name(b[s]) : s \in S}
      BY Zenon DEF Lots, Part
    <2>2. \A s \in S : f[s] = Name(b[s])
      OBVIOUS
    <2> HIDE DEF R, S, f
    <2> QED
      BY <2>1, <2>2
  <1>4. \A s, t \in S : f[s] = f[t] => s = t
    <2>1. \A s \in S : f[s].id = b[s].id
      BY NameIs
    <2> HIDE DEF f
    <2> QED
      BY <2>1 DEF IdsApart
  <1>5. \A s \in S : v[s] = w[f[s]]
    <2>1. \A s \in S : f[s] \in R /\ f[s].num = b[s].num /\ v[s] = b[s].num
      BY <1>3, NameIs
    <2>2. \A x \in R : w[x] = x.num
      BY DEF NumOf
    <2> HIDE DEF f, v, w, R
    <2> QED
      BY <2>1, <2>2
  <1>6. \A s \in Slots : u[s] = b[s].num /\ u[s] \in Int
    BY UnitsType
  <1>7. \A s \in S : v[s] \in Int /\ u[s] = v[s]
    BY <1>1, <1>6
  <1>8. \A s \in Slots \ S : u[s] = 0
    BY <1>1, <1>6, ThingTypes
  <1>9. Units(b) = Total(u, Slots) /\ Fair!Units(R) = Total(w, R)
    BY FairUnits DEF Units
  <1> HIDE DEF S, R, f, u, v, w
  <1>10. Total(v, S) = Total(w, R)
    <2>1. \A s \in S : v[s] = w[f[s]] /\ v[s] \in Int
      BY <1>5, <1>7
    <2> QED
      BY <1>2, <1>3, <1>4, <2>1, SumBijection
  <1>11. Total(u, Slots) = Total(u, S) + Total(u, Slots \ S)
    BY <1>1, <1>2, <1>6, SumSplit
  <1>12. Total(u, Slots \ S) = 0
    BY <1>2, <1>8, SumZeros
  <1>13. Total(u, S) = Total(v, S) /\ Total(u, S) \in Int
    <2>1. \A s \in S : u[s] \in Int
      BY <1>1, <1>6
    <2> QED
      BY <1>2, <1>7, <2>1, SumAgree, SumType
  <1> QED
    BY <1>9, <1>10, <1>11, <1>12, <1>13 DEF R

\* The lots picked up are those of their places.
LEMMA LotsPicked ==
    ASSUME NEW b \in Bags, IdsApart(b), NEW P \in SUBSET Full(b), NEW c,
           \A s \in Slots : IF s \in P THEN c[s] = Empty ELSE c[s] = b[s]
    PROVE  Lots(c) = Lots(b) \ Part(b, P)
  <1>1. Full(c) = Full(b) \ P
    BY DEF Full
  <1>2. \A s \in Full(c) : c[s] = b[s]
    BY <1>1 DEF Full
  <1>3. ASSUME NEW s \in Full(b), NEW t \in Full(b), Name(b[s]) = Name(b[t])
        PROVE  s = t
    <2>1. b[s].id = b[t].id
      BY <1>3, NameIs
    <2> QED
      BY <2>1 DEF IdsApart
  <1>4. ASSUME NEW x, x \in Lots(c) PROVE x \in Lots(b) \ Part(b, P)
    <2>1. PICK s \in Full(c) : x = Name(b[s])
      BY <1>2, <1>4 DEF Lots, Part
    <2>2. s \in Full(b) /\ s \notin P /\ x \in Lots(b)
      BY <1>1, <2>1 DEF Lots, Part
    <2>3. x \notin Part(b, P)
      BY <1>3, <2>1, <2>2 DEF Part
    <2> QED
      BY <2>2, <2>3
  <1>5. ASSUME NEW x, x \in Lots(b) \ Part(b, P) PROVE x \in Lots(c)
    <2>1. PICK s \in Full(b) : x = Name(b[s])
      BY <1>5 DEF Lots, Part
    <2>2. s \in Full(c)
      BY <1>1, <1>5, <2>1 DEF Part
    <2> QED
      BY <1>2, <2>1, <2>2 DEF Lots, Part
  <1> QED
    BY <1>4, <1>5

\* An item put into a free place is one more lot.
LEMMA LotsPlaced ==
    ASSUME NEW b \in Bags, NEW i \in Item, FreeSlots(b) # {}
    PROVE  Lots(Placed(b, i)) = Lots(b) \cup {Name(i)}
  <1>1. PICK z \in FreeSlots(b) : Placed(b, i) = [b EXCEPT ![z] = i]
    BY PlacedAt
  <1> DEFINE c == Placed(b, i)
  <1>2. /\ z \in Slots /\ z \notin Full(b) /\ c[z] = i /\ i # Empty
        /\ \A s \in Slots \ {z} : c[s] = b[s]
    BY <1>1, ThingTypes DEF FreeSlots, Bags, Full
  <1> HIDE DEF c
  <1>3. Full(c) = Full(b) \cup {z} /\ \A s \in Full(b) : c[s] = b[s]
    BY <1>2 DEF Full
  <1>4. Lots(c) = Lots(b) \cup {Name(i)}
    BY <1>2, <1>3 DEF Lots, Part
  <1> QED
    BY <1>4 DEF c

\* Items put away one after the other at free places stay the lots they were.
LEMMA LotsReceived ==
    ASSUME NEW b \in Bags, NEW n \in Nat, NEW items \in [1 .. n -> Item], NEW F,
           PlacedRun(b, n, items, F), Cardinality(FreeSlots(b)) >= n
    PROVE  Lots(F[n]) = Lots(b) \cup Named(items, n)
  <1> DEFINE J(k) == /\ Lots(F[k]) = Lots(b) \cup Named(items, k)
                     /\ Cardinality(FreeSlots(F[k])) >= n - k
             K == {k \in Nat : k <= n => J(k)}
  <1>1. F \in [0 .. n -> Bags] /\ F[0] = b
    BY DEF PlacedRun
  <1>2. 0 \in K
    <2>1. Named(items, 0) = {}
      BY DEF Named
    <2>2. Cardinality(FreeSlots(F[0])) >= n - 0
      BY <1>1
    <2> QED
      BY <1>1, <2>1, <2>2
  <1>3. ASSUME NEW k \in K PROVE k + 1 \in K
    <2> SUFFICES ASSUME k + 1 <= n PROVE J(k + 1)
      OBVIOUS
    <2>1. k \in Nat /\ J(k) /\ k + 1 \in 1 .. n /\ k \in 0 .. n /\ k + 1 \in 0 .. n /\ (k + 1) - 1 = k
      OBVIOUS
    <2> DEFINE d == F[k]
               c == F[k + 1]
               i == items[k + 1]
    <2>2. Lots(d) = Lots(b) \cup Named(items, k) /\ Cardinality(FreeSlots(d)) >= n - k
      BY <2>1, Zenon
    <2>3. d \in Bags /\ c \in Bags /\ i \in Item
      BY <1>1, <2>1
    <2>4. c = Placed(d, i)
      <3>1. F[k + 1] = Placed(F[(k + 1) - 1], items[k + 1])
        BY <2>1, Zenon DEF PlacedRun
      <3> QED
        BY <2>1, <3>1
    <2>5. FreeSlots(d) # {}
      <3> SUFFICES ASSUME FreeSlots(d) = {} PROVE FALSE
        OBVIOUS
      <3>1. Cardinality(FreeSlots(d)) = 0
        BY FS_EmptySet, Zenon
      <3> DEFINE m == Cardinality(FreeSlots(d))
      <3>2. m = 0 /\ m >= n - k
        BY <2>2, <3>1, Zenon
      <3> HIDE DEF m
      <3> QED
        BY <2>1, <3>2
    <2>6. Named(items, k + 1) = Named(items, k) \cup {Name(i)}
      <3>1. 1 .. k + 1 = (1 .. k) \cup {k + 1}
        BY <2>1
      <3> QED
        BY <3>1 DEF Named
    <2> HIDE DEF d, c, i
    <2>7. Lots(c) = Lots(b) \cup Named(items, k + 1)
      <3>1. Lots(c) = Lots(d) \cup {Name(i)}
        BY <2>3, <2>4, <2>5, LotsPlaced
      <3> QED
        BY <2>2, <2>6, <3>1
    <2>8. Cardinality(FreeSlots(c)) >= n - (k + 1)
      <3>1. Takes(d, i, c)
        BY <2>3, <2>4, <2>5, PlacedTakes
      <3>2. Cardinality(FreeSlots(c)) + 1 >= Cardinality(FreeSlots(d))
        BY <2>3, <3>1, TakesOne
      <3>3. Cardinality(FreeSlots(c)) \in Nat /\ Cardinality(FreeSlots(d)) \in Nat
        <4>1. FreeSlots(c) \in SUBSET Slots /\ FreeSlots(d) \in SUBSET Slots
          BY DEF FreeSlots
        <4> QED
          BY <4>1, SlotsFinite, FS_Subset, FS_CardinalityType
      <3> DEFINE x == Cardinality(FreeSlots(c))
                 y == Cardinality(FreeSlots(d))
      <3>4. x + 1 >= y /\ y >= n - k /\ x \in Nat /\ y \in Nat
        BY <2>2, <3>2, <3>3
      <3> HIDE DEF x, y
      <3>5. x >= n - (k + 1)
        BY <2>1, <3>4
      <3> QED
        BY <3>5 DEF x
    <2> QED
      BY <2>7, <2>8 DEF c
  <1> HIDE DEF J
  <1>4. K = Nat
    <2> HIDE DEF K
    <2>1. K \subseteq Nat
      BY DEF K
    <2> QED
      BY <1>2, <1>3, <2>1, NatSetInduction
  <1>5. J(n)
    BY <1>4
  <1> QED
    BY <1>5 DEF J

\* What every player has, as the exchange sees it.
Lend == [p \in Players |-> Holds(p)]

\* Two kinds of steps of the exchange.
LEMMA Negotiates ==
    ASSUME UNCHANGED <<bag, purse>>,
           \A p \in Players : agreed'[p] \in {agreed[p], Sight(p), NoDeal}
    PROVE  Fair!Next
  <1>1. Lend' = Lend
    BY Zenon DEF Lend, Holds
  <1>2. \A p \in Players : [q \in Players |-> Sight(q)][p] = Sight(p)
    OBVIOUS
  <1>3. Fair!Negotiate
    BY <1>1, <1>2 DEF Fair!Negotiate, Lend
  <1> QED
    BY <1>3 DEF Fair!Next

LEMMA OwnStep ==
    ASSUME NEW p \in Players, UNCHANGED agreed,
           \A q \in Players \ {p} : bag'[q] = bag[q] /\ purse'[q] = purse[q]
    PROVE  Fair!Next
  <1>1. \A q \in Players \ {p} : Lend'[q] = Lend[q]
    <2>1. \A q \in Players \ {p} : Holds(q)' = Holds(q)
      BY DEF Holds
    <2> QED
      BY <2>1 DEF Lend
  <1>2. Fair!Own(p)
    BY <1>1 DEF Fair!Own, Lend
  <1> QED
    BY <1>2 DEF Fair!Next

\* What a player does with its own things is its own business.
LEMMA ErrandStep ==
    ASSUME IInv, Ledger, NEW p \in Players, Errand(p)
    PROVE  Fair!Next
  <1>1. UNCHANGED agreed
    BY ErrandsLeave
  <1>2. bag \in [Players -> Bags] /\ purse \in [Players -> 0 .. MoneyLimit]
    BY DEF Ledger, Stock, Money
  <1>3. (UNCHANGED bag \/ \E b : SetBag(p, b)) /\ (UNCHANGED purse \/ \E m : purse' = [purse EXCEPT ![p] = m])
    <2>1. ASSUME NEW s, DestroyItem(p, s) PROVE (\E b : SetBag(p, b)) /\ UNCHANGED purse
      BY <2>1, Zenon DEF DestroyItem
    <2>2. ASSUME GainItem(p) PROVE (\E b : SetBag(p, b)) /\ UNCHANGED purse
      BY <2>2, Zenon DEF GainItem
    <2>3. ASSUME ChangeMoney(p) PROVE UNCHANGED bag /\ \E m : purse' = [purse EXCEPT ![p] = m]
      BY <2>3, Zenon DEF ChangeMoney
    <2>4. ASSUME NEW s, NEW t, NEW n, ExchangeItem(p, s, t, n) PROVE (\E b : SetBag(p, b)) /\ UNCHANGED purse
      BY <2>4, Zenon DEF ExchangeItem
    <2> QED
      BY <2>1, <2>2, <2>3, <2>4, Zenon DEF Errand
  <1>4. \A q \in Players \ {p} : bag'[q] = bag[q] /\ purse'[q] = purse[q]
    <2>1. \A q \in Players \ {p} : bag'[q] = bag[q]
      BY <1>2, <1>3 DEF SetBag
    <2>2. \A q \in Players \ {p} : purse'[q] = purse[q]
      BY <1>2, <1>3
    <2> QED
      BY <2>1, <2>2
  <1> QED
    BY <1>1, <1>4, OwnStep

\* Invitations, leaving and filling boxes only take agreements back.
LEMMA TalkStep ==
    ASSUME IInv, NEW p \in Players, NoGoods(p) \/ Filling(p)
    PROVE  Fair!Next
  <1>1. UNCHANGED <<bag, purse>>
    BY GoodsLeft, FillingLeaves DEF goods
  <1>2. DOMAIN agreed = Players
    BY DEF IInv, Shape
  <1>3. ASSUME NEW q \in Players PROVE agreed'[q] \in {agreed[q], NoDeal}
    <2>1. CASE UNCHANGED agreed
      BY <2>1
    <2>2. ASSUME NEW r, NEW t, agreed' = [agreed EXCEPT ![r] = NoDeal, ![t] = NoDeal]
          PROVE  agreed'[q] \in {agreed[q], NoDeal}
      BY <1>2, <2>2
    <2>3. ASSUME NEW gone, agreed' = [r \in Players |-> IF r \in gone THEN NoDeal ELSE agreed[r]]
          PROVE  agreed'[q] \in {agreed[q], NoDeal}
      BY <2>3
    <2>4. Enter(p) \/ StatusChanges(p) \/ OnTradingInviteRespond(p) \/ OnSync(p)
          \/ (\E r \in Players : OnTradingInviteRequest(p, r)) => UNCHANGED agreed
      BY Zenon DEF Enter, StatusChanges, OnTradingInviteRespond, OnSync, OnTradingInviteRequest
    <2>5. OnTradingCancel(p) => \E r, t : agreed' = [agreed EXCEPT ![r] = NoDeal, ![t] = NoDeal]
      BY Zenon DEF OnTradingCancel, ClearTradingInfo
    <2>6. ASSUME NEW b, Changes(p, b) PROVE \E r, t : agreed' = [agreed EXCEPT ![r] = NoDeal, ![t] = NoDeal]
      BY <2>6, Zenon DEF Changes
    <2>7. Filling(p) => \E b : Changes(p, b)
      <3>1. ASSUME NEW g, NEW s, AddItem(p, g, s) PROVE \E b : Changes(p, b)
        BY <3>1, Zenon DEF AddItem
      <3>2. ASSUME NEW g, DelItem(p, g) PROVE \E b : Changes(p, b)
        BY <3>2, Zenon DEF DelItem
      <3>3. ASSUME NEW n, SetMoney(p, n) PROVE \E b : Changes(p, b)
        BY <3>3, Zenon DEF SetMoney
      <3> QED
        BY <3>1, <3>2, <3>3, Zenon DEF Filling
    <2>8. UnInit(p) => \E gone : agreed' = [r \in Players |-> IF r \in gone THEN NoDeal ELSE agreed[r]]
      BY Zenon DEF UnInit
    <2> QED
      BY <2>1, <2>2, <2>3, <2>4, <2>5, <2>6, <2>7, <2>8, Zenon DEF NoGoods
  <1> QED
    BY <1>1, <1>3, Negotiates

\* The first of the two to confirm agrees to what it sees.
LEMMA FirstConfirm ==
    ASSUME IInv, NEW p \in Players, OnTradingConfirm(p), ~box[Other(p)].confirm
    PROVE  Fair!Next
  <1>1. agreed' = [agreed EXCEPT ![p] = Sight(p)] /\ UNCHANGED <<bag, purse>>
    BY Zenon DEF OnTradingConfirm, Confirm, goods
  <1>2. DOMAIN agreed = Players
    BY DEF IInv, Shape
  <1>3. \A q \in Players : agreed'[q] \in {agreed[q], Sight(q), NoDeal}
    BY <1>1, <1>2
  <1> QED
    BY <1>1, <1>3, Negotiates

\* What the exchange counts is what lies in the bags.
Reckoned == \A p \in Players : Fair!Units(Lend[p]) = Units(bag[p])

LEMMA StockReckoned == Stock => Reckoned
  <1> SUFFICES ASSUME Stock, NEW p \in Players PROVE Fair!Units(Lend[p]) = Units(bag[p])
    BY DEF Reckoned
  <1>1. Lend[p] = Lots(bag[p]) /\ IdsApart(bag[p])
    BY LotsHeld DEF Lend
  <1>2. bag[p] \in Bags
    BY DEF Stock
  <1>3. Fair!Units(Lots(bag[p])) = Units(bag[p])
    BY <1>1, <1>2, LotsUnits
  <1> QED
    BY <1>1, <1>3

\* What p offers is what it gives: the check has compared every item with its promise.
LEMMA OfferGiven ==
    ASSUME NEW p \in Players, NEW n, NEW s, Gives(p, n, s), \A g \in Grids : GridIsSound(p, g)
    PROVE  /\ Offer(p).items = Part(bag[p], Picked(p))
           /\ Offer(p).items = Named(Given(p), n)
           /\ Picked(p) \subseteq Full(bag[p])
  <1> DEFINE filled == {h \in Grids : Filled(p, h)}
             d(g) == box[p].grid[g]
             b == bag[p]
  <1>1. Offer(p).items = {Name(d(g)) : g \in filled} /\ Picked(p) = {d(g).slot : g \in filled}
    BY DEF Offer, Name, Picked
  <1>2. \A g \in filled : b[d(g).slot].id = d(g).id /\ b[d(g).slot].num = d(g).num
    BY Zenon DEF GridIsSound
  <1>3. /\ {s[k] : k \in 1 .. n} = Picked(p) /\ s \in [1 .. n -> Slots]
        /\ Given(p) = [k \in 1 .. n |-> b[s[k]]]
        /\ \A k \in 1 .. n : b[s[k]] \in Item
    BY DEF Gives
  <1> HIDE DEF filled, d, b
  <1>4. \A g \in filled : Name(b[d(g).slot]) = Name(d(g))
    BY <1>2 DEF Name
  <1>5. Offer(p).items = Part(b, Picked(p))
    BY <1>1, <1>4 DEF Part
  <1>6. Named(Given(p), n) = Part(b, Picked(p))
    BY <1>3 DEF Part, Named
  <1>7. Picked(p) \subseteq Full(b)
    <2>1. \A k \in 1 .. n : s[k] \in Slots /\ b[s[k]] # Empty
      BY <1>3, ThingTypes
    <2> QED
      BY <1>3, <2>1 DEF Full
  <1> QED
    BY <1>5, <1>6, <1>7 DEF b

\* What p has after the exchange.
LEMMA HandedOver ==
    ASSUME Stock, NEW p \in Players, NEW m, NEW s, Gives(p, m, s),
           NEW q \in Players, NEW n, NEW t, Gives(q, n, t),
           \A g \in Grids : GridIsSound(p, g) /\ GridIsSound(q, g),
           Cardinality(FreeSlots(PickedUp(p))) >= Len(Given(q))
    PROVE  /\ Lots(FoldLeft(Placed, PickedUp(p), Given(q)))
                = (Lend[p] \ Offer(p).items) \cup Offer(q).items
           /\ Offer(p).items \subseteq Lend[p]
  <1>1. /\ PickedUp(p) \in Bags /\ Given(q) \in [1 .. n -> Item] /\ n \in Nat
        /\ Cardinality(FreeSlots(PickedUp(p))) >= n
    BY GivenType
  <1>2. PICK F : PlacedRun(PickedUp(p), n, Given(q), F)
    BY <1>1, PlacedSteps
  <1>3. FoldLeft(Placed, PickedUp(p), Given(q)) = F[n]
    BY <1>2, Zenon DEF PlacedRun
  <1>4. Lots(F[n]) = Lots(PickedUp(p)) \cup Named(Given(q), n)
    BY <1>1, <1>2, LotsReceived
  <1>5. Lend[p] = Lots(bag[p]) /\ IdsApart(bag[p]) /\ bag[p] \in Bags
    BY LotsHeld DEF Lend, Stock
  <1>6. /\ Offer(p).items = Part(bag[p], Picked(p)) /\ Picked(p) \subseteq Full(bag[p])
        /\ Offer(q).items = Named(Given(q), n)
    BY OfferGiven
  <1>7. Lots(PickedUp(p)) = Lots(bag[p]) \ Part(bag[p], Picked(p))
    <2>1. \A u \in Slots : IF u \in Picked(p) THEN PickedUp(p)[u] = Empty ELSE PickedUp(p)[u] = bag[p][u]
      BY PickedUnits
    <2> QED
      BY <1>5, <1>6, <2>1, LotsPicked
  <1>8. Part(bag[p], Picked(p)) \subseteq Lots(bag[p])
    BY <1>6 DEF Part, Lots
  <1> QED
    BY <1>3, <1>4, <1>5, <1>6, <1>7, <1>8

\* Who confirms when the other has: both see the same deal from their sides.
LEMMA BothSee ==
    ASSUME IInv, NEW p \in Players, OnTradingConfirm(p), box[Other(p)].confirm
    PROVE  /\ Other(p) \in Players /\ Other(p) # p /\ Other(Other(p)) = p
           /\ agreed[Other(p)] = [with |-> p, give |-> Offer(Other(p)), take |-> Offer(p)]
           /\ Sight(p) = [with |-> Other(p), give |-> Offer(p), take |-> Offer(Other(p))]
           /\ HasBox(p) /\ FinishTrading(p, Other(p))
  <1> DEFINE q == Other(p)
  <1>1. HasBox(p) /\ view[p].key = box[q].key /\ FinishTrading(p, q)
    BY Zenon DEF OnTradingConfirm, Confirm
  <1>2. q \in Players /\ q # p /\ Other(q) = p /\ HasBox(q) /\ box[p].key = box[q].key
    BY <1>1, TradingAssumption DEF IInv, Shape, Paired, HasBox, Other
  <1>3. agreed[q] = [with |-> p, give |-> Offer(q), take |-> Offer(p)]
    <2>1. agreed[q] = [with |-> Other(q), give |-> Offer(q), take |-> Offer(Other(q))]
      BY <1>2 DEF IInv, ConfirmedSeen
    <2> QED
      BY <1>2, <2>1, Zenon
  <1>4. view[p].fresh
    BY <1>1, <1>2 DEF IInv, KeyTells
  <1>5. Sight(p) = [with |-> q, give |-> Offer(p), take |-> Offer(q)]
    BY <1>1, <1>4, Zenon DEF Sight
  <1> QED
    BY <1>1, <1>2, <1>3, <1>5

\* Items put back: nobody has more or less than before.
LEMMA Regrouped ==
    ASSUME IInv, Boxes, Stock, Stock', NEW p \in Players, NEW q \in Players, q # p, q = Other(p),
           HasBox(p), FinishTradingCheck(p, q), RolledBack(p, q), UNCHANGED purse,
           agreed' = [agreed EXCEPT ![p] = NoDeal, ![q] = NoDeal]
    PROVE  Fair!Next
  <1>1. PICK m, s : Gives(p, m, s)
    BY BothGive
  <1>2. PICK n, t : Gives(q, n, t)
    BY BothGive
  <1> DEFINE c == FoldLeft(Added, PickedUp(p), Given(p))
             d == FoldLeft(Added, PickedUp(q), Given(q))
  <1>3. bag' = [bag EXCEPT ![p] = c, ![q] = d]
    BY Zenon DEF RolledBack
  <1>4. Units(c) = Units(bag[p]) /\ Units(d) = Units(bag[q])
    <2>1. Gets(p, p, m, c) /\ Gets(q, q, n, d)
      BY <1>1, <1>2, PutBack
    <2>2. Units(c) = Units(PickedUp(p)) + Worth(Given(p), m) /\ Units(d) = Units(PickedUp(q)) + Worth(Given(q), n)
      BY <2>1, Zenon DEF Gets
    <2>3. Units(bag[p]) = Units(PickedUp(p)) + Worth(Given(p), m) /\ Units(bag[q]) = Units(PickedUp(q)) + Worth(Given(q), n)
      BY <1>1, <1>2, PickedUnits
    <2> QED
      BY <2>2, <2>3
  <1> HIDE DEF c, d
  <1>5. \A r \in Players : Units(bag'[r]) = Units(bag[r])
    <2>1. bag'[p] = c /\ bag'[q] = d /\ \A r \in Players \ {p, q} : bag'[r] = bag[r]
      BY <1>3 DEF Stock
    <2> QED
      BY <1>4, <2>1
  <1>6. Reckoned /\ Reckoned'
    BY StockReckoned, PTL
  <1>7. \A r \in Players : Fair!Units(Lend'[r]) = Fair!Units(Lend[r])
    BY <1>5, <1>6 DEF Reckoned
  <1>8. \A r \in Players : agreed'[r] \in {agreed[r], NoDeal}
    BY DEF IInv, Shape
  <1>9. Fair!Regroup
    BY <1>7, <1>8 DEF Fair!Regroup, Lend
  <1> QED
    BY <1>9 DEF Fair!Next

\* The exchange, which swaps what both have agreed to.
LEMMA Swapped ==
    ASSUME IInv, Boxes, Money, Stock, NEW p \in Players, OnTradingConfirm(p),
           NEW q \in Players, q = Other(p), box[q].confirm,
           FinishTradingCheck(p, q),
           Cardinality(FreeSlots(PickedUp(p))) >= Len(Given(q)),
           Cardinality(FreeSlots(PickedUp(q))) >= Len(Given(p)),
           bag' = [bag EXCEPT ![p] = FoldLeft(Placed, PickedUp(p), Given(q)),
                              ![q] = FoldLeft(Placed, PickedUp(q), Given(p))],
           purse' = Paid(p, q),
           agreed' = [agreed EXCEPT ![p] = NoDeal, ![q] = NoDeal]
    PROVE  Fair!Next
  <1>1. /\ q # p /\ Other(q) = p /\ HasBox(p)
        /\ agreed[q] = [with |-> p, give |-> Offer(q), take |-> Offer(p)]
        /\ Sight(p) = [with |-> q, give |-> Offer(p), take |-> Offer(q)]
    BY BothSee
  <1>2. PICK m, s : Gives(p, m, s)
    BY <1>1, BothGive
  <1>3. PICK n, t : Gives(q, n, t)
    BY <1>1, BothGive
  <1>4. \A g \in Grids : GridIsSound(p, g) /\ GridIsSound(q, g)
    BY Zenon DEF FinishTradingCheck
  <1> DEFINE c == FoldLeft(Placed, PickedUp(p), Given(q))
             d == FoldLeft(Placed, PickedUp(q), Given(p))
             P == Offer(p).items
             Q == Offer(q).items
  <1>5. Lots(c) = (Lend[p] \ P) \cup Q /\ P \subseteq Lend[p]
    BY <1>2, <1>3, <1>4, HandedOver
  <1>6. Lots(d) = (Lend[q] \ Q) \cup P /\ Q \subseteq Lend[q]
    BY <1>2, <1>3, <1>4, HandedOver
  <1> HIDE DEF c, d, P, Q
  <1>7. Lend' = [Lend EXCEPT ![q] = (Lend[q] \ Q) \cup P, ![p] = (Lend[p] \ P) \cup Q]
    <2>1. bag'[p] = c /\ bag'[q] = d /\ \A r \in Players \ {p, q} : bag'[r] = bag[r]
      BY <1>1 DEF Stock, c, d
    <2>2. Lend = [r \in Players |-> Lots(bag[r])] /\ Lend' = [r \in Players |-> Lots(bag'[r])]
      BY Zenon DEF Lend, Holds, Lots, Part, Full, Name
    <2> DEFINE old == [r \in Players |-> Lots(bag[r])]
               new == [r \in Players |-> Lots(bag'[r])]
               x   == Lots(c)
               y   == Lots(d)
    <2>3. new[p] = x /\ new[q] = y /\ \A r \in Players \ {p, q} : new[r] = old[r]
      <3>1. \A r \in Players : new[r] = Lots(bag'[r]) /\ old[r] = Lots(bag[r])
        OBVIOUS
      <3> HIDE DEF new, old
      <3>2. new[p] = x /\ new[q] = y
        BY <2>1, <3>1, Zenon
      <3>3. ASSUME NEW r \in Players \ {p, q} PROVE new[r] = old[r]
        <4>1. r \in Players /\ bag'[r] = bag[r]
          BY <2>1
        <4> QED
          BY <3>1, <4>1, Zenon
      <3> QED
        BY <3>2, <3>3
    <2>4. old = [r \in Players |-> old[r]] /\ new = [r \in Players |-> new[r]]
      OBVIOUS
    <2> HIDE DEF old, new, x, y
    <2>5. new = [old EXCEPT ![q] = y, ![p] = x]
      BY <1>1, <2>3, <2>4
    <2> QED
      BY <1>5, <1>6, <2>2, <2>5, Zenon DEF old, new, x, y
  <1>8. purse' = [purse EXCEPT ![q] = purse[q] - Offer(q).money + Offer(p).money,
                               ![p] = purse[p] - Offer(p).money + Offer(q).money]
    <2> DEFINE x == purse[p] - box[p].money + box[q].money
               y == purse[q] + box[p].money - box[q].money
    <2>1. Paid(p, q) = [purse EXCEPT ![p] = x, ![q] = y]
      BY <1>1, PaidIs
    <2>2. Offer(p).money = box[p].money /\ Offer(q).money = box[q].money
      BY DEF Offer
    <2>3. y = purse[q] - box[q].money + box[p].money
      <3>1. purse[q] \in Int /\ box[p].money \in Int /\ box[q].money \in Int
        BY TradingAssumption DEF Money, Boxes, GoodBox
      <3> QED
        BY <3>1
    <2> HIDE DEF x, y
    <2>4. purse' = [purse EXCEPT ![q] = y, ![p] = x]
      BY <1>1, <2>1 DEF Money
    <2> QED
      BY <2>2, <2>3, <2>4 DEF x
  <1>9. agreed' = [agreed EXCEPT ![q] = NoDeal, ![p] = NoDeal]
    BY <1>1 DEF IInv, Shape
  <1>10. [r \in Players |-> Sight(r)][p] = Sight(p)
    OBVIOUS
  <1> DEFINE deal == agreed[q]
             sight == [r \in Players |-> Sight(r)][p]
  <1>11. /\ DOMAIN deal = {"with", "give", "take"} /\ DOMAIN sight = {"with", "give", "take"}
         /\ deal.with = p /\ deal.give = Offer(q) /\ deal.take = Offer(p)
         /\ sight.with = q /\ sight.give = Offer(p) /\ sight.take = Offer(q)
    BY <1>1, <1>10
  <1> HIDE DEF deal, sight
  <1>12. Fair!Swap(q, p)
    <2>1. \A e \in {deal, sight} : DOMAIN e = {"with", "give", "take"}
      BY <1>11
    <2>2. deal.give.items \subseteq Lend[q] /\ deal.take.items \subseteq Lend[p]
      BY <1>5, <1>6, <1>11 DEF P, Q
    <2>3. Lend' = [Lend EXCEPT ![q] = (Lend[q] \ deal.give.items) \cup deal.take.items,
                               ![p] = (Lend[p] \ deal.take.items) \cup deal.give.items]
      BY <1>7, <1>11 DEF P, Q
    <2>4. purse' = [purse EXCEPT ![q] = purse[q] - deal.give.money + deal.take.money,
                                 ![p] = purse[p] - deal.take.money + deal.give.money]
      BY <1>8, <1>11
    <2> QED
      BY <1>9, <1>11, <2>1, <2>2, <2>3, <2>4, Zenon DEF Fair!Swap, Lend, deal, sight
  <1> QED
    BY <1>1, <1>12 DEF Fair!Next

\* The second confirmation ends the trade, one way or the other.
LEMMA SecondConfirm ==
    ASSUME IInv, Ledger, Ledger', NEW p \in Players, OnTradingConfirm(p), box[Other(p)].confirm
    PROVE  Fair!Next
  <1> DEFINE q == Other(p)
  <1>1. q \in Players /\ q # p /\ HasBox(p) /\ FinishTrading(p, q)
    BY BothSee
  <1>2. agreed' = [agreed EXCEPT ![p] = NoDeal, ![q] = NoDeal]
    BY <1>1, Zenon DEF FinishTrading, ClearTradingInfo
  <1>3. Boxes /\ Money /\ Stock /\ Stock'
    BY DEF Ledger
  <1>4. CASE UNCHANGED <<bag, purse>>
    <2>1. \A r \in Players : agreed'[r] \in {agreed[r], Sight(r), NoDeal}
      BY <1>2 DEF IInv, Shape
    <2> QED
      BY <1>4, <2>1, Negotiates
  <1>5. CASE FinishTradingCheck(p, q) /\ RolledBack(p, q) /\ UNCHANGED purse
    BY <1>1, <1>2, <1>3, <1>5, Regrouped
  <1>6. CASE /\ FinishTradingCheck(p, q)
             /\ Cardinality(FreeSlots(PickedUp(p))) >= Len(Given(q))
             /\ Cardinality(FreeSlots(PickedUp(q))) >= Len(Given(p))
             /\ bag' = [bag EXCEPT ![p] = FoldLeft(Placed, PickedUp(p), Given(q)),
                                   ![q] = FoldLeft(Placed, PickedUp(q), Given(p))]
             /\ purse' = Paid(p, q)
    BY <1>1, <1>2, <1>3, <1>6, Swapped
  <1> QED
    BY <1>1, <1>4, <1>5, <1>6, Zenon DEF FinishTrading

\* Every step of trading is a step of the exchange.
LEMMA FairSteps ==
    ASSUME IInv, Ledger, Ledger', [Next]_vars
    PROVE  Fair!Next
  <1>1. CASE UNCHANGED vars
    <2>1. UNCHANGED <<bag, purse>> /\ agreed' = agreed
      BY <1>1 DEF vars
    <2> QED
      BY <2>1, Negotiates
  <1>2. ASSUME NEW p \in Players, OnTradingConfirm(p) PROVE Fair!Next
    BY <1>2, FirstConfirm, SecondConfirm
  <1> QED
    BY <1>1, <1>2, TalkStep, ErrandStep, Steps

\* Things change hands only by what both sides saw when they confirmed: trading
\* with its boxes, keys, checks and rollbacks implements the fair exchange.
THEOREM TradingIsFair == Spec => FairExchangeSpec
  <1>1. Init => Fair!Init
    BY DEF Init, Fair!Init
  <1>2. IInv /\ Ledger /\ Ledger' /\ [Next]_vars => Fair!Next
    BY FairSteps
  <1> QED
    BY <1>1, <1>2, TradingLedger, PTL DEF Spec, FairExchangeSpec, Fair!Spec

=============================================================================
