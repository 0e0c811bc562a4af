---------------------------- MODULE FairExchange ----------------------------
(***************************************************************************)
(* What trading promises: things change hands only in one atomic exchange, *)
(* in which each side gives what it has agreed to give and gets what it    *)
(* has agreed to get.  Each player deals with the rest of the world as it  *)
(* likes.  Items are records [id, num]; an offer is a set of them and an   *)
(* amount of money.                                                        *)
(***************************************************************************)
EXTENDS Integers, FiniteSets, FiniteSetsExt

CONSTANTS Players, NoDeal

VARIABLES
    holds,  \* the items each player owns
    purse,  \* its money
    sight,  \* the deal each player has before its eyes: [with, give, take], or
            \* just [with] when what it sees is out of date
    deal    \* the deal it has agreed to, or NoDeal

vars == <<holds, purse, sight, deal>>

Units(items) ==
    LET num == [i \in items |-> i.num]
    IN MapThenSumSet(LAMBDA i : num[i], items)

Init == \A p \in Players : deal[p] = NoDeal

\* One player's own business.
Own(p) ==
    /\ \A q \in Players \ {p} : holds'[q] = holds[q] /\ purse'[q] = purse[q]
    /\ deal' = deal

\* Items are stacked anew; nobody has more or less.
Regroup ==
    /\ \A p \in Players : Units(holds'[p]) = Units(holds[p])
    /\ purse' = purse
    /\ \A p \in Players : deal'[p] \in {deal[p], NoDeal}

\* A deal is shown, agreed to as it is shown, or given up.
Negotiate ==
    /\ UNCHANGED <<holds, purse>>
    /\ \A p \in Players : deal'[p] \in {deal[p], sight[p], NoDeal}

\* p has agreed to the deal that q, which agrees now, sees from the other side.
Swap(p, q) ==
    /\ \A d \in {deal[p], sight[q]} : DOMAIN d = {"with", "give", "take"}
    /\ deal[p].with = q /\ sight[q].with = p
    /\ deal[p].give = sight[q].take /\ deal[p].take = sight[q].give
    /\ deal[p].give.items \subseteq holds[p]
    /\ deal[p].take.items \subseteq holds[q]
    /\ holds' = [holds EXCEPT
            ![p] = (@ \ deal[p].give.items) \cup deal[p].take.items,
            ![q] = (@ \ deal[p].take.items) \cup deal[p].give.items]
    /\ purse' = [purse EXCEPT
            ![p] = @ - deal[p].give.money + deal[p].take.money,
            ![q] = @ - deal[p].take.money + deal[p].give.money]
    /\ deal' = [deal EXCEPT ![p] = NoDeal, ![q] = NoDeal]

Next ==
    \/ Negotiate
    \/ \E p \in Players : Own(p)
    \/ Regroup
    \/ \E p, q \in Players : p # q /\ Swap(p, q)

Spec == Init /\ [][Next]_vars

=============================================================================
