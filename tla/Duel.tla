-------------------------------- MODULE Duel --------------------------------
(***************************************************************************)
(* The KPKController of each player: duels between two players, and the    *)
(* slaying mode of one.  Both partners keep a stage of their own, move on  *)
(* in their own frames, and may fall, walk off, change the map or leave the *)
(* server; a role that left may be back before its partner's next frame.   *)
(*                                                                         *)
(* All duels are held at one place of one map.  Levels, cool-downs, camps, *)
(* teams, foes and fights are tests that may fail at any time.             *)
(***************************************************************************)
EXTENDS Naturals, FiniteSets

CONSTANTS
    Players, NoPlayer,  \* IDs of players, and ERROR_ID
    Slayers,            \* those whose level lets them slay
    Travellers,         \* bound: those that walk off, change the map, leave and return
    Fighters            \* bound: those that are struck

ASSUME DuelAssumption ==
    NoPlayer \notin Players /\ Slayers \cup Travellers \cup Fighters \subseteq Players

Asking   == {"pksWaitForDuelRespond", "pksConfirmDuel"}
Fighting == {"pksDueling", "pksDuelOutOfRange"}
Paired   == Asking \cup Fighting \cup {"pksPrepareDuel"}    \* IsDuel
Timed    == Asking \cup {"pksPrepareDuel", "pksDuelOutOfRange", "pksStartSlay", "pksExitSlay"}
Stages   == Paired \cup {"pksIdle", "pksStartSlay", "pksSlaying", "pksExitSlay"}

Ground   == {"near", "far"}     \* on the duel's map, within or out of its range
Places   == Ground \cup {"elsewhere", "loading", "gone"}

(* The player's record: where it is, m_eState, m_dwTargetID, whether       *)
(* m_nTimer has run out, m_dwFlagDoodadID, m_dwDuelLoser (only ever the     *)
(* player itself), whether it stands, must die (m_bToDie) or is dead, and   *)
(* m_dwKillerID.  alone is an observation: the partner of its duel has left, *)
(* or was drawn out of it by a third player.                               *)
VARIABLE pk

vars == pk

\* Mutant: the target is not forgotten.
IdleWithTarget(r) == [r EXCEPT !.stage = "pksIdle", !.due = FALSE, !.flag = FALSE, !.alone = FALSE]

Idle(r) == [r EXCEPT !.stage = "pksIdle", !.target = NoPlayer, !.due = FALSE,
                     !.flag = FALSE, !.alone = FALSE]

Init == pk = [p \in Players |->
    [place |-> "near", stage |-> "pksIdle", target |-> NoPlayer, due |-> FALSE,
     flag |-> FALSE, loser |-> FALSE, fate |-> "up", killer |-> NoPlayer, alone |-> FALSE]]

InScene(p) == pk[p].place \notin {"loading", "gone"}
SameMap(p, q) == {pk[p].place, pk[q].place} \subseteq Ground \/ pk[p].place = pk[q].place

\* One of the two is an enemy of the other by their duel (GetRelation).
Hostile(p, q) ==
    \/ pk[p].stage \in Fighting /\ pk[p].target = q
    \/ pk[q].stage \in Fighting /\ pk[q].target = p

\* Observes that the partner is one of E, who are in this duel no more.
Marked(r, E) == [r EXCEPT !.alone = @ \/ (r.stage \in Paired /\ r.target \in E)]

\* SetState of p and q to the stage of a duel with each other.  Whoever else p
\* or q was in a duel with is not told.
Engaged(s, p, q, stage, other) ==
    [x \in Players |->
        CASE x = p -> [s[x] EXCEPT !.stage = stage, !.target = q, !.due = FALSE, !.alone = FALSE]
          [] x = q -> [s[x] EXCEPT !.stage = other, !.target = p, !.due = FALSE, !.alone = FALSE]
          [] OTHER -> Marked(s[x], {p, q})]

\* Mutant: the target is found although it has left.
TargetIfLeft(s, p) == {q \in Players : q = s[p].target}

\* GetTargetPlayer: the partner, unless it has left.
TargetPlayer(s, p) == {q \in Players : q = s[p].target /\ s[q].place # "gone"}

\* Mutant: the partner's controller is left as it is.
CancelsOwnSide(s, p) == [s EXCEPT ![p] = Idle(@)]

\* Both become idle, and whichever of them holds the flag has it removed.  The
\* target is taken as it is found, whoever it is in a duel with by now.
CancelDuel(s, p) ==
    LET ended == {p} \cup TargetPlayer(s, p)
    IN [x \in Players |-> IF x \in ended THEN Idle(s[x]) ELSE Marked(s[x], ended)]

-----------------------------------------------------------------------------
(* Requests of the clients.                                                *)

ApplyDuel(p, q) ==
    /\ p # q
    /\ {pk[p].place, pk[q].place} = {"near"}
    /\ pk[p].stage = "pksIdle" /\ pk[q].stage = "pksIdle"
    /\ pk[p].fate # "dead" /\ pk[q].fate # "dead"
    /\ pk' = Engaged([pk EXCEPT ![p].flag = TRUE], p, q,
                     "pksWaitForDuelRespond", "pksConfirmDuel")

RefuseDuel(p) ==
    /\ InScene(p) /\ pk[p].stage = "pksConfirmDuel"
    /\ pk' = CancelDuel(pk, p)

MayAccept(p, q) ==
    /\ pk[p].stage = "pksConfirmDuel" /\ pk[p].fate # "dead"
    /\ q \in TargetPlayer(pk, p)
    /\ pk[q].stage = "pksWaitForDuelRespond" /\ pk[q].fate # "dead"
    /\ pk[p].place # "far"

\* Not accepted, it cancels whatever the player's controller is doing; on another
\* map the distance may come out either way.
AcceptDuel(p) ==
    LET q == pk[p].target IN
    /\ InScene(p)
    /\ \/ /\ MayAccept(p, q)
          /\ pk' = Engaged([pk EXCEPT ![p].loser = FALSE], p, q,
                           "pksPrepareDuel", "pksPrepareDuel")
       \/ /\ ~MayAccept(p, q) \/ pk[p].place = "elsewhere"
          /\ pk' = CancelDuel(pk, p)

LossDuel(p) ==
    /\ InScene(p) /\ pk[p].stage \in Fighting
    /\ pk' = CancelDuel(pk, p)

ApplySlay(p) ==
    /\ p \in Slayers /\ InScene(p)
    /\ pk[p].stage = "pksIdle" /\ pk[p].fate # "dead"
    /\ pk' = [pk EXCEPT ![p].stage = "pksStartSlay", ![p].due = FALSE]

CloseSlay(p) ==
    /\ InScene(p) /\ pk[p].stage = "pksSlaying"
    /\ pk' = [pk EXCEPT ![p].stage = "pksExitSlay", ![p].due = FALSE]

-----------------------------------------------------------------------------
(* A frame of the player.                                                  *)

\* Mutant: a request that is not answered in time is kept.
OnlyAbsenceTimed(p) == pk[p].due /\ pk[p].stage = "pksDuelOutOfRange"

\* The time for an answer, or for coming back into range, is over.
Overdue(p) == pk[p].due /\ pk[p].stage \in Asking \cup {"pksDuelOutOfRange"}

\* OnWaitConfirmDuel, OnPrepareDuel, OnDueling and OnDuelOutOfRange end the duel;
\* barred: they have become team mates or foes, are in a fight, or out of range
\* on another map.
Breaks(p, barred) ==
    \/ barred \/ Overdue(p)
    \/ TargetPlayer(pk, p) = {}
    \/ pk[p].fate = "dead"
    \/ pk[p].stage \notin Fighting /\ ~SameMap(p, pk[p].target)
    \/ pk[p].stage = "pksPrepareDuel" /\ pk[p].place = "far"
    \/ pk[p].stage \in Fighting /\ pk[p].place \notin Ground

\* The stages a player goes through by itself.
NextStage(p) ==
    LET stage == pk[p].stage
        due   == pk[p].due
    IN CASE stage = "pksPrepareDuel" /\ due                     -> "pksDueling"
         [] stage = "pksDueling" /\ pk[p].place = "far"         -> "pksDuelOutOfRange"
         [] stage = "pksDuelOutOfRange" /\ pk[p].place = "near" -> "pksDueling"
         [] stage = "pksStartSlay" /\ due                       -> "pksSlaying"
         [] stage = "pksExitSlay" /\ due                        -> "pksIdle"
         [] OTHER                                               -> stage

\* KPKController::Activate.
Activated(p, barred) ==
    IF pk[p].stage \in Paired /\ Breaks(p, barred) THEN CancelDuel(pk, p)
    ELSE [pk EXCEPT ![p] = [pk[p] EXCEPT !.stage = NextStage(p),
                                         !.due = pk[p].due /\ NextStage(p) = pk[p].stage]]

\* GoToHell of p by the killer k.
Struck(s, p, k) ==
    IF s[p].fate # "up" THEN s
    ELSE [s EXCEPT ![p].fate = "falling", ![p].killer = k,
                   ![p].loser = @ \/ s[p].stage \in Fighting]

Risen(r) == [r EXCEPT !.fate = "up", !.killer = NoPlayer]

\* CheckDie: whoever fell to the duel's partner loses it and lives, as does a
\* partner that fell with it; anyone else dies, unless its death script says no.
Died(s, p, spared) ==
    LET me == s[p]
    IN  IF me.fate # "falling" THEN s
        ELSE IF me.stage \in Fighting /\ me.loser /\ me.killer \in {me.target, p}
        THEN LET c == CancelDuel(s, p)
             IN [x \in Players |->
                    IF x = p THEN [Risen(c[x]) EXCEPT !.loser = FALSE]
                    ELSE IF x \in TargetPlayer(s, p) /\ s[x].fate = "falling"
                    THEN Risen(c[x]) ELSE c[x]]
        ELSE IF spared THEN [s EXCEPT ![p] = Risen(@)]
        ELSE [s EXCEPT ![p].fate = "dead"]

Blows(p) == {p, NoPlayer} \cup {q \in Players \ {p} : Hostile(p, q) /\ pk[q].place # "gone"}

\* KPlayer::Activate of a player in a scene; its controller's turn comes every
\* half second.  Buffs and bullets strike after it, and CheckDie comes last.
Frame(p, turn) ==
    /\ InScene(p)
    /\ \E barred, spared \in BOOLEAN :
       LET s == IF turn THEN Activated(p, barred) ELSE pk
       IN \/ pk' = Died(s, p, spared)
          \/ p \in Fighters /\ s[p].stage \in Paired /\ \E k \in Blows(p) : pk' = Died(Struck(s, p, k), p, spared)

\* Struck in somebody else's frame.
Strike(p) ==
    /\ p \in Fighters /\ InScene(p) /\ pk[p].stage \in Paired /\ pk[p].fate = "up"
    /\ \E k \in Blows(p) : pk' = Struck(pk, p, k)

Revive(p) ==
    /\ InScene(p) /\ pk[p].fate = "dead"
    /\ pk' = [pk EXCEPT ![p] = Risen(@)]

\* g_pSO3World->m_nGameLoop reaches m_nTimer, which the two of a request or of a
\* countdown share.
TimeUp(p) ==
    LET q == pk[p].target
        shared == {x \in Players : /\ x = q /\ pk[x].target = p
                                   /\ {pk[p].stage, pk[x].stage} \in {Asking, {"pksPrepareDuel"}}}
    IN /\ pk[p].stage \in Timed /\ ~pk[p].due
       /\ pk' = [x \in Players |-> IF x \in {p} \cup shared THEN [pk[x] EXCEPT !.due = TRUE] ELSE pk[x]]

-----------------------------------------------------------------------------
(* Where the players are.                                                  *)

Walk(p) ==
    /\ p \in Travellers /\ pk[p].place \in Ground /\ pk[p].fate # "dead"
    /\ pk' = [pk EXCEPT ![p].place = IF @ = "near" THEN "far" ELSE "near"]

LeaveScene(p) ==
    /\ p \in Travellers /\ InScene(p)
    /\ pk' = [pk EXCEPT ![p].place = "loading"]

EnterScene(p) ==
    /\ pk[p].place = "loading"
    /\ \E place \in {"near", "elsewhere"} : pk' = [pk EXCEPT ![p].place = place]

\* The stages that are saved with the role.
Saved(r) == [Idle(r) EXCEPT !.place = "gone", !.loser = FALSE,
                            !.stage = IF r.stage \in {"pksSlaying", "pksExitSlay"} THEN r.stage ELSE "pksIdle",
                            !.fate = IF r.fate = "dead" THEN "dead" ELSE "up",
                            !.killer = IF r.fate = "dead" THEN r.killer ELSE NoPlayer]

\* Mutant: the controller is not uninitialised.
LeavesFlag(p) ==
    /\ p \in Travellers /\ pk[p].place # "gone"
    /\ pk' = [x \in Players |->
                IF x = p THEN [Saved(pk[p]) EXCEPT !.flag = pk[p].flag] ELSE Marked(pk[x], {p})]

\* DelPlayer: UnInit removes the player's own flag; the partner is not told.
DelPlayer(p) ==
    /\ p \in Travellers /\ pk[p].place # "gone"
    /\ pk' = [x \in Players |-> IF x = p THEN Saved(pk[p]) ELSE Marked(pk[x], {p})]

\* The role enters again: Init, then the saved stage.
NewPlayer(p) ==
    /\ pk[p].place = "gone"
    /\ pk' = [pk EXCEPT ![p].place = "loading"]

Next == \E p \in Players :
    \/ \E q \in Players : ApplyDuel(p, q)
    \/ RefuseDuel(p) \/ AcceptDuel(p) \/ LossDuel(p)
    \/ ApplySlay(p) \/ CloseSlay(p)
    \/ \E turn \in BOOLEAN : Frame(p, turn)
    \/ Strike(p) \/ Revive(p) \/ TimeUp(p)
    \/ Walk(p) \/ LeaveScene(p) \/ EnterScene(p) \/ DelPlayer(p) \/ NewPlayer(p)

\* Frames come and time passes; nothing obliges a client to do anything.
Fairness == \A p \in Players :
    /\ WF_vars(Frame(p, TRUE))
    /\ WF_vars(TimeUp(p))

Spec     == Init /\ [][Next]_vars
FairSpec == Spec /\ Fairness

-----------------------------------------------------------------------------

Record == [place : Places, stage : Stages, target : Players \cup {NoPlayer}, due : BOOLEAN,
           flag : BOOLEAN, loser : BOOLEAN, fate : {"up", "falling", "dead"},
           killer : Players \cup {NoPlayer}, alone : BOOLEAN]

\* The players' records; only who is in a duel has a partner.
TypeOK ==
    /\ pk \in [Players -> Record]
    /\ \A p \in Players : pk[p].stage \in Paired <=> pk[p].target # NoPlayer

\* Stages that partners can be in at the same time.
Fits(s, t) == {s, t} = Asking \/ {s, t} \cap Asking = {}

\* A partner that has not been lost takes part in the same duel, at a stage
\* that goes with the player's own: no path through cancelling, accepting,
\* falling or leaving ends the duel for one of them only.
Partners == \A p \in Players :
    LET q == pk[p].target IN
    pk[p].stage \in Paired /\ ~pk[p].alone =>
        /\ pk[q].place # "gone"
        /\ pk[q].stage \in Paired /\ pk[q].target = p /\ ~pk[q].alone
        /\ Fits(pk[p].stage, pk[q].stage)

\* A duel has one flag, held by one of the two; whoever is in no duel holds none.
OneFlag == \A p \in Players :
    /\ pk[p].flag => pk[p].stage \in Paired
    /\ pk[p].stage \in Paired /\ ~pk[p].alone => (pk[p].flag <=> ~pk[pk[p].target].flag)

\* No player is kept in a stage with a time limit, as long as it stays in a scene:
\* requests, countdowns and absences are answered, taken back or over.
StageEnds == \A p \in Players :
    pk[p].stage \in Timed ~> (pk[p].stage \notin Timed \/ ~InScene(p))

Deserted(p) == pk[p].stage \in Paired /\ pk[pk[p].target].place = "gone"

\* Who is in a duel with a partner that has left does not wait for it for ever.
LeftBehindIsFree == \A p \in Players : Deserted(p) ~> (~Deserted(p) \/ ~InScene(p))

\* OnDueling takes a player it finds dead for one that something other than the
\* duel has killed, since a duel as such is not fatal.
DuelDoesNotKill == \A p \in Players :
    pk[p].stage \in Fighting /\ pk[p].fate = "dead" => pk[p].killer # pk[p].target

=============================================================================
