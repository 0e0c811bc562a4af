# JX server: TLA+ models of the game server

The repository is the game server of an online role-playing game (C++, a rebuild
of the JX3 server).  One process, `SO3GameServer`, runs the world of a few maps for
some thousand clients and talks to a *game center* ("relay") that owns the database,
the list of roles on line and the assignment of maps to servers.  Client and center
are not in the repository.  This directory holds TLA+ models of the server's
control: who is connected, in which status a player is, which data are loaded and
saved, how the main loop and the map loading thread work together, and how players
trade, share loot and hold duels.

File names without a directory are in `src/src/SO3World/Src`.

## 1. The system

| Part | State | Operations | Talks to |
|---|---|---|---|
| Main loop (`KSO3GameServer::Run`) | frame counter, `m_bRunFlag` | one `Breathe` and `Activate` of everything per frame | all, one thread |
| Connection table (`KPlayerServerBase.cpp`) | `m_ConnectionDataList`: socket, `pPlayer`, ping time; free vector of indices | accept, attach, detach, shutdown, dispatch of client messages, ping check | clients; player set by pointer |
| Player set (`KSO3World.cpp`) | `m_PlayerSet`, each `KPlayer` with `m_eGameStatus`, timer, scene, connection index | `NewPlayer`, `DelPlayer`, `AddPlayer`, `RemovePlayer`, per-frame timers | connection table, scenes, center |
| Center connection (`KRelayClient.cpp`) | socket, shared receive buffers for role and account data, `m_bQuiting` | 100+ `On...` handlers, `Do...` requests, save and load, shutdown | center; looks everything up by ID |
| Scene loading (`KRecorderSceneLoaderNormal.cpp`, `KScene.cpp`, `KTerrainData.cpp`) | scenes, shared terrains, two rings of scene IDs | create, load in a thread, complete, delete | main loop and thread, no locks |
| Ring (`KCircleList.h`) | array, head, tail | `Push`, `Pop`, `Pick` | the two threads |
| Transfer to another server (`KTransmissionList.cpp`, `KRelayClient.cpp`) | GUID, save and permission | save, request, redirect the client | center, second server |
| Trade (`KTradingBox.cpp`, `KPlayerServer.cpp`) | invitations, two boxes with a key, `m_bConfirm` | invite, respond, fill, confirm, exchange or roll back | two players, their bags and purses |
| Loot (`KLootList.cpp`, `KDoodad.cpp`) | items with owners and votes, money, two clocks | open, roll, take, share, distribute; activation by the region | looters, doodad, region |
| Duels (`KPKController.cpp`, `KCharacter.cpp`, `KPlayer.cpp`) | of each player: stage, target, timer, flag, loser | ask, answer, count down, go out of range, fall, give in, cancel; slaying mode | two players, each in its own frames; skills and death |
| Mail, auction, tong (`KItemTransaction.cpp`, ...) | items held back | hold until the center answers | center |
| Teams, parties, fellowship (`KTeamServer.cpp`, `KFellowship.cpp`) | copies of the center's data | notifications | center, clients |
| Combat: skills, buffs, threat, AI | characters | per-frame logic | within a scene |
| Quests, items, shops, professions | player data | mostly one handler per change | scripts, database |
| Client build (`_CLIENT`), `SO3Represent` | - | - | not part of the server |

What makes the server hard to test: it is one thread, but every login, journey and
logout is a conversation of three parties in which each answer is looked up by role ID
and may come late, never, or in the role's next login; nine statuses each have their
own timer and their own way out when the connection breaks; the connection table and
the players point at each other by index and raw pointer; saves must precede
deletions; and one second thread shares scenes with the main loop without a lock.
Players act on each other's things while these change under them: a trade is agreed to by
clients that lag behind, a corpse is emptied by votes, clocks and looters that come
and go, and a duel is kept twice, by two controllers that move on in different frames while
either player may fall, travel or leave.
`PROJECT.json` lists these hazards at their lines.

What makes each part correct: connections and players point at each other and at
nothing deleted; every player is connected or about to be removed by a timer; no index
is lost; nothing changed is discarded unsaved, nothing half loaded is saved, nothing old
is loaded over something new; every timed wait ends; a server told to stop stops; the
ring is a queue; every map request is answered once; the loading thread survives and
works only on live scenes; a trade is a fair exchange in which nothing is lost or doubled;
loot goes to who won it, money to all, and nothing stays locked; the two sides of a duel
begin and end it together, with one flag, and no stage with a time limit lasts for ever.

## 2. Modules

| Module | Models | Checked by |
|---|---|---|
| `PlayerSession` | connection table, player set, status machine, shutdown | `MCPlayerSession`, proofs in `PlayerSessionProofs` |
| `RoleData` | the streams of role and account data, loading and saving | `MCRoleData`, proofs in `RoleDataProofs` |
| `CircleList` | `KCircleList`, every memory access a step | `MCCircleList`, proofs in `CircleListProofs` |
| `BoundedQueue` | what `KCircleList` promises | refined by `CircleList` |
| `SceneLoader` | map creation, loading thread, deletion, stopping | `MCSceneLoader`, proofs in `SceneLoaderProofs` |
| `Trading` | invitations, trading boxes, bags and purses of the traders | `MCTrading`, proofs in `TradingProofs` |
| `FairExchange` | what trading promises | refined by `Trading`, in the run and in `TradingProofs` |
| `Loot` | the loot list of a corpse, its votes and clocks | `MCLoot`, proofs in `LootProofs` |
| `Duel` | the PK controllers of all players | `MCDuel`, proofs in `DuelProofs` |
| `SetInduction` | no code: induction over numbers and finite sets, sums and folds | its own proofs, used by those of `SceneLoader`, `Trading` and `Loot` |

Actions have the names of the functions they model.  Definitions that begin with
"Mutant" in the comment above them are plausible bugs; no specification uses them.
They show that each property can fail: with the mutant in place of the definition,
TLC finds the property violated.

### PlayerSession

One action per handler.  `player[r]` is role `r`'s `KPlayer` (`Gone` when
`m_PlayerSet` has none), `link[c]` the entry of `m_ConnectionDataList`, `free[c]` how
often index `c` is on the free vector.  A player has a serial number (`sess`), as does
the pointer of a connection: a pointer is dangling when the numbers differ.  `due` and
`pages` count the answers the center still owes; they are delivered in any order, late
or never, and each handler decides what to do with an answer that no longer fits.
`ticket` is the last GUID given to the client: only its own login's GUID is accepted by
`OnHandshakeRequest`.

Abstractions:
- The model starts after `m_bSyncDataOver`; before it the server accepts no clients.
- Timers count visits of `KTraversePlayerFunc`; the limits are constants
  (`LOGIN_TIMEOUT`, `GAME_FPS * 32 - 1`, `LOGOUT_WAITING_TIME` in the code).
- The free vector is a multiset (the code takes the last one).
- Saving always succeeds locally; of the center's answers to saves only that to the
  save before a change of server has an effect on a player, so only it is modelled.
- The delay of five seconds between two saves at shutdown (`m_nNextQuitingSaveTime`)
  is left out, as it always passes.
- One key per page of extension points; sections of a role blob are counted.
- Data are what has changed since the last save of each of the two blobs (`unsaved`).
  They change only while a role plays or waits for its logout.
- Of the center it is assumed that it names a map only once it was reported loaded, and
  deletes a map only when nobody is in it.  A client shows its GUID only on a
  connection that has no player.
- `TransferMeets`: in which statuses the role's player may already be here when the center
  offers the role by transfer.  `OnTransferPlayerRequest` deletes it in any status, unsaved and without
  `Detach`.  The chart `src/src/SO3GameServer/doc/GameCenter上玩家状态流转图.jpg` says that a role the center
  knows to be on a game server is on that one only, so that it offers a role that
  plays or logs out elsewhere only by mistake; a player that still waits for its client
  is let in by the passing run all the same.  Section 4 says what the other statuses lead to.
- `GSListEnds`: whether the packages in which another server's list of extension points
  arrives (`OnSyncGSNewExtPoint`, for a player in any status) say that the list ends.  Those of this code do up to
  256 points (`DoSyncGSNewExtPoint`), and nobody asks for one: `DoApplyGSNewExtPoint` has no
  caller.  After one that does not end the handler sends the query of a login; section 4 says what comes of it.
- Left out of the extension points: `OnApplyGSNewExtPoint`, which only sends, and
  `OnChangeNewExtPointRespond`, which changes only values and locks, and calls a script.
- `Orderly` clients send a login message only after being asked; with
  `Orderly = FALSE` they send anything at any time.
- `LateExtPoints`: whether an answer to an extension point query may outlive the login
  it belongs to (see findings).

### RoleData

The connection to the center is two queues, `up` and `down`.  The center, external, sends
a stream in one piece, admits a role only after `DoPlayerLeaveGS`, and with `Fails` may read
the database late, refuse, or send a stream longer than the buffer.  `rx[b]` is the receive
buffer of blob `b` with its `m_dwSync*ID`; the offset is the length of its contents, since the
code never reads beyond it.  Pieces are tagged with role, version and position instead
of bytes.  The scene the role stands in is taken to be there (`PlayerSession` has the
other case), and checksums to be right.  A save is one message of `up`, because one handler
sends the whole stream. 

### CircleList and BoundedQueue

The server is built for 32-bit x86 with `-O0`, so loads and stores happen in program
order and every one is a step of its own: Push decides, writes, advances; Pop decides, copies,
advances.  A check of both positions is one step: each side's own position cannot
change meanwhile, so the only shared access in it is that of the other side's position.
`FifoQueue` is `BoundedQueue`'s specification with the contents between tail and head as the
queue.  A push takes effect when head advances, a pop when tail does.  The header says
"safe for one thread that only reads and one that only writes"; that is the model's
environment.

### SceneLoader

The main loop's handlers are atomic towards each other; the thread's `ThreadFunction` is cut
at the places where it meets shared data: taking an ID, looking the scene up, checking
its state, the terrain, the rest of `ServerLoad`, posting the result.  `terrain[g]` is the
terrain that scene `g` created; `ground` says which one a scene stands on.  The rings are
queues, as `CircleList` shows.  The center asks only for copies this server does not have,
and deletes only maps whose creation was reported.  A map that is not in the server's own list
(`MapList`) it asks for in vain: `OnCreateMapNotify` fails before there is a scene or an ID, and
`DoCreateMapRespond` fails on the same look into the list, so no answer is sent
(`OnCreateMapNotifyUnlisted`, which only notes the map among the `ignored`).  What is said of
requests below is said of those for maps of the list.  A scene that disappears under the
thread means undefined behaviour: the thread goes on or is lost (`WorkerCrash`).
`RacyIndex` lets the lookup in the `std::map` miss its scene when the main loop changes the
map meanwhile.  The server may stop at any time, and frames may take so long that the
loaded list fills up; `overrun` remembers the scenes whose result met a full list, for the code
ignores that `Push` failed and nobody hears of them any more.

### Trading and FairExchange

A `KItem` is an address, an ID and a stack number, all of one stackable kind; the bag is an
array of places.  Addresses are used again at once, because the code compares pointers first.
`Added` is `AddItem` with its spreading over stacks, `Placed` the `AddItemToPos` of the exchange.
The clients are external: `view` is the key each has been told of, and a confirmation
carries that key.  `agreed` is a history variable: the deal the player saw when its
confirmation was accepted.  `FairExchange` knows neither boxes, keys nor places: each player
has a set of items and a purse, sees a deal, agrees to it, and one atomic swap happens if both agreed
to the same deal.  `FairExchangeSpec` is the refinement: every step of `Trading` is one of those, or
one player's own business.

Abstractions: binding, existence limits, distance and the relation of the two are tests that may fail
at any time; one page of the bag; death and a change of map are one status `away`, so a step
that differs for the two may go either way.
While nobody trades, nothing moves (`Busy`), since only what happens during a trade matters.
An `AddItem` that follows the pointer of a freed item is undefined behaviour of a guard
and not modelled; the check before the exchange compares the places first, and is.

### Loot

One corpse.  `slot[i]` is a `KLootItem`, with `at` for the looter that got it; `owners` is the set behind
`dwOwnerIDSet`.  Time is counted in the three seconds that a region stays active after the
last player was near; `rollLeft` and `overLeft` are what is left until `m_nEndRollFrame` and
`m_nOverLootFrame`.  `place` says where each looter is: near (in range, in status playing), far,
between two maps, off line.  `Activate` is `KLootList::Activate`, called once per period by
`ActivateNear` or `ActivateAlone`; `Sleep` is a period in which the region is inactive.
A client answers a roll only while its dialog is open (`asked`).  Whether a bag takes an
item is a choice made at every place the code asks.

Abstractions: drop tables are replaced by all mixes of item types the looting modes give; dice
by all points; purses are far from their limit (`AddMoney` would clamp).  The template's
`m_nOverLootFrame` is taken not to be shorter than `MAX_ROLL_FRAME`: otherwise protection
could end before the roll in any case.

### Duel

`pk[p]` holds `m_PKController` of player `p` (`stage` is `m_eState`, `due` says that `m_nTimer` has
run out) and what it depends on: where `p` is, whether it stands, must die or is dead, and its
killer.  A `Frame` is `KPlayer::Activate`: the controller's turn if half a second has passed,
then blows (the player's own buffs, bullets that land), then `CheckDie`.  `Strike` is a blow in
another player's frame, so a player may fall and still be moved on by its own
controller before it dies.  A player that leaves is not announced to its partner, which
finds out in its own frame, or does not, if the role has come back before.

`alone` is an observation: the partner of this duel has left, or was drawn out by somebody else.
The second happens when a role has left and returned: the partner's old controller still
names it, and cancelling the old duel also cancels whatever duel the role is in by then.  The
model contains this; `Partners` and `OneFlag` speak of players that have not lost
their partner so.

Abstractions: all duels are held at one place of one map, whose copies are not told
apart; levels, cool-downs, camps, teams, foes and fights are tests that may fail at any time
(`barred`); timers run out at any time; the death script may spare anybody (`spared`); scripts at
the start and end of duels are left out, as is the client's copy.

## 3. Runs

| Run | Bounds | Shows |
|---|---|---|
| `session_one_role` | 1 role, 2 connections, 1 map, 2 logins, 2 sections, 2 pages | all properties of `PlayerSession`, with a center that offers no role that is here with a client or in its logout: safety; waits end, vanished clients' players are removed, shutdown completes |
| `circle_list` | 3 items, 4 slots | `CircleList` implements `BoundedQueue` |
| `scene_loader` | 2 maps x 2 copies and a map not in the list, 3 scenes, lists of 2, frames of any length, the server may stop | thread and terrain stay sound, each request for a map of the list is answered exactly once and in the end unless its result met a full list, stopping ends the thread |
| `role_data` | 2 roles, 3 logins together, 1 save each, buffer 2, streams to 3 | the role's newest data, whole; no residue, no disturbance |
| `trading` | 2 players, 2 places, 2 grids, purses and stacks to 2, 4 changes of boxes, bags and purses | trades stand and fall together, nothing is lost or doubled, `Trading` implements `FairExchange` |
| `loot` | 2 looters, 2 items (1 that is rolled for), 3 coins, points to 2, roll and protection of 3 periods | counts, shares, winners; nothing thrown away, nothing stuck |
| `duel` | 3 players: 1 that travels and leaves, 1 that is struck down, 1 that may slay | the two sides of a duel stay together, share one flag, and no wait lasts for ever |
| `duel_kills`, `late_ext_point`, `account_lost`, `loader_race`, `loader_exit` | | violations, see findings |

Why the bounds are enough: the interesting cases need two of something: two connections
so that an index is reused or a new connection meets a role whose old one is still there; two
logins so that a late answer meets the next one; two sections or pages so that there is
a first and a last; timeouts of one visit, because between two visits anything may
happen anyway.  Three logins are needed for old data to be overtaken by a save.  In
`SceneLoader` two copies share a terrain, and lists of two make a list full.  In `Trading` two
places make a bag full as soon as both hold something, two grids let both items be offered,
and four changes allow an offer on each side and two disturbances between confirmation and exchange; more
players, who cross each other's invitations, are left to the proofs.  In `Loot` a
roll of three periods is the shortest in which a looter can leave, be missed, come back
and be asked again, and three coins do not divide by two.  In `Duel` three
players are needed for one to be asked by a third after its partner has left; travelling and falling
are kept to one player each, so that one side of a duel disappears while the other fights on.  Several
roles at once, and clients that send anything at any time, are covered by the theorems about
`PlayerSession`, which hold for any number of roles.  Deadlock
is not checked: every model ends, because the server has stopped or a bound
is reached.

Fairness.  `PlayerSession`: `Run` visits every player each frame
(`KSO3World::Activate`), checks every connection's ping in turn (`Breathe`) and runs the
quitting branch of `KRelayClient::Activate`; nothing is assumed of clients or the
center, so no liveness property rests on an answer.  `SceneLoader`: the thread is
scheduled, each frame takes a loaded scene, and `UnInit` runs to its end.  `Loot`:
`KPlayer::Activate` has the regions around every player marked active in every frame
(`KScene::ValidateRegions`), and a region stays so for three seconds; so the list is called once
whenever somebody was near, however short, which is strong fairness of
`ActivateNear`.  Nobody is assumed to come: `NothingStuck` is about corpses somebody comes by
again and again.  `Duel`: a player in a scene is activated every frame and its controller every half second
(`Frame(p, TRUE)`), and `m_nGameLoop` reaches every timer; nobody is assumed to answer, walk or
fight.  `Trading` has no liveness; the code has no timer for trades.

## 4. Findings

- `late_ext_point`: `OnSyncNewExtPointRespond` identifies a login by its role ID only.  If
  the answer of an ended login arrives in the next one, the duplicate key makes it delete
  an attached player.  With a `CalmCenter` (section 5) the theorem `SessionStructure` holds.
- Not a run of its own: `OnTransferPlayerRequest` finds the role's player registered, gives up,
  and deletes it on the way out as if it had made it (`KRelayClient.cpp:881`): unsaved, and still bound
  to its connection if it has one.  `OnPlayerLoginRequest` deletes nothing in that case.  It takes
  a center that is wrong about where the role is.  `late_ext_point.cfg` with `NepKeys = 0`,
  `LateExtPoints = FALSE` and `"gsPlaying"` in `TransferMeets` violates `PointerRegistered` in ten states;
  `session_one_role.cfg` with `"gsDeleting"` in `TransferMeets` violates `SavedBeforeGone`, as the
  request skips the save of the logout.
- Not a run of its own: after an unfinished list of another server `OnSyncGSNewExtPoint` asks with the
  query of the login (`KRelayClient.cpp:1063`), whose answer `OnSyncNewExtPointRespond` takes for the
  login's: a player that is attached by then is deleted.  It takes more than 256 extension
  points and a caller of `DoApplyGSNewExtPoint`, which this code does not have.
  `late_ext_point.cfg` with `NepKeys = 2`, `LateExtPoints = FALSE` and `GSListEnds = {TRUE, FALSE}` violates
  `PointerRegistered` in six states.
- `account_lost`: entering resets the account buffer all roles share; a stream
  being received for another role fails to load, and that role plays on with an empty account.
- `loader_race`: `m_SceneSet` is a `std::map` used by two threads without a lock; a missed
  lookup ends the loading thread for ever.
- Not a run of its own: `src/src/SO3World/Doc/20090327_掉落实现.txt` says of an item whose roll ends without a winner
  that it becomes free for the team.  That is what `ProcessOverRollTime` does; `EndRollItem`, when
  the last looter passes, leaves it without owner in `litOverTimeLooterFree`, and nobody may take
  it until the protection time is over.  `NothingStuck` holds because that time does end.
- `loader_exit`: `UnInit` deletes the scenes before it stops the thread that loads them.
- `duel_kills`: `OnDueling` says of a dead duellist that something other than the duel
  has killed it.  But each side's countdown ends in a frame of its own, and `GoToHell` sets the loser only
  of a player that is in the duel already; struck down by a partner that is half a second ahead, the
  other one dies of the duel (`KCharacter.cpp:2898`, `KPKController.cpp:857`).
- Not a run of its own: a player in `gsSearchMap` whose search is never answered stays
  there, while the chart `src/src/SO3GameServer/doc/客户端连接的状态流转图.jpg` draws a timeout.
  `LoginSettles` leaves this status out for that reason.

## 5. Proofs

`PlayerSessionProofs` (every number of roles, connections, maps, every bound):
- `TypeCorrect`: `Spec => []TypeOK`.  One lemma per action; `TimersNat` to
  `DetachAndShutdownType` hold the facts about helpers they share.
- `CalmCenter` is what the theorems below suppose of the center: no answer to an extension point query outlives its login
  (`~LateExtPoints`), lists passed on by other servers are complete (`GSListEnds \subseteq {TRUE}`), and
  no role is offered by transfer whose client is attached here (`TransferMeets \subseteq Unattached`).  Each of the three is needed,
  as `late_ext_point` and the two variants of it in section 4 show.
- `SessionStructure`: if `CalmCenter`, then `Spec => [](Binding /\ Orphan /\ FreeList /\
  Pending)`.  The four are inductive together with `TypeOK` but not one by one: `Binding`
  is what makes `Orphan` survive `Detach` (the player detached is the one the connection points
  at); `Orphan` shows that a player deleted by a timer or a failed transfer has no
  connection that could still point at it; `Pending` does the same for the player that
  `OnSyncNewExtPointRespond` deletes; `FreeList` shows that a new connection has no player.
  `ReleasedStruct` does `Detach` once for its thirteen callers, `AttachedStruct` the steps that
  keep connection and status group.

- `NobodyOrphaned`, `IndicesKept` and `OnePagePending` state three of its parts alone.
- `NothingLostUnsaved`: if `CalmCenter`, and no role is offered by transfer that waits for its logout here
  (`"gsDeleting" \notin TransferMeets`), then `Spec => SavedBeforeGone`.  The action
  property needs an invariant: `Clean` says which blobs may be unsaved in which status
  (`MayHold`), both while a role plays or logs out, the account after `RealSwitchMap`, none
  before it plays.  Every deletion that does not save finds a status in which only what
  `SavedBeforeGone` allows can be unsaved; the one that could find a playing role,
  in `OnSyncNewExtPointRespond`, is excluded by `Pending`, which is why the theorem
  rests on `SessionStructure`.  `PutSaved`, `MoveSaved`, `LoseSaved` and `ReleasedSaved` are
  the four ways a step changes a player.
- `StandsInScene`: `Spec => []InScene`, with none of these assumptions.  A scene is set only where it
  has just been looked up (`LoadRoleScene`, `SearchMapScene`, `EnterSceneScene`), and maps are
  deleted only when nobody is in them; every other step keeps the scene or leaves the world.
- `WholeInWorld`: if `Orderly` and `CalmCenter`, then `Spec => []FullyLoaded`.  The invariant needed
  speaks of the logins before the world: nobody who has entered lacks a section, nobody who is
  still receiving is finished, and a client is asked for its readiness only by a whole player.
  It rests on the structure of `SessionStructure`.  Without `Orderly` it fails: readiness may
  be claimed before it is asked for.

`RoleDataProofs` (every number of roles, packages, logins and saves, every size of the buffers, with a center that fails
and one that does not):
- `RoleDataInvariant` is the inductive invariant, a part for each way old or foreign data could be loaded.
  `Linked`: `down` holds whole streams one after the other, of which only the first may have begun.  `Buffers`: a buffer
  holds what has come of the stream that has begun, and nothing if none has; or nothing either, when the stream is too long
  for it or the account's buffer was reset meanwhile.  The role's buffer has no owner when it is empty, which is what
  lets the next stream begin, although `DoLoadRoleDataRequest` does not prepare it.  `LastSaves`: the last version
  saved is the last one on its way in `up`, or is stored.  `SavedThenLeft`: behind the saves of an absent role comes the notice that it
  left.  `Logins`: when the center admits a role, it has taken that notice and so everything before it; therefore a
  role whose login is on its way or going on has no save on its way.  `Fresh`: hence whatever `down` holds of a
  role behind its login, and what a buffer holds of it during the login, is of the last version, even where the
  answer is to a request of an earlier login.
- `RoleDataTyped`: `Spec => []TypeOK`, no buffer is written past its end.
- `NewestDataLoaded`: `Spec => LoadedFresh`.  What is loaded is in the buffer of a role in a login (`LoadedFrom`), is by `Buffers` a
  stream of that role from its first package to its last, and by `Fresh` of the last version (`WholeIsNewest`).
- `WholeStreamLoaded`: `Spec => RoleArrives`.  `Buffers` again: what fits was not cut off (`WholeIfFits`).

`CircleListProofs` (every ring size above two):
- `SlotsApart`: the slot Push fills is not the one Pop reads.  The inductive
  invariant `IInv` adds that a writer past its check still has a free slot and a
  reader past its check still has an item, and what the reader holds is the item at tail.
- `ImplementsQueue`: `Spec => FifoQueue`, each step a step of `BoundedQueue` or a stutter.
  The lemmas about `Contents` (append at head, drop at tail, write outside) replace the
  arithmetic modulo `Size` by a case distinction.
- `PositionsInside`: `Spec => []TypeOK`, head and tail stay inside the array.

`SetInduction` (no component): induction over numbers and over finite sets.  The library's
theorems of induction take an operator as a parameter, which the installed provers cannot instantiate;
these take a *set* of numbers (`NatSetInduction`) or a *family* of sets (`FiniteSetInduction`, `SubsetInduction`)
that is closed under the step, and are proved from the least element of a set of numbers.  From them follow
that a fold over a finite set exists and is unique (`FoldExists`, `FoldUnique`), so that the recursive function
`MapThenFoldSet` is built on is the function one expects; what sums over finite sets do
(`SumRemove`, `SumChange`, `SumSplit`, `SumBijection`, `SumPairs`, `SumPlus`); what a loop over
a sequence leaves (`LeftFold`, `FoldRun`); and that a sum shared out evenly, the first ones getting one more
of what is left over, is shared out to the last unit (`SharedOut`).

`SceneLoaderProofs` (every number of maps, copies and requests, every list length):
- `LoaderInvariant` is the inductive invariant `TypeOK /\ Grounds /\ Running`.  `Grounds` holds to the end of the
  server: a terrain's count is the number of scenes standing on it, and the terrain is loaded under every finished scene
  and under one for which the thread is past it.  `Running` holds until the server stops: each ID given out
  is at exactly one of the stations loading list, thread, loaded list, answered, and its scene in the state that goes with
  it (`Station`); an ID not given out is at none.  Neither can do without the other: that a scene deleted on
  request is not under the thread follows from its station, and that the terrain the thread fills is not deleted under
  it from the count.
- `LoaderTyped`, `TerrainReferences`, `WorkIsOnLiveScenes`: `Spec => []TypeOK`, `[]TerrainShared`,
  `[]SceneOutlivesWork`.
- `LoaderNeverGivesUp`, `OneAnswerEach`: if `~RacyIndex`, then `Spec => []WorkerAlive` and `[]AnsweredOnce`,
  which is about the requests that got an ID, those for maps of the list.  With
  `RacyIndex` both fail (`loader_race`).  Stations are counted (`Times` in a list, 1 at the thread), and each step
  moves one scene from one station to the next (`SameStation` for all the others).

`TradingProofs` (every number of players, places, grids, every bound):
- `BoxesPaired` and `ConfirmedDeal`: `Spec => []Paired` and `Spec => []ConfirmedSeen`.  The two
  are inductive with `KeyTells` (a client knows the latest key exactly if it shows the boxes as
  they are), which makes a confirmation with the right key one of the deal as it is, and with
  `Invites` (nobody invites itself), which keeps a box from being paired with itself.  `Ended`,
  `ChangedInv`, `OpenedInv` and `ConfirmInv` are the four ways a step changes boxes; which items and coins move
  does not matter to them, so they need no facts about bags.
- `TradingLedger` adds to them the inductive invariant of what is owned, `Boxes /\ Money /\ Stock`.  `Boxes`:
  what lies in a box is typed, the grids of a box name different places, and a key is no larger than the number of
  changes so far.  `Money`: purses are typed, and purses and the rest of the world together hold what there
  was.  `Stock`: every item object lies at one place only, under an ID already given out, and the units on all stacks
  and in the world are what there was.  `AddItem` spreads an item over stacks and free places, and an exchange does it
  item by item, so the step follows three loops by `LeftFold`: over the stacks of one bag (`Pushes`), the items put
  into a bag (`Known`: whatever is in it was there or is one of them), the grids of a box (`Gives`).  A step then
  changes one bag or two, whose things come from known places (`Was`); these are the lemmas about `Apart` and
  `Numbered` under both.  The check that the receiver has room is what makes sure that nothing is left over,
  and the check of `MoneyLimit` that `AddMoney` does not clamp.
- `TradingTypes`, `NoMoneyMade`, `NoItemMade` follow: `Spec => []TypeOK`, `[]MoneyConserved`, `[]ItemsConserved`.
- `TradingIsFair`: `Spec => FairExchangeSpec`.  With the bag mapped to the set of its items and `agreed` to the deal
  agreed to, the steps before a confirmation map to changes of what a player agreed to (`TalkStep`), a first
  confirmation to an agreement (`FirstConfirm`), errands to a player's own business (`ErrandStep`), a rollback to
  a regrouping that gives nobody more or less (`Regrouped`), and the exchange to the swap (`Swapped`).  The last needs both
  invariants: the two confirmed the same deal (`ConfirmedSeen`), the check found each offered item at the
  place the box names (`OfferGiven`), and what one side gives up the other receives (`HandedOver`).

`LootProofs` (every number of looters and items, every sum of money, every time):
- `LootInvariant` is inductive: `TypeOK`, typed slots, `NothingForgotten`, and for each item that is rolled for or waits
  for its winner `Fair`: its only owner, if it has one, is who rolled the highest (`Highest`), and once its list has been
  opened, an answer is still to come.  The second part is needed because answers are counted down: were a
  finished roll kept, one more answer would make `byRollCount`, a `BYTE`, wrap around.
- `LootTyped`, `NothingThrownAway`: `Spec => []TypeOK`, `[]NothingForgotten`.
- `HighestRollWins`: `Spec => WinnersItem`, from `Fair` before the step: what took an item takes it for its owner.
- `MoneyPaidOnce`: `Spec => []MoneyShared`.  `Coins` says that what was paid and what is left are what there was.  Sharing
  is the only step that needs work: the registered looters are the places of the list that are on line, in a different
  order (`SumBijection`), their shares are a sum over these places, and that is the money (`SharedOut`).

`DuelProofs` (every number of players):
- `DuelTyped`, `PartnersTogether`, `FlagOfDuel`: `Spec => []TypeOK`, `[]Partners` and `[]OneFlag`.  The
  inductive invariant `Good` adds that the one who waits for an answer has the flag and the one
  asked has none, which is why accepting leaves exactly one.  Every step changes duels in one of three ways, each
  a lemma about two states: nobody's duel begins or ends (`KeepGood`), some players leave theirs
  and their partners are told or marked (`LeaveGood`), two players go on together (`EngageGood`).

Assumptions are those named in the modules: constants are of their types, the ring has
more than two slots (asserted by its constructor), the null values are not elements, a purse may hold
at least one coin, a corpse has a looter and no looter twice.

Only model-checked: all liveness (temporal proofs under fairness are out of reach of the installed provers), and that the
five properties of the findings fail.  Every invariant and action property of a passing run is proved.

## 6. Not modelled, and the plan

Not modelled: game rules (skills, attributes, AI, movement, quests, shops), because they are
sequential and table driven; client code; formats on the wire; start-up.  See
"components" in `PROJECT.json`.

Order of what follows:
1. An abstract `PlayerLifecycle` (absent, logging in, playing, leaving; saved before it
   is gone) implemented by `PlayerSession`.
2. `ServerTransfer`: two servers and the center; a role is on one server at a time and its
   data go with it.
3. `ItemTransaction`: items and money of mail, auction and tong repertory held until the center answers.
4. `TeamServer`, `ThreatList` (symmetry), `BuffList`, the tong repertory cache.
