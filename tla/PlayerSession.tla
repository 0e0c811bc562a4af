---------------------------- MODULE PlayerSession ----------------------------
(***************************************************************************)
(* The life of a player on one game server: KPlayerServer's connection     *)
(* table, KSO3World's set of players, the status machine that the client's *)
(* messages, the game center's answers and the per-frame timers drive, and *)
(* the shutdown of the server.                                             *)
(*                                                                         *)
(* The server runs one thread (KSO3GameServer::Run), so every handler is   *)
(* one step.  Client and game center are external: a client may vanish and *)
(* a requested answer may come at any later time, in any order, even in a  *)
(* later login of the same role, or never.                                 *)
(***************************************************************************)
EXTENDS Integers

CONSTANTS
    Roles,          \* role identifiers
    Conns,          \* indices of m_ConnectionDataList
    Maps,           \* maps (dwMapID, nMapCopyIndex) of this server
    NoRole, NoConn, NoMap,
    LoginTimeout,   \* LOGIN_TIMEOUT, in visits of KTraversePlayerFunc
    SyncTimeout,    \* GAME_FPS * 32 - 1
    LogoutWaiting,  \* LOGOUT_WAITING_TIME
    MaxBlocks,      \* bound: sections of one role blob
    NepKeys,        \* the extension points of a role are the keys 1 .. NepKeys
    MaxSessions,    \* bound: how often one role is admitted to this server
    Orderly,        \* clients send a login message only when asked for it
    LateExtPoints,  \* the center may answer an extension point query after
                    \* the login it belongs to has ended
    TransferMeets,  \* statuses this server's player of a role may have when
                    \* the center offers the role by transfer
    GSListEnds      \* bySyncFinish of the packages in which the center passes
                    \* on the extension points another server holds

ASSUME DomainAssumption ==
    /\ NoRole \notin Roles /\ NoConn \notin Conns /\ NoMap \notin Maps

ASSUME BoundAssumption ==
    /\ LoginTimeout \in Nat /\ SyncTimeout \in Nat /\ LogoutWaiting \in Nat
    /\ MaxBlocks \in Nat /\ NepKeys \in Nat /\ MaxSessions \in Nat
    /\ Orderly \in BOOLEAN /\ LateExtPoints \in BOOLEAN /\ GSListEnds \subseteq BOOLEAN

VARIABLES
    player,     \* the KPlayer of each role, Gone when m_PlayerSet has none
    link,       \* m_ConnectionDataList and what its client has been asked
    free,       \* how often an index is on m_ConnectionDataListFreeVector
    sess,       \* serial number of the role's last KPlayer (its m_Guid)
    ticket,     \* serial number of the last GUID handed to the client
    lost,       \* what the role's last DelPlayer discarded unsaved
    due,        \* answers the center still owes, by kind and role
    pages,      \* extension point queries outstanding, by bound key
    maps,       \* scenes of m_SceneSet
    quitting,   \* m_bQuiting
    running     \* m_bRunFlag

vars == <<player, link, free, sess, ticket, lost, due, pages, maps, quitting, running>>

Parts == {"role", "account"}    \* the two blobs a player is saved as

\* Mutant: Detach forgets one of the states.
DetachKeepsSyncing == {"gsWaitForPermit", "gsWaitForRoleData",
                       "gsWaitForLoginLoading", "gsWaitForNewMapLoading", "gsSearchMap",
                       "gsWaitForTransmissionSave", "gsWaitForTransmissionGuid"}

\* The states in which Detach deletes the player on the spot.
DetachDeletes == {"gsWaitForPermit", "gsWaitForRoleData", "gsWaitForSyncClientData",
                  "gsWaitForLoginLoading", "gsWaitForNewMapLoading", "gsSearchMap",
                  "gsWaitForTransmissionSave", "gsWaitForTransmissionGuid"}

Status == {"absent", "gsWaitForConnect", "gsPlaying", "gsDeleting"} \cup DetachDeletes

Kinds == {"confirm", "role", "search", "save", "transfer"}

ASSUME TransferAssumption == TransferMeets \subseteq Status

\* The bound keys a query may start after.
Bounds == IF NepKeys = 0 THEN {0} ELSE 0 .. NepKeys - 1

Max3(a, b, c) == IF a >= b THEN (IF a >= c THEN a ELSE c) ELSE (IF b >= c THEN b ELSE c)

PlayerRec ==
    [status   : Status,                 \* m_eGameStatus
     conn     : Conns \cup {NoConn},    \* m_nConnIndex
     timer    : 0 .. Max3(LoginTimeout, SyncTimeout, LogoutWaiting), \* m_nTimer
     scene    : Maps \cup {NoMap},      \* m_pScene
     place    : Maps \cup {NoMap},      \* m_SavePosition
     fight    : BOOLEAN,                \* m_bFightState
     left     : 0 .. MaxBlocks,         \* sections still in m_pbyExtDataBuffer
     finished : BOOLEAN,                \* FinishRoleDataLoad has run
     points   : SUBSET (1 .. NepKeys),  \* keys of m_NewExtPointManager
     unsaved  : SUBSET Parts]           \* changed since it was last saved

Gone == [status |-> "absent", conn |-> NoConn, timer |-> 0, scene |-> NoMap,
         place |-> NoMap, fight |-> FALSE, left |-> 0, finished |-> FALSE,
         points |-> {}, unsaved |-> {}]

\* "idle": nothing asked; "enter": c2s_apply_enter_scene; "section": a section
\* acknowledgement; "ready": c2s_client_confirm_ready; "gone": sends no more.
Asked == {"idle", "enter", "section", "ready", "gone"}

LinkRec == [open   : BOOLEAN,               \* piSocketStream
            role   : Roles \cup {NoRole},   \* pPlayer: whose KPlayer ...
            sess   : Nat,                   \* ... and which one
            client : Asked]

Closed == [open |-> FALSE, role |-> NoRole, sess |-> 0, client |-> "idle"]

NoPages == [b \in Bounds |-> 0]

TypeOK ==
    /\ player \in [Roles -> PlayerRec]
    /\ link \in [Conns -> LinkRec]
    /\ free \in [Conns -> Nat]
    /\ sess \in [Roles -> Nat]
    /\ ticket \in [Roles -> Nat]
    /\ lost \in [Roles -> SUBSET Parts]
    /\ due \in [Kinds -> [Roles -> Nat]]
    /\ pages \in [Roles -> [Bounds -> Nat]]
    /\ maps \in SUBSET Maps
    /\ quitting \in BOOLEAN
    /\ running \in BOOLEAN

Init ==
    /\ player = [r \in Roles |-> Gone]
    /\ link = [c \in Conns |-> Closed]
    /\ free = [c \in Conns |-> 1]
    /\ sess = [r \in Roles |-> 0]
    /\ ticket = [r \in Roles |-> 0]
    /\ lost = [r \in Roles |-> {}]
    /\ due = [k \in Kinds |-> [r \in Roles |-> 0]]
    /\ pages = [r \in Roles |-> NoPages]
    /\ maps = {}
    /\ quitting = FALSE
    /\ running = TRUE

-----------------------------------------------------------------------------
(* Helpers the handlers share.                                             *)

In(r, states) == player[r].status \in states

\* Mutant: finds scenes that have been deleted, too.
AnyScene(m) == m \in Maps

\* KSO3World::GetScene.  The center names a scene here only after it was
\* reported loaded; SceneLoader models the loading.
GetScene(m) == m \in maps

\* The player a connection points at is still the one it was attached to.
Live(c) ==
    /\ link[c].role \in Roles
    /\ player[link[c].role].status # "absent"
    /\ link[c].sess = sess[link[c].role]

\* The fields of role r's player become p.
Put(r, p) == player' = [player EXCEPT ![r] = p]

\* A server message that makes an orderly client answer later.
Ask(c, what) ==
    IF link[c].client = "gone" THEN link
    ELSE [link EXCEPT ![c] = [link[c] EXCEPT !.client = what]]

Asking(r, what) == IF player[r].conn = NoConn THEN link ELSE Ask(player[r].conn, what)

\* KSO3World::DelPlayer, "dirty" being what has not been saved by then.
DelPlayer(r, dirty) ==
    /\ Put(r, Gone)
    /\ lost' = [lost EXCEPT ![r] = dirty]
    /\ pages' = IF LateExtPoints THEN pages ELSE [pages EXCEPT ![r] = NoPages]

\* What KPlayerServer::Detach does to the player of connection c.
Released(c) ==
    LET r == link[c].role IN
    \/ /\ r = NoRole
       /\ UNCHANGED <<player, lost, pages>>
    \/ /\ r \in Roles /\ In(r, {"gsPlaying"})
       /\ Put(r, [player[r] EXCEPT !.conn = NoConn, !.timer = 0, !.status = "gsDeleting"])
       /\ UNCHANGED <<lost, pages>>
    \/ /\ r \in Roles /\ In(r, DetachDeletes)
       /\ DelPlayer(r, player[r].unsaved)
    \/ /\ r \in Roles /\ ~In(r, DetachDeletes \cup {"gsPlaying"})
       /\ Put(r, [player[r] EXCEPT !.conn = NoConn])
       /\ UNCHANGED <<lost, pages>>

\* Connection c no longer points at a player.
Unbind(c) == link' = [link EXCEPT ![c] = [link[c] EXCEPT !.role = NoRole, !.sess = 0]]

\* KPlayerServer::Detach: the socket stays open.
Detach(c) == Released(c) /\ Unbind(c)

\* Mutant: Shutdown forgets to put the index back.
ShutdownLeaksIndex(c) ==
    /\ Released(c)
    /\ link' = [link EXCEPT ![c] = Closed]
    /\ UNCHANGED free

\* Detach followed by KPlayerServer::Shutdown.
DetachAndShutdown(c) ==
    /\ Released(c)
    /\ link' = [link EXCEPT ![c] = Closed]
    /\ free' = [free EXCEPT ![c] = @ + 1]

Answered(k, r) == due[k][r] > 0
Consume(k, r) == due' = [due EXCEPT ![k][r] = @ - 1]

\* KSO3World::NewPlayer and the fields a login or transfer request fills in.
NewPlayer(r, m) ==
    /\ Put(r, [Gone EXCEPT !.status = "gsWaitForConnect", !.place = m])
    /\ sess' = [sess EXCEPT ![r] = @ + 1]
    /\ lost' = [lost EXCEPT ![r] = {}]

-----------------------------------------------------------------------------
(* Requests and answers of the game center.                                *)

\* A request for a registered role fails in Register and changes nothing.
OnPlayerLoginRequest(r) ==
    /\ ~quitting
    /\ In(r, {"absent"})
    /\ sess[r] < MaxSessions
    /\ \E m \in Maps : NewPlayer(r, m)
    /\ pages' = [pages EXCEPT ![r][0] = @ + 1]
    /\ UNCHANGED <<link, free, ticket, due, maps, quitting, running>>

\* Mutant: the client is admitted with the first page.
FirstPageAdmits(r, b) ==
    /\ pages[r][b] > 0
    /\ ~In(r, {"absent"})
    /\ pages' = IF b + 1 >= NepKeys THEN [pages EXCEPT ![r][b] = @ - 1]
                ELSE [pages EXCEPT ![r][b] = @ - 1, ![r][b + 1] = @ + 1]
    /\ ticket' = [ticket EXCEPT ![r] = sess[r]]
    /\ UNCHANGED <<player, link, free, sess, lost, due, maps, quitting, running>>

\* The keys after bound b, one per page; the last page admits the login.
OnSyncNewExtPointRespond(r, b) ==
    LET last    == b + 1 >= NepKeys
        key     == b + 1
        asked   == [pages EXCEPT ![r][b] = @ - 1]
        inserts == NepKeys = 0 \/ key \notin player[r].points
    IN
    /\ pages[r][b] > 0
    /\ UNCHANGED <<link, free, sess, due, maps, quitting, running>>
    /\ \/ /\ In(r, {"absent"})
          /\ pages' = asked
          /\ UNCHANGED <<player, ticket, lost>>
       \/ /\ ~In(r, {"absent"}) /\ inserts /\ ~last
          /\ Put(r, [player[r] EXCEPT !.points = @ \cup {key}])
          /\ pages' = [asked EXCEPT ![r][key] = @ + 1]
          /\ UNCHANGED <<ticket, lost>>
       \/ /\ ~In(r, {"absent"}) /\ inserts /\ last
          /\ Put(r, [player[r] EXCEPT !.points = IF NepKeys = 0 THEN @ ELSE @ \cup {key}])
          /\ pages' = asked
          /\ ticket' = [ticket EXCEPT ![r] = sess[r]]
          /\ UNCHANGED lost
       \/ \* duplicate key, or nCenterIndex # 0 on the last page
          /\ ~In(r, {"absent"}) /\ (~inserts \/ last)
          /\ Put(r, Gone)
          /\ lost' = [lost EXCEPT ![r] = player[r].unsaved]
          /\ pages' = IF LateExtPoints THEN asked ELSE [pages EXCEPT ![r] = NoPages]
          /\ UNCHANGED ticket

\* A list of the extension points another server holds, key by key.  A package that
\* leaves keys out makes the handler ask for them, with the query of a login; a key
\* that is there already ends it without effect.
OnSyncGSNewExtPoint(r, key) ==
    /\ ~In(r, {"absent"})
    /\ key \notin player[r].points
    /\ Put(r, [player[r] EXCEPT !.points = @ \cup {key}])
    /\ \E bySyncFinish \in GSListEnds :
          /\ key = NepKeys => bySyncFinish
          /\ pages' = IF bySyncFinish THEN pages ELSE [pages EXCEPT ![r][key] = @ + 1]
    /\ UNCHANGED <<link, free, sess, ticket, lost, due, maps, quitting, running>>

\* A request for a registered role deletes its player, whatever its status,
\* without saving it and without detaching its client.
OnTransferPlayerRequest(r) ==
    /\ ~quitting
    /\ \/ /\ In(r, {"absent"})
          /\ sess[r] < MaxSessions
          /\ \E m \in Maps : NewPlayer(r, m)
          /\ ticket' = [ticket EXCEPT ![r] = sess[r] + 1]
          /\ UNCHANGED pages
       \/ /\ In(r, TransferMeets \ {"absent"})
          /\ DelPlayer(r, player[r].unsaved)
          /\ UNCHANGED <<sess, ticket>>
    /\ UNCHANGED <<link, free, due, maps, quitting, running>>

\* Mutant: a denied login is deleted without being detached.
DeniedLoginStaysAttached(r) ==
    /\ Answered("confirm", r)
    /\ Consume("confirm", r)
    /\ In(r, {"gsWaitForPermit"})
    /\ DelPlayer(r, player[r].unsaved)
    /\ UNCHANGED <<link, free, sess, ticket, maps, quitting, running>>

OnConfirmPlayerLoginRespond(r) ==
    /\ Answered("confirm", r)
    /\ Consume("confirm", r)
    /\ UNCHANGED <<free, sess, ticket, maps, quitting, running>>
    /\ \/ /\ ~In(r, {"gsWaitForPermit"})
          /\ UNCHANGED <<player, link, lost, pages>>
       \/ /\ In(r, {"gsWaitForPermit"})                          \* bPermit
          /\ Put(r, [player[r] EXCEPT !.status = "gsWaitForLoginLoading", !.timer = 0])
          /\ link' = Asking(r, "enter")
          /\ UNCHANGED <<lost, pages>>
       \/ /\ In(r, {"gsWaitForPermit"})                          \* denied
          /\ player[r].conn \in Conns
          /\ Detach(player[r].conn)

\* AddPlayer sets m_pScene before it looks for the region, and Load may reject
\* the blob before or after it has moved the player to the next status.
OnLoadRoleData(r) ==
    LET inScene == [player[r] EXCEPT !.scene = player[r].place]
        syncing == [inScene EXCEPT !.status = "gsWaitForSyncClientData"]
    IN
    /\ Answered("role", r)
    /\ Consume("role", r)
    /\ UNCHANGED <<free, sess, ticket, lost, pages, maps, quitting, running>>
    /\ \/ \* bad stream, bSucceed false, other status, or no scene
          UNCHANGED <<player, link>>
       \/ /\ In(r, {"gsWaitForRoleData"})
          /\ GetScene(player[r].place)
          /\ \/ \* no region, or a bad header
                Put(r, inScene) /\ UNCHANGED link
             \/ \* an empty blob finishes at once
                /\ Put(r, [syncing EXCEPT !.left = 0, !.finished = TRUE])
                /\ link' = Asking(r, "ready")
             \/ \E n \in 1 .. MaxBlocks :
                   \/ /\ Put(r, [syncing EXCEPT !.left = n - 1])
                      /\ link' = Asking(r, "section")
                   \/ Put(r, [syncing EXCEPT !.left = n]) /\ UNCHANGED link

OnSearchMapRespond(r) ==
    /\ Answered("search", r)
    /\ UNCHANGED <<free, sess, ticket, lost, pages, maps, quitting, running>>
    /\ \/ \* another status, or the scene to go to is not there
          /\ In(r, {"gsSearchMap"}) => maps # Maps
          /\ UNCHANGED <<player, link>>
          /\ Consume("search", r)
       \/ \* failed: back to where the player was
          /\ In(r, {"gsSearchMap"}) /\ GetScene(player[r].place)
          /\ \E added \in BOOLEAN :
                Put(r, [player[r] EXCEPT !.scene = player[r].place,
                                         !.status = IF added THEN "gsPlaying" ELSE @])
          /\ UNCHANGED link
          /\ Consume("search", r)
       \/ \* another map of this server
          /\ In(r, {"gsSearchMap"})
          /\ \E m \in Maps :
                /\ GetScene(m)
                /\ Put(r, [player[r] EXCEPT !.place = m, !.status = "gsWaitForNewMapLoading"])
          /\ link' = Asking(r, "enter")
          /\ Consume("search", r)
       \/ \* bSwitchServer: save both blobs, then wait for the answer
          /\ In(r, {"gsSearchMap"})
          /\ Put(r, [player[r] EXCEPT !.status = "gsWaitForTransmissionSave",
                                      !.place = NoMap, !.unsaved = {}])
          /\ due' = [due EXCEPT !["search"][r] = @ - 1, !["save"][r] = @ + 1]
          /\ UNCHANGED link

OnSaveRoleDataRespond(r) ==
    /\ Answered("save", r)
    /\ UNCHANGED <<free, sess, ticket, maps, quitting, running>>
    /\ \/ /\ ~In(r, {"gsWaitForTransmissionSave"})
          /\ Consume("save", r)
          /\ UNCHANGED <<player, link, lost, pages>>
       \/ /\ In(r, {"gsWaitForTransmissionSave"})
          /\ Put(r, [player[r] EXCEPT !.status = "gsWaitForTransmissionGuid"])
          /\ due' = [due EXCEPT !["save"][r] = @ - 1, !["transfer"][r] = @ + 1]
          /\ UNCHANGED <<link, lost, pages>>
       \/ /\ In(r, {"gsWaitForTransmissionSave"})               \* save failed
          /\ player[r].conn \in Conns
          /\ Detach(player[r].conn)
          /\ Consume("save", r)

\* Refused or not, the connection is detached.
OnTransferPlayerRespond(r) ==
    /\ Answered("transfer", r)
    /\ Consume("transfer", r)
    /\ IF In(r, {"gsWaitForTransmissionGuid"})
       THEN player[r].conn \in Conns /\ Detach(player[r].conn)
       ELSE UNCHANGED <<player, link, lost, pages>>
    /\ UNCHANGED <<free, sess, ticket, maps, quitting, running>>

OnCreateMapNotify(m) ==
    /\ m \notin maps
    /\ maps' = maps \cup {m}
    /\ UNCHANGED <<player, link, free, sess, ticket, lost, due, pages, quitting, running>>

\* The center deletes only maps its enter and leave notices show to be empty.
OnDeleteMapNotify(m) ==
    /\ m \in maps
    /\ \A r \in Roles : player[r].scene # m
    /\ maps' = maps \ {m}
    /\ UNCHANGED <<player, link, free, sess, ticket, lost, due, pages, quitting, running>>

-----------------------------------------------------------------------------
(* Connections and messages of the clients.                                *)

ProcessNewConnection(c) ==
    /\ free[c] > 0
    /\ free' = [free EXCEPT ![c] = @ - 1]
    /\ link' = [link EXCEPT ![c] = [Closed EXCEPT !.open = TRUE]]
    /\ UNCHANGED <<player, sess, ticket, lost, due, pages, maps, quitting, running>>

\* The client is cut off: it sends nothing more, not even a close.
ClientVanishes(c) ==
    /\ link[c].open /\ link[c].client # "gone"
    /\ link' = [link EXCEPT ![c] = [link[c] EXCEPT !.client = "gone"]]
    /\ UNCHANGED <<player, free, sess, ticket, lost, due, pages, maps, quitting, running>>

\* ProcessPackage: stream lost, bad package, wrong frame number, or too many packages.
ConnectionLost(c) ==
    /\ link[c].open
    /\ link[c].role # NoRole => Live(c)
    /\ DetachAndShutdown(c)
    /\ UNCHANGED <<sess, ticket, due, maps, quitting, running>>

\* Breathe checks one connection per call; only a silent client is overdue.
PingTimeout(c) == link[c].client = "gone" /\ ConnectionLost(c)

Sends(c, m) ==
    /\ link[c].open /\ Live(c)
    /\ IF Orderly THEN link[c].client = m ELSE link[c].client # "gone"

\* The attached player's new fields, and what its client is asked next.
Becomes(c, fields, what) ==
    /\ Put(link[c].role, fields)
    /\ link' = [link EXCEPT ![c] = [link[c] EXCEPT !.client = what]]
    /\ UNCHANGED <<lost, pages>>

\* The client opens its own connection and shows the GUID it was given.
OnHandshakeRequest(c, r) ==
    /\ link[c].open /\ link[c].role = NoRole /\ link[c].client # "gone"
    /\ In(r, {"gsWaitForConnect"})
    /\ ticket[r] = sess[r]
    /\ link' = [link EXCEPT ![c] = [open |-> TRUE, role |-> r, sess |-> sess[r],
                                    client |-> "idle"]]
    /\ Put(r, [player[r] EXCEPT !.conn = c, !.status = "gsWaitForPermit", !.timer = 0])
    /\ due' = [due EXCEPT !["confirm"][r] = @ + 1]
    /\ UNCHANGED <<free, sess, ticket, lost, pages, maps, quitting, running>>

OnApplyEnterScene(c) ==
    LET r == link[c].role
        p == player[r]
    IN
    /\ Sends(c, "enter")
    /\ UNCHANGED <<free, sess, ticket, maps, quitting, running>>
    /\ \/ /\ p.status = "gsWaitForLoginLoading" /\ GetScene(p.place)
          /\ Becomes(c, [p EXCEPT !.status = "gsWaitForRoleData", !.timer = 0], "idle")
          /\ due' = [due EXCEPT !["role"][r] = @ + 1]
       \/ /\ p.status = "gsWaitForNewMapLoading" /\ GetScene(p.place)
          /\ Becomes(c, [p EXCEPT !.status = "gsPlaying", !.scene = p.place], "idle")
          /\ UNCHANGED due
       \/ \* wrong status, no scene, or no region at the position
          /\ p.status = "gsWaitForLoginLoading" => ~GetScene(p.place)
          /\ Detach(c)
          /\ UNCHANGED due

\* Mutant: FinishRoleDataLoad is not run after the last section.
LastSectionNotFinished(c) ==
    LET p == player[link[c].role] IN
    /\ Sends(c, "section")
    /\ UNCHANGED <<free, sess, ticket, due, maps, quitting, running>>
    /\ p.status = "gsWaitForSyncClientData"
    /\ IF p.left > 0
       THEN Becomes(c, [p EXCEPT !.left = @ - 1, !.timer = 0], "section")
       ELSE Becomes(c, [p EXCEPT !.timer = 0], "ready")

OnSyncRoleDataSectionCheckRespond(c) ==
    LET p == player[link[c].role] IN
    /\ Sends(c, "section")
    /\ UNCHANGED <<free, sess, ticket, due, maps, quitting, running>>
    /\ \/ /\ p.status = "gsWaitForSyncClientData" /\ p.left > 0
          /\ Becomes(c, [p EXCEPT !.left = @ - 1, !.timer = 0], "section")
       \/ /\ p.status = "gsWaitForSyncClientData" /\ p.left = 0
          /\ Becomes(c, [p EXCEPT !.finished = TRUE, !.timer = 0], "ready")
       \/ Detach(c)                 \* wrong status, bad section or script

\* OnClientReady sets the status before it validates the regions.
OnClientConfirmReady(c) ==
    LET r == link[c].role
        p == player[r]
        loaded == p.status = "gsWaitForSyncClientData" /\ p.left = 0
    IN
    /\ Sends(c, "ready")
    /\ UNCHANGED <<free, sess, ticket, due, maps, quitting, running>>
    /\ \/ loaded /\ Becomes(c, [p EXCEPT !.status = "gsPlaying"], "idle")
       \/ /\ loaded                 \* regions invalid: detached while playing
          /\ Put(r, [p EXCEPT !.status = "gsDeleting", !.conn = NoConn, !.timer = 0])
          /\ Unbind(c)
          /\ UNCHANGED <<lost, pages>>
       \/ ~loaded /\ Detach(c)

OnPlayerLogout(c) ==
    /\ link[c].open /\ link[c].client # "gone" /\ Live(c)
    /\ In(link[c].role, {"gsPlaying"})
    /\ Detach(c)
    /\ UNCHANGED <<free, sess, ticket, due, maps, quitting, running>>

-----------------------------------------------------------------------------
(* The frame: KTraversePlayerFunc, KPlayer::Activate and scripts.           *)

Aged(r) == Put(r, [player[r] EXCEPT !.timer = @ + 1])

\* Mutant: one visit too late.
ConnectTimerOverruns(r) ==
    /\ In(r, {"gsWaitForConnect"})
    /\ IF player[r].timer > LoginTimeout
       THEN DelPlayer(r, player[r].unsaved)
       ELSE Aged(r) /\ UNCHANGED <<lost, pages>>
    /\ UNCHANGED <<link, free, sess, ticket, due, maps, quitting, running>>

FrameWaitForConnect(r) ==
    /\ In(r, {"gsWaitForConnect"})
    /\ IF player[r].timer >= LoginTimeout
       THEN DelPlayer(r, player[r].unsaved)
       ELSE Aged(r) /\ UNCHANGED <<lost, pages>>
    /\ UNCHANGED <<link, free, sess, ticket, due, maps, quitting, running>>

FrameLogin(r, states, limit) ==
    /\ In(r, states)
    /\ player[r].conn \in Conns
    /\ IF player[r].timer >= limit
       THEN Detach(player[r].conn)
       ELSE Aged(r) /\ UNCHANGED <<link, lost, pages>>
    /\ UNCHANGED <<free, sess, ticket, due, maps, quitting, running>>

\* Mutant: waiting for the role's data has no timer.
RoleDataUntimed(r) ==
    FrameLogin(r, {"gsWaitForPermit"}, LoginTimeout)

FrameWaitForPermitOrRoleData(r) ==
    FrameLogin(r, {"gsWaitForPermit", "gsWaitForRoleData"}, LoginTimeout)

FrameWaitForSyncClientData(r) ==
    FrameLogin(r, {"gsWaitForSyncClientData"}, SyncTimeout)

\* Mutants: the account is not saved; a player in combat is never removed.
LogoutSavesRoleOnly(r) ==
    /\ In(r, {"gsDeleting"})
    /\ DelPlayer(r, player[r].unsaved \ {"role"})
    /\ UNCHANGED <<link, free, sess, ticket, due, maps, quitting, running>>

CombatHoldsLogout(r) ==
    /\ In(r, {"gsDeleting"})
    /\ ~player[r].fight
    /\ DelPlayer(r, {})
    /\ UNCHANGED <<link, free, sess, ticket, due, maps, quitting, running>>

\* Save role and account, then delete, once out of combat or after the delay.
FrameDeleting(r) ==
    /\ In(r, {"gsDeleting"})
    /\ IF player[r].timer >= LogoutWaiting \/ ~player[r].fight
       THEN DelPlayer(r, {})
       ELSE Aged(r) /\ UNCHANGED <<lost, pages>>
    /\ UNCHANGED <<link, free, sess, ticket, due, maps, quitting, running>>

\* The periodic save of a playing role.
FramePlayingSave(r) ==
    /\ In(r, {"gsPlaying"})
    /\ Put(r, [player[r] EXCEPT !.unsaved = {}])
    /\ UNCHANGED <<link, free, sess, ticket, lost, due, pages, maps, quitting, running>>

\* The paid time of a playing role is over.
FramePlayingEndOfFee(r) ==
    /\ In(r, {"gsPlaying"})
    /\ player[r].conn \in Conns
    /\ Detach(player[r].conn)
    /\ UNCHANGED <<free, sess, ticket, due, maps, quitting, running>>

\* Play: combat starts or ends, data of one of the blobs changes.
Play(r) ==
    /\ In(r, {"gsPlaying", "gsDeleting"})
    /\ \/ Put(r, [player[r] EXCEPT !.fight = ~@])
       \/ \E x \in Parts : Put(r, [player[r] EXCEPT !.unsaved = @ \cup {x}])
    /\ UNCHANGED <<link, free, sess, ticket, lost, due, pages, maps, quitting, running>>

\* KPlayer::RealSwitchMap saves the role blob only.
RealSwitchMap(r) ==
    /\ In(r, {"gsPlaying"})
    /\ Put(r, [player[r] EXCEPT !.status = "gsSearchMap", !.place = player[r].scene,
                                !.scene = NoMap, !.unsaved = @ \ {"role"}])
    /\ due' = [due EXCEPT !["search"][r] = @ + 1]
    /\ UNCHANGED <<link, free, sess, ticket, lost, pages, maps, quitting, running>>

\* KPlayer::LuaKickout: a script throws any connected player out.
LuaKickout(r) ==
    /\ player[r].conn \in Conns
    /\ Detach(player[r].conn)
    /\ UNCHANGED <<free, sess, ticket, due, maps, quitting, running>>

-----------------------------------------------------------------------------
(* Shutdown: KRelayClient::PrepareToQuit and Activate.                      *)

PrepareToQuit ==
    /\ ~quitting
    /\ quitting' = TRUE
    /\ UNCHANGED <<player, link, free, sess, ticket, lost, due, pages, maps, running>>

\* Mutant: only playing roles are sent away.
QuitDetachesPlaying ==
    /\ quitting
    /\ \E r \in Roles : /\ In(r, {"gsPlaying"})
                        /\ player[r].conn \in Conns
                        /\ Detach(player[r].conn)
    /\ UNCHANGED <<free, sess, ticket, due, maps, quitting, running>>

QuitDetach ==
    /\ quitting
    /\ \E r \in Roles : player[r].conn \in Conns /\ Detach(player[r].conn)
    /\ UNCHANGED <<free, sess, ticket, due, maps, quitting, running>>

QuitStop ==
    /\ quitting
    /\ \A r \in Roles : In(r, {"absent"})
    /\ running' = FALSE
    /\ UNCHANGED <<player, link, free, sess, ticket, lost, due, pages, maps, quitting>>

\* KRelayClient::ProcessPackage: without its center the server stops at once.
CenterLost ==
    /\ running' = FALSE
    /\ UNCHANGED <<player, link, free, sess, ticket, lost, due, pages, maps, quitting>>

-----------------------------------------------------------------------------

FrameStep(r) ==
    \/ FrameWaitForConnect(r) \/ FrameWaitForPermitOrRoleData(r)
    \/ FrameWaitForSyncClientData(r) \/ FrameDeleting(r)

RoleStep(r) ==
    \/ OnPlayerLoginRequest(r) \/ OnTransferPlayerRequest(r)
    \/ \E b \in Bounds : OnSyncNewExtPointRespond(r, b)
    \/ \E key \in 1 .. NepKeys : OnSyncGSNewExtPoint(r, key)
    \/ OnConfirmPlayerLoginRespond(r) \/ OnLoadRoleData(r)
    \/ OnSearchMapRespond(r) \/ OnSaveRoleDataRespond(r) \/ OnTransferPlayerRespond(r)
    \/ FrameStep(r) \/ FramePlayingSave(r) \/ FramePlayingEndOfFee(r)
    \/ Play(r) \/ RealSwitchMap(r) \/ LuaKickout(r)

ConnStep(c) ==
    \/ ProcessNewConnection(c) \/ ClientVanishes(c) \/ ConnectionLost(c) \/ PingTimeout(c)
    \/ \E r \in Roles : OnHandshakeRequest(c, r)
    \/ OnApplyEnterScene(c) \/ OnSyncRoleDataSectionCheckRespond(c)
    \/ OnClientConfirmReady(c) \/ OnPlayerLogout(c)

Next ==
    /\ running
    /\ \/ \E r \in Roles : RoleStep(r)
       \/ \E c \in Conns : ConnStep(c)
       \/ \E m \in Maps : OnCreateMapNotify(m) \/ OnDeleteMapNotify(m)
       \/ PrepareToQuit \/ QuitDetach \/ QuitStop \/ CenterLost

Spec == Init /\ [][Next]_vars

\* The main loop visits every player each frame, every connection in turn, and
\* the quitting branch of Activate; nothing is assumed of clients or center.
Fairness ==
    /\ \A r \in Roles : WF_vars(running /\ FrameStep(r))
    /\ \A c \in Conns : WF_vars(running /\ PingTimeout(c))
    /\ WF_vars(running /\ QuitDetach)
    /\ WF_vars(running /\ QuitStop)

FairSpec == Spec /\ Fairness

-----------------------------------------------------------------------------
(* Safety.                                                                  *)

\* A connection's pPlayer and that player's m_nConnIndex point at each other,
\* and pPlayer is never a deleted KPlayer or one of an earlier login: what
\* Attach, Detach and DelPlayer rely on when they follow the pointer.
Binding ==
    /\ \A c \in Conns : link[c].role # NoRole =>
          link[c].open /\ Live(c) /\ player[link[c].role].conn = c
    /\ \A r \in Roles : player[r].conn # NoConn => link[player[r].conn].role = r

\* DelPlayer asserts that the player it deletes is registered (KSO3World.cpp:1330,
\* Unregister clears m_dwID): a connection that Detach will be called for must not
\* keep a player that was deleted or replaced behind its back.
PointerRegistered == \A c \in Conns : link[c].role # NoRole => Live(c)

\* A player without a connection is one that a frame timer removes: no message,
\* answer or order of them leaves behind a player that nobody will delete, and
\* Detach, which asserts its index, is never called for one.
Orphan == \A r \in Roles :
    player[r].conn = NoConn <=> In(r, {"absent", "gsWaitForConnect", "gsDeleting"})

\* An index is on the free vector exactly when its connection is closed, once:
\* no Detach without Shutdown, or two Shutdowns, loses or doubles an index.
FreeList == \A c \in Conns : free[c] = IF link[c].open THEN 0 ELSE 1

\* While a page of a role's extension points is outstanding, it is the only one,
\* its player still waits for a connection, and no client has the GUID that would
\* admit it: OnSyncNewExtPointRespond, which deletes the player when a page cannot
\* be used, never deletes one that has meanwhile been attached or started to play.
\* It takes a center that answers no query of an ended login and leaves no other
\* server's list unfinished: OnSyncGSNewExtPoint asks in any status.
Pending == \A r \in Roles :
    /\ ticket[r] <= sess[r]
    /\ \A b \in Bounds : pages[r][b] > 0 =>
          /\ pages[r][b] = 1 /\ \A d \in Bounds \ {b} : pages[r][d] = 0
          /\ In(r, {"gsWaitForConnect"}) /\ ticket[r] < sess[r]

\* Whoever takes part in the world, or is being saved for logout, stands in a
\* scene that still exists: what RemovePlayer asserts.
InScene == \A r \in Roles :
    In(r, {"gsWaitForSyncClientData", "gsPlaying", "gsDeleting"}) => player[r].scene \in maps

\* With clients that answer what they are asked, a player is in the world, on
\* its way to another map, or saved at logout only after its whole role blob has
\* been parsed and FinishRoleDataLoad has run: no partly loaded role is saved.
FullyLoaded == \A r \in Roles :
    In(r, {"gsPlaying", "gsDeleting", "gsSearchMap", "gsWaitForNewMapLoading",
           "gsWaitForTransmissionSave", "gsWaitForTransmissionGuid"})
        => player[r].finished /\ player[r].left = 0

\* DelPlayer throws away nothing that changed after the last save, with one
\* exception the code has: account data of a player lost between RealSwitchMap,
\* which saves only the role blob, and its entry into the next map.  It takes a
\* center that offers by transfer no role that plays or logs out here.
SavedBeforeGone == [][\A r \in Roles :
    (player[r].status # "absent" /\ player'[r].status = "absent")
        => lost'[r] \subseteq (IF In(r, {"gsSearchMap", "gsWaitForNewMapLoading"})
                               THEN {"account"} ELSE {})]_vars

(* Liveness.                                                                *)

\* A login that waits for the client's connection, the center or the client's
\* acknowledgements comes to an end, whether or not anybody answers.
LoginSettles == \A r \in Roles : \A s \in {"gsWaitForConnect", "gsWaitForPermit",
                                    "gsWaitForRoleData", "gsWaitForSyncClientData"} :
    In(r, {s}) ~> (~In(r, {s}) \/ ~running)

\* The player of a client that vanished is deleted, in whatever state it was.
VanishedClientLeaves == \A r \in Roles, c \in Conns :
    (player[r].conn = c /\ link[c].client = "gone") ~> (In(r, {"absent"}) \/ ~running)

\* Once told to quit, the server gets rid of all its players and stops.
QuitCompletes == quitting ~> ~running

=============================================================================
