------------------------ MODULE PlayerSessionProofs ------------------------
(* Theorems about PlayerSession, for any number of roles, connections and   *)
(* maps, any time limits and any length of the streams.                     *)
EXTENDS PlayerSession, TLAPS

USE DomainAssumption, BoundAssumption

-----------------------------------------------------------------------------
(* Typing of the records.                                                   *)

Timers == 0 .. Max3(LoginTimeout, SyncTimeout, LogoutWaiting)

LEMMA TimersNat == /\ 0 \in Timers
                   /\ \A t \in Timers : t \in Nat
                   /\ \A t \in Timers : (t < LoginTimeout \/ t < SyncTimeout \/ t < LogoutWaiting)
                         => t + 1 \in Timers
  BY DEF Timers, Max3

LEMMA Statuses ==
    /\ "absent" \in Status /\ "gsWaitForConnect" \in Status
    /\ "gsPlaying" \in Status /\ "gsDeleting" \in Status
    /\ "gsWaitForPermit" \in Status /\ "gsWaitForRoleData" \in Status
    /\ "gsWaitForSyncClientData" \in Status /\ "gsWaitForLoginLoading" \in Status
    /\ "gsWaitForNewMapLoading" \in Status /\ "gsSearchMap" \in Status
    /\ "gsWaitForTransmissionSave" \in Status /\ "gsWaitForTransmissionGuid" \in Status
  BY DEF Status, DetachDeletes

LEMMA GoneType == Gone \in PlayerRec
  BY TimersNat DEF Gone, PlayerRec, Timers, Status

LEMMA ClosedType == Closed \in LinkRec
  BY DEF Closed, LinkRec, Asked

LEMMA PlayerType == ASSUME TypeOK, NEW r \in Roles PROVE player[r] \in PlayerRec
  BY DEF TypeOK

LEMMA LinkType == ASSUME TypeOK, NEW c \in Conns PROVE link[c] \in LinkRec
  BY DEF TypeOK

LEMMA PutType ==
    ASSUME TypeOK, NEW r \in Roles, NEW p \in PlayerRec, Put(r, p)
    PROVE  player' \in [Roles -> PlayerRec]
  BY DEF TypeOK, Put

LEMMA AskType ==
    ASSUME TypeOK, NEW c \in Conns, NEW what \in Asked
    PROVE  Ask(c, what) \in [Conns -> LinkRec]
  <1>1. [link[c] EXCEPT !.client = what] \in LinkRec
    BY LinkType DEF LinkRec
  <1>2. link \in [Conns -> LinkRec]
    BY DEF TypeOK
  <1>3. [link EXCEPT ![c] = [link[c] EXCEPT !.client = what]] \in [Conns -> LinkRec]
    BY <1>1, <1>2
  <1> QED
    BY <1>2, <1>3 DEF Ask

LEMMA AskingType ==
    ASSUME TypeOK, NEW r \in Roles, NEW what \in Asked
    PROVE  Asking(r, what) \in [Conns -> LinkRec]
  <1>1. player[r].conn \in Conns \cup {NoConn}
    BY DEF TypeOK, PlayerRec
  <1> QED
    BY <1>1, AskType DEF TypeOK, Asking

LEMMA DelPlayerType ==
    ASSUME TypeOK, NEW r \in Roles, NEW dirty \in SUBSET Parts, DelPlayer(r, dirty)
    PROVE  /\ player' \in [Roles -> PlayerRec]
           /\ lost' \in [Roles -> SUBSET Parts]
           /\ pages' \in [Roles -> [Bounds -> Nat]]
  BY GoneType, PutType DEF DelPlayer, TypeOK, NoPages

LEMMA UnsavedType == ASSUME TypeOK, NEW r \in Roles PROVE player[r].unsaved \in SUBSET Parts
  BY DEF TypeOK, PlayerRec

LEMMA NewPlayerType ==
    ASSUME TypeOK, NEW r \in Roles, NEW m \in Maps, NewPlayer(r, m)
    PROVE  /\ player' \in [Roles -> PlayerRec]
           /\ sess' \in [Roles -> Nat]
           /\ lost' \in [Roles -> SUBSET Parts]
  <1>1. [Gone EXCEPT !.status = "gsWaitForConnect", !.place = m] \in PlayerRec
    BY GoneType, Statuses DEF PlayerRec
  <1> QED
    BY <1>1, PutType DEF NewPlayer, TypeOK

\* A connection's release keeps the records of their type.
LEMMA ReleasedType ==
    ASSUME TypeOK, NEW c \in Conns, Released(c)
    PROVE  /\ player' \in [Roles -> PlayerRec]
           /\ lost' \in [Roles -> SUBSET Parts]
           /\ pages' \in [Roles -> [Bounds -> Nat]]
  <1> DEFINE r == link[c].role
  <1>1. CASE r = NoRole /\ UNCHANGED <<player, lost, pages>>
    BY <1>1 DEF TypeOK
  <1>2. CASE /\ r \in Roles
             /\ Put(r, [player[r] EXCEPT !.conn = NoConn, !.timer = 0, !.status = "gsDeleting"])
             /\ UNCHANGED <<lost, pages>>
    <2>1. player[r] \in PlayerRec
      BY <1>2, PlayerType
    <2>2. [player[r] EXCEPT !.conn = NoConn, !.timer = 0, !.status = "gsDeleting"] \in PlayerRec
      BY <2>1, TimersNat, Statuses DEF PlayerRec, Timers
    <2>3. player' \in [Roles -> PlayerRec]
      BY <1>2, <2>2, PutType
    <2> QED
      BY <1>2, <2>3 DEF TypeOK
  <1>3. CASE r \in Roles /\ DelPlayer(r, player[r].unsaved)
    BY <1>3, DelPlayerType, UnsavedType
  <1>4. CASE /\ r \in Roles
             /\ Put(r, [player[r] EXCEPT !.conn = NoConn])
             /\ UNCHANGED <<lost, pages>>
    <2>1. [player[r] EXCEPT !.conn = NoConn] \in PlayerRec
      BY <1>4, PlayerType DEF PlayerRec
    <2>2. player' \in [Roles -> PlayerRec]
      BY <1>4, <2>1, PutType
    <2> QED
      BY <1>4, <2>2 DEF TypeOK
  <1> QED
    BY <1>1, <1>2, <1>3, <1>4 DEF Released

LEMMA UnbindType ==
    ASSUME TypeOK, NEW c \in Conns, Unbind(c)
    PROVE  link' \in [Conns -> LinkRec]
  <1>1. [link[c] EXCEPT !.role = NoRole, !.sess = 0] \in LinkRec
    BY LinkType DEF LinkRec
  <1> QED
    BY <1>1 DEF TypeOK, Unbind

LEMMA DetachType ==
    ASSUME TypeOK, NEW c \in Conns, Detach(c)
    PROVE  /\ player' \in [Roles -> PlayerRec]
           /\ link' \in [Conns -> LinkRec]
           /\ lost' \in [Roles -> SUBSET Parts]
           /\ pages' \in [Roles -> [Bounds -> Nat]]
  BY ReleasedType, UnbindType DEF Detach

LEMMA DetachAndShutdownType ==
    ASSUME TypeOK, NEW c \in Conns, DetachAndShutdown(c)
    PROVE  /\ player' \in [Roles -> PlayerRec]
           /\ link' \in [Conns -> LinkRec]
           /\ free' \in [Conns -> Nat]
           /\ lost' \in [Roles -> SUBSET Parts]
           /\ pages' \in [Roles -> [Bounds -> Nat]]
  BY ReleasedType, ClosedType DEF DetachAndShutdown, TypeOK

LEMMA ConsumeType ==
    ASSUME TypeOK, NEW k \in Kinds, NEW r \in Roles, Answered(k, r), Consume(k, r)
    PROVE  due' \in [Kinds -> [Roles -> Nat]]
  <1>1. due[k] \in [Roles -> Nat]
    BY DEF TypeOK
  <1>2. due[k][r] - 1 \in Nat
    BY <1>1 DEF Answered
  <1> QED
    BY <1>1, <1>2 DEF TypeOK, Consume

LEMMA OweType ==
    ASSUME TypeOK, NEW k \in Kinds, NEW r \in Roles, due' = [due EXCEPT ![k][r] = @ + 1]
    PROVE  due' \in [Kinds -> [Roles -> Nat]]
  <1>1. due[k] \in [Roles -> Nat] /\ due[k][r] + 1 \in Nat
    BY DEF TypeOK
  <1> QED
    BY <1>1 DEF TypeOK

\* One answer taken, another one now owed.
LEMMA MoveType ==
    ASSUME TypeOK, NEW k \in Kinds, NEW l \in Kinds, NEW r \in Roles, k # l, Answered(k, r),
           due' = [due EXCEPT ![k][r] = @ - 1, ![l][r] = @ + 1]
    PROVE  due' \in [Kinds -> [Roles -> Nat]]
  <1>1. due[k] \in [Roles -> Nat] /\ due[l] \in [Roles -> Nat]
    BY DEF TypeOK
  <1>2. due[k][r] - 1 \in Nat /\ due[l][r] + 1 \in Nat
    BY <1>1 DEF Answered
  <1> QED
    BY <1>1, <1>2 DEF TypeOK

\* The variables of TypeOK that only few actions touch.
Quiet == UNCHANGED <<free, sess, ticket, due, maps, quitting, running>>

LEMMA DetachStepType == ASSUME TypeOK, NEW c \in Conns, Detach(c), Quiet PROVE TypeOK'
  BY DetachType DEF TypeOK, Quiet

LEMMA LoginRequestType ==
    ASSUME TypeOK, NEW r \in Roles, OnPlayerLoginRequest(r) PROVE TypeOK'
  <1>1. PICK m \in Maps : NewPlayer(r, m)
    BY DEF OnPlayerLoginRequest
  <1>2. pages' \in [Roles -> [Bounds -> Nat]]
    BY DEF OnPlayerLoginRequest, TypeOK, Bounds
  <1> QED
    BY <1>1, <1>2, NewPlayerType DEF OnPlayerLoginRequest, TypeOK

LEMMA ExtPointType ==
    ASSUME TypeOK, NEW r \in Roles, NEW b \in Bounds, OnSyncNewExtPointRespond(r, b)
    PROVE  TypeOK'
  <1> DEFINE key == b + 1
             asked == [pages EXCEPT ![r][b] = @ - 1]
  <1>1. asked \in [Roles -> [Bounds -> Nat]]
    <2>1. pages[r] \in [Bounds -> Nat] /\ pages[r][b] - 1 \in Nat
      BY DEF TypeOK, OnSyncNewExtPointRespond
    <2> QED
      BY <2>1 DEF TypeOK
  <1>2. /\ UNCHANGED <<link, free, sess, due, maps, quitting, running>>
    BY DEF OnSyncNewExtPointRespond
  <1>3. CASE pages' = asked /\ UNCHANGED <<player, ticket, lost>>
    BY <1>1, <1>2, <1>3 DEF TypeOK
  <1>4. CASE /\ ~(key >= NepKeys)
             /\ Put(r, [player[r] EXCEPT !.points = @ \cup {key}])
             /\ pages' = [asked EXCEPT ![r][key] = @ + 1]
             /\ UNCHANGED <<ticket, lost>>
    <2>1. key \in Bounds /\ key \in 1 .. NepKeys
      BY <1>4 DEF Bounds
    <2>2. [player[r] EXCEPT !.points = @ \cup {key}] \in PlayerRec
      BY <2>1, PlayerType DEF PlayerRec
    <2>3. player' \in [Roles -> PlayerRec]
      BY <1>4, <2>2, PutType
    <2>4. asked[r] \in [Bounds -> Nat] /\ asked[r][key] + 1 \in Nat
      BY <1>1, <2>1
    <2>5. pages' \in [Roles -> [Bounds -> Nat]]
      BY <1>1, <1>4, <2>1, <2>4
    <2> QED
      BY <1>2, <1>4, <2>3, <2>5 DEF TypeOK
  <1>5. CASE /\ Put(r, [player[r] EXCEPT !.points = IF NepKeys = 0 THEN @ ELSE @ \cup {key}])
             /\ pages' = asked
             /\ ticket' = [ticket EXCEPT ![r] = sess[r]]
             /\ UNCHANGED lost
    <2>1. NepKeys # 0 => key \in 1 .. NepKeys
      BY DEF Bounds
    <2>2. [player[r] EXCEPT !.points = IF NepKeys = 0 THEN @ ELSE @ \cup {key}] \in PlayerRec
      BY <2>1, PlayerType DEF PlayerRec
    <2>3. player' \in [Roles -> PlayerRec]
      BY <1>5, <2>2, PutType
    <2> QED
      BY <1>1, <1>2, <1>5, <2>3 DEF TypeOK
  <1>6. CASE /\ Put(r, Gone)
             /\ lost' = [lost EXCEPT ![r] = player[r].unsaved]
             /\ pages' = IF LateExtPoints THEN asked ELSE [pages EXCEPT ![r] = NoPages]
             /\ UNCHANGED ticket
    <2>1. player' \in [Roles -> PlayerRec]
      BY <1>6, GoneType, PutType
    <2>2. pages' \in [Roles -> [Bounds -> Nat]]
      BY <1>1, <1>6 DEF TypeOK, NoPages
    <2>3. lost' \in [Roles -> SUBSET Parts]
      BY <1>6, UnsavedType DEF TypeOK
    <2> QED
      BY <1>2, <1>6, <2>1, <2>2, <2>3 DEF TypeOK
  <1> QED
    BY <1>3, <1>4, <1>5, <1>6 DEF OnSyncNewExtPointRespond

LEMMA GSExtPointType ==
    ASSUME TypeOK, NEW r \in Roles, NEW key \in 1 .. NepKeys, OnSyncGSNewExtPoint(r, key)
    PROVE  TypeOK'
  <1>1. [player[r] EXCEPT !.points = @ \cup {key}] \in PlayerRec
    BY PlayerType DEF PlayerRec
  <1>2. player' \in [Roles -> PlayerRec]
    BY <1>1, PutType DEF OnSyncGSNewExtPoint
  <1>3. PICK bySyncFinish \in GSListEnds :
           /\ key = NepKeys => bySyncFinish
           /\ pages' = IF bySyncFinish THEN pages ELSE [pages EXCEPT ![r][key] = @ + 1]
    BY DEF OnSyncGSNewExtPoint
  <1>4. pages' \in [Roles -> [Bounds -> Nat]]
    <2>1. pages[r] \in [Bounds -> Nat]
      BY DEF TypeOK
    <2>2. CASE pages' = pages
      BY <2>2 DEF TypeOK
    <2>3. CASE key # NepKeys /\ pages' = [pages EXCEPT ![r][key] = @ + 1]
      <3>1. key \in Bounds
        BY <2>3 DEF Bounds
      <3>2. pages[r][key] + 1 \in Nat
        BY <2>1, <3>1
      <3> QED
        BY <2>1, <2>3, <3>1, <3>2 DEF TypeOK
    <2> QED
      BY <1>3, <2>2, <2>3
  <1> QED
    BY <1>2, <1>4 DEF OnSyncGSNewExtPoint, TypeOK

LEMMA TransferRequestType ==
    ASSUME TypeOK, NEW r \in Roles, OnTransferPlayerRequest(r) PROVE TypeOK'
  <1>1. CASE /\ \E m \in Maps : NewPlayer(r, m)
             /\ ticket' = [ticket EXCEPT ![r] = sess[r] + 1]
             /\ UNCHANGED pages
    BY <1>1, NewPlayerType DEF OnTransferPlayerRequest, TypeOK
  <1>2. CASE DelPlayer(r, player[r].unsaved) /\ UNCHANGED <<sess, ticket>>
    BY <1>2, DelPlayerType, UnsavedType DEF OnTransferPlayerRequest, TypeOK
  <1> QED
    BY <1>1, <1>2 DEF OnTransferPlayerRequest

LEMMA ConfirmType ==
    ASSUME TypeOK, NEW r \in Roles, OnConfirmPlayerLoginRespond(r) PROVE TypeOK'
  <1>1. due' \in [Kinds -> [Roles -> Nat]]
    BY ConsumeType DEF OnConfirmPlayerLoginRespond, Kinds
  <1>2. CASE UNCHANGED <<player, link, lost, pages>>
    BY <1>1, <1>2 DEF OnConfirmPlayerLoginRespond, TypeOK
  <1>3. CASE /\ Put(r, [player[r] EXCEPT !.status = "gsWaitForLoginLoading", !.timer = 0])
             /\ link' = Asking(r, "enter")
             /\ UNCHANGED <<lost, pages>>
    <2>1. [player[r] EXCEPT !.status = "gsWaitForLoginLoading", !.timer = 0] \in PlayerRec
      BY PlayerType, TimersNat, Statuses DEF PlayerRec, Timers
    <2>2. player' \in [Roles -> PlayerRec]
      BY <1>3, <2>1, PutType
    <2>3. link' \in [Conns -> LinkRec]
      BY <1>3, AskingType DEF Asked
    <2> QED
      BY <1>1, <1>3, <2>2, <2>3 DEF OnConfirmPlayerLoginRespond, TypeOK
  <1>4. CASE player[r].conn \in Conns /\ Detach(player[r].conn)
    BY <1>1, <1>4, DetachType DEF OnConfirmPlayerLoginRespond, TypeOK
  <1> QED
    BY <1>2, <1>3, <1>4 DEF OnConfirmPlayerLoginRespond

LEMMA LoadRoleType ==
    ASSUME TypeOK, NEW r \in Roles, OnLoadRoleData(r) PROVE TypeOK'
  <1> DEFINE inScene == [player[r] EXCEPT !.scene = player[r].place]
             syncing == [inScene EXCEPT !.status = "gsWaitForSyncClientData"]
  <1>1. due' \in [Kinds -> [Roles -> Nat]]
    BY ConsumeType DEF OnLoadRoleData, Kinds
  <1>2. inScene \in PlayerRec
    BY PlayerType DEF PlayerRec
  <1>3. syncing \in PlayerRec
    BY <1>2, Statuses DEF PlayerRec
  <1> HIDE DEF syncing
  <1>4. ASSUME NEW p \in PlayerRec, NEW what \in Asked,
               Put(r, p), link' = link \/ link' = Asking(r, what)
        PROVE  TypeOK'
    <2>1. player' \in [Roles -> PlayerRec]
      BY <1>4, PutType
    <2>2. link' \in [Conns -> LinkRec]
      BY <1>4, AskingType DEF TypeOK
    <2> QED
      BY <1>1, <2>1, <2>2 DEF OnLoadRoleData, TypeOK
  <1>5. CASE UNCHANGED <<player, link>>
    BY <1>1, <1>5 DEF OnLoadRoleData, TypeOK
  <1>6. CASE Put(r, inScene) /\ UNCHANGED link
    BY <1>2, <1>4, <1>6 DEF Asked
  <1>7. CASE /\ Put(r, [syncing EXCEPT !.left = 0, !.finished = TRUE])
             /\ link' = Asking(r, "ready")
    <2>1. [syncing EXCEPT !.left = 0] \in PlayerRec
      BY <1>3 DEF PlayerRec
    <2>2. [[syncing EXCEPT !.left = 0] EXCEPT !.finished = TRUE] \in PlayerRec
      BY <2>1 DEF PlayerRec
    <2>3. [syncing EXCEPT !.left = 0, !.finished = TRUE] \in PlayerRec
      BY <2>2
    <2> QED
      BY <1>4, <1>7, <2>3 DEF Asked
  <1>8. ASSUME NEW n \in 1 .. MaxBlocks
        PROVE  /\ [syncing EXCEPT !.left = n - 1] \in PlayerRec
               /\ [syncing EXCEPT !.left = n] \in PlayerRec
    BY <1>3, <1>8 DEF PlayerRec
  <1>9. CASE \E n \in 1 .. MaxBlocks :
                \/ Put(r, [syncing EXCEPT !.left = n - 1]) /\ link' = Asking(r, "section")
                \/ Put(r, [syncing EXCEPT !.left = n]) /\ UNCHANGED link
    BY <1>4, <1>8, <1>9 DEF Asked
  <1> QED
    BY <1>5, <1>6, <1>7, <1>9 DEF OnLoadRoleData, syncing

LEMMA SearchMapType ==
    ASSUME TypeOK, NEW r \in Roles, OnSearchMapRespond(r) PROVE TypeOK'
  <1>1. CASE UNCHANGED <<player, link>> /\ Consume("search", r)
    BY <1>1, ConsumeType DEF OnSearchMapRespond, TypeOK, Kinds
  <1>2. ASSUME NEW p \in PlayerRec, NEW what \in Asked, Put(r, p),
               link' = link \/ link' = Asking(r, what), due' \in [Kinds -> [Roles -> Nat]]
        PROVE  TypeOK'
    <2>1. player' \in [Roles -> PlayerRec]
      BY <1>2, PutType
    <2>2. link' \in [Conns -> LinkRec]
      BY <1>2, AskingType DEF TypeOK
    <2> QED
      BY <1>2, <2>1, <2>2 DEF OnSearchMapRespond, TypeOK
  <1>3. CASE /\ \E added \in BOOLEAN :
                   Put(r, [player[r] EXCEPT !.scene = player[r].place,
                                            !.status = IF added THEN "gsPlaying" ELSE @])
             /\ UNCHANGED link
             /\ Consume("search", r)
    <2>1. PICK added \in BOOLEAN :
             Put(r, [player[r] EXCEPT !.scene = player[r].place,
                                      !.status = IF added THEN "gsPlaying" ELSE @])
      BY <1>3
    <2>2. [player[r] EXCEPT !.scene = player[r].place,
                            !.status = IF added THEN "gsPlaying" ELSE @] \in PlayerRec
      BY PlayerType, Statuses DEF PlayerRec
    <2>3. due' \in [Kinds -> [Roles -> Nat]]
      BY <1>3, ConsumeType DEF OnSearchMapRespond, Kinds
    <2> QED
      BY <1>2, <1>3, <2>1, <2>2, <2>3 DEF Asked
  <1>4. CASE /\ \E m \in Maps :
                   Put(r, [player[r] EXCEPT !.place = m, !.status = "gsWaitForNewMapLoading"])
             /\ link' = Asking(r, "enter")
             /\ Consume("search", r)
    <2>1. PICK m \in Maps :
             Put(r, [player[r] EXCEPT !.place = m, !.status = "gsWaitForNewMapLoading"])
      BY <1>4
    <2>2. [player[r] EXCEPT !.place = m, !.status = "gsWaitForNewMapLoading"] \in PlayerRec
      BY PlayerType, Statuses DEF PlayerRec
    <2>3. due' \in [Kinds -> [Roles -> Nat]]
      BY <1>4, ConsumeType DEF OnSearchMapRespond, Kinds
    <2> QED
      BY <1>2, <1>4, <2>1, <2>2, <2>3 DEF Asked
  <1>5. CASE /\ Put(r, [player[r] EXCEPT !.status = "gsWaitForTransmissionSave",
                                         !.place = NoMap, !.unsaved = {}])
             /\ due' = [due EXCEPT !["search"][r] = @ - 1, !["save"][r] = @ + 1]
             /\ UNCHANGED link
    <2>1. [player[r] EXCEPT !.status = "gsWaitForTransmissionSave",
                            !.place = NoMap, !.unsaved = {}] \in PlayerRec
      BY PlayerType, Statuses DEF PlayerRec
    <2>2. due' \in [Kinds -> [Roles -> Nat]]
      BY <1>5, MoveType DEF OnSearchMapRespond, Kinds
    <2> QED
      BY <1>2, <1>5, <2>1, <2>2 DEF Asked
  <1> QED
    BY <1>1, <1>3, <1>4, <1>5 DEF OnSearchMapRespond

LEMMA SaveRespondType ==
    ASSUME TypeOK, NEW r \in Roles, OnSaveRoleDataRespond(r) PROVE TypeOK'
  <1>1. CASE Consume("save", r) /\ UNCHANGED <<player, link, lost, pages>>
    BY <1>1, ConsumeType DEF OnSaveRoleDataRespond, TypeOK, Kinds
  <1>2. CASE /\ Put(r, [player[r] EXCEPT !.status = "gsWaitForTransmissionGuid"])
             /\ due' = [due EXCEPT !["save"][r] = @ - 1, !["transfer"][r] = @ + 1]
             /\ UNCHANGED <<link, lost, pages>>
    <2>1. [player[r] EXCEPT !.status = "gsWaitForTransmissionGuid"] \in PlayerRec
      BY PlayerType, Statuses DEF PlayerRec
    <2>2. player' \in [Roles -> PlayerRec]
      BY <1>2, <2>1, PutType
    <2>3. due' \in [Kinds -> [Roles -> Nat]]
      BY <1>2, MoveType DEF OnSaveRoleDataRespond, Kinds
    <2> QED
      BY <1>2, <2>2, <2>3 DEF OnSaveRoleDataRespond, TypeOK
  <1>3. CASE /\ player[r].conn \in Conns
             /\ Detach(player[r].conn)
             /\ Consume("save", r)
    BY <1>3, ConsumeType, DetachType DEF OnSaveRoleDataRespond, TypeOK, Kinds
  <1> QED
    BY <1>1, <1>2, <1>3 DEF OnSaveRoleDataRespond

LEMMA TransferRespondType ==
    ASSUME TypeOK, NEW r \in Roles, OnTransferPlayerRespond(r) PROVE TypeOK'
  <1>1. due' \in [Kinds -> [Roles -> Nat]]
    BY ConsumeType DEF OnTransferPlayerRespond, Kinds
  <1>2. CASE player[r].conn \in Conns /\ Detach(player[r].conn)
    BY <1>1, <1>2, DetachType DEF OnTransferPlayerRespond, TypeOK
  <1>3. CASE UNCHANGED <<player, link, lost, pages>>
    BY <1>1, <1>3 DEF OnTransferPlayerRespond, TypeOK
  <1> QED
    BY <1>2, <1>3 DEF OnTransferPlayerRespond

LEMMA MapsType ==
    ASSUME TypeOK, NEW m \in Maps, OnCreateMapNotify(m) \/ OnDeleteMapNotify(m) PROVE TypeOK'
  BY DEF TypeOK, OnCreateMapNotify, OnDeleteMapNotify

LEMMA ConnectionType ==
    ASSUME TypeOK, NEW c \in Conns,
           ProcessNewConnection(c) \/ ClientVanishes(c) \/ ConnectionLost(c)
    PROVE  TypeOK'
  <1>1. CASE ProcessNewConnection(c)
    <2>1. [Closed EXCEPT !.open = TRUE] \in LinkRec
      BY ClosedType DEF LinkRec
    <2>2. free' \in [Conns -> Nat]
      BY <1>1 DEF ProcessNewConnection, TypeOK
    <2> QED
      BY <1>1, <2>1, <2>2 DEF ProcessNewConnection, TypeOK
  <1>2. CASE ClientVanishes(c)
    <2>1. [link[c] EXCEPT !.client = "gone"] \in LinkRec
      BY LinkType DEF LinkRec, Asked
    <2> QED
      BY <1>2, <2>1 DEF ClientVanishes, TypeOK
  <1>3. CASE ConnectionLost(c)
    BY <1>3, DetachAndShutdownType DEF ConnectionLost, TypeOK
  <1> QED
    BY <1>1, <1>2, <1>3

LEMMA HandshakeType ==
    ASSUME TypeOK, NEW c \in Conns, NEW r \in Roles, OnHandshakeRequest(c, r) PROVE TypeOK'
  <1>1. [open |-> TRUE, role |-> r, sess |-> sess[r], client |-> "idle"] \in LinkRec
    BY DEF TypeOK, LinkRec, Asked
  <1>2. [player[r] EXCEPT !.conn = c, !.status = "gsWaitForPermit", !.timer = 0] \in PlayerRec
    BY PlayerType, TimersNat, Statuses DEF PlayerRec, Timers
  <1>3. player' \in [Roles -> PlayerRec]
    BY <1>2, PutType DEF OnHandshakeRequest
  <1>4. due' \in [Kinds -> [Roles -> Nat]]
    BY OweType DEF OnHandshakeRequest, Kinds
  <1>5. link' \in [Conns -> LinkRec]
    BY <1>1 DEF OnHandshakeRequest, TypeOK
  <1> QED
    BY <1>3, <1>4, <1>5 DEF OnHandshakeRequest, TypeOK

LEMMA BecomesType ==
    ASSUME TypeOK, NEW c \in Conns, link[c].role \in Roles, NEW p \in PlayerRec,
           NEW what \in Asked, Becomes(c, p, what)
    PROVE  /\ player' \in [Roles -> PlayerRec]
           /\ link' \in [Conns -> LinkRec]
  <1>1. [link[c] EXCEPT !.client = what] \in LinkRec
    BY LinkType DEF LinkRec
  <1> QED
    BY <1>1, PutType DEF Becomes, TypeOK

LEMMA EnterSceneType ==
    ASSUME TypeOK, NEW c \in Conns, OnApplyEnterScene(c) PROVE TypeOK'
  <1> DEFINE r == link[c].role
             p == player[r]
  <1>1. r \in Roles /\ UNCHANGED <<free, sess, ticket, maps, quitting, running>>
    BY DEF OnApplyEnterScene, Sends, Live
  <1>2. p \in PlayerRec
    BY <1>1, PlayerType
  <1>3. CASE /\ Becomes(c, [p EXCEPT !.status = "gsWaitForRoleData", !.timer = 0], "idle")
             /\ due' = [due EXCEPT !["role"][r] = @ + 1]
    <2>1. [p EXCEPT !.status = "gsWaitForRoleData", !.timer = 0] \in PlayerRec
      BY <1>2, TimersNat, Statuses DEF PlayerRec, Timers
    <2>2. player' \in [Roles -> PlayerRec] /\ link' \in [Conns -> LinkRec]
      BY <1>1, <1>3, <2>1, BecomesType DEF Asked
    <2>3. due' \in [Kinds -> [Roles -> Nat]]
      BY <1>1, <1>3, OweType DEF Kinds
    <2> QED
      BY <1>1, <1>3, <2>2, <2>3 DEF Becomes, TypeOK
  <1>4. CASE /\ Becomes(c, [p EXCEPT !.status = "gsPlaying", !.scene = p.place], "idle")
             /\ UNCHANGED due
    <2>1. [p EXCEPT !.status = "gsPlaying", !.scene = p.place] \in PlayerRec
      BY <1>2, Statuses DEF PlayerRec
    <2>2. player' \in [Roles -> PlayerRec] /\ link' \in [Conns -> LinkRec]
      BY <1>1, <1>4, <2>1, BecomesType DEF Asked
    <2> QED
      BY <1>1, <1>4, <2>2 DEF Becomes, TypeOK
  <1>5. CASE Detach(c) /\ UNCHANGED due
    BY <1>1, <1>5, DetachStepType DEF Quiet
  <1> QED
    BY <1>3, <1>4, <1>5 DEF OnApplyEnterScene

LEMMA SectionType ==
    ASSUME TypeOK, NEW c \in Conns, OnSyncRoleDataSectionCheckRespond(c) PROVE TypeOK'
  <1> DEFINE p == player[link[c].role]
  <1>1. link[c].role \in Roles /\ UNCHANGED <<free, sess, ticket, due, maps, quitting, running>>
    BY DEF OnSyncRoleDataSectionCheckRespond, Sends, Live
  <1>2. p \in PlayerRec
    BY <1>1, PlayerType
  <1>3. CASE p.left > 0 /\ Becomes(c, [p EXCEPT !.left = @ - 1, !.timer = 0], "section")
    <2>1. p.left - 1 \in 0 .. MaxBlocks
      BY <1>2, <1>3 DEF PlayerRec
    <2>2. [p EXCEPT !.left = p.left - 1] \in PlayerRec
      BY <1>2, <2>1 DEF PlayerRec
    <2>3. [[p EXCEPT !.left = p.left - 1] EXCEPT !.timer = 0] \in PlayerRec
      BY <2>2, TimersNat DEF PlayerRec, Timers
    <2>4. [p EXCEPT !.left = @ - 1, !.timer = 0] \in PlayerRec
      BY <2>3
    <2>5. player' \in [Roles -> PlayerRec] /\ link' \in [Conns -> LinkRec]
      BY <1>1, <1>3, <2>4, BecomesType DEF Asked
    <2> QED
      BY <1>1, <1>3, <2>5 DEF Becomes, TypeOK
  <1>4. CASE Becomes(c, [p EXCEPT !.finished = TRUE, !.timer = 0], "ready")
    <2>1. [p EXCEPT !.finished = TRUE, !.timer = 0] \in PlayerRec
      BY <1>2, TimersNat DEF PlayerRec, Timers
    <2>2. player' \in [Roles -> PlayerRec] /\ link' \in [Conns -> LinkRec]
      BY <1>1, <1>4, <2>1, BecomesType DEF Asked
    <2> QED
      BY <1>1, <1>4, <2>2 DEF Becomes, TypeOK
  <1>5. CASE Detach(c)
    BY <1>1, <1>5, DetachStepType DEF Quiet
  <1> QED
    BY <1>3, <1>4, <1>5 DEF OnSyncRoleDataSectionCheckRespond

LEMMA ReadyType ==
    ASSUME TypeOK, NEW c \in Conns, OnClientConfirmReady(c) PROVE TypeOK'
  <1> DEFINE r == link[c].role
             p == player[r]
  <1>1. r \in Roles /\ UNCHANGED <<free, sess, ticket, due, maps, quitting, running>>
    BY DEF OnClientConfirmReady, Sends, Live
  <1>2. p \in PlayerRec
    BY <1>1, PlayerType
  <1>3. CASE Becomes(c, [p EXCEPT !.status = "gsPlaying"], "idle")
    <2>1. [p EXCEPT !.status = "gsPlaying"] \in PlayerRec
      BY <1>2, Statuses DEF PlayerRec
    <2>2. player' \in [Roles -> PlayerRec] /\ link' \in [Conns -> LinkRec]
      BY <1>1, <1>3, <2>1, BecomesType DEF Asked
    <2> QED
      BY <1>1, <1>3, <2>2 DEF Becomes, TypeOK
  <1>4. CASE /\ Put(r, [p EXCEPT !.status = "gsDeleting", !.conn = NoConn, !.timer = 0])
             /\ Unbind(c)
             /\ UNCHANGED <<lost, pages>>
    <2>1. [p EXCEPT !.status = "gsDeleting", !.conn = NoConn, !.timer = 0] \in PlayerRec
      BY <1>2, TimersNat, Statuses DEF PlayerRec, Timers
    <2>2. player' \in [Roles -> PlayerRec]
      BY <1>1, <1>4, <2>1, PutType
    <2>3. link' \in [Conns -> LinkRec]
      BY <1>4, UnbindType
    <2> QED
      BY <1>1, <1>4, <2>2, <2>3 DEF TypeOK
  <1>5. CASE Detach(c)
    BY <1>1, <1>5, DetachStepType DEF Quiet
  <1> QED
    BY <1>3, <1>4, <1>5 DEF OnClientConfirmReady

LEMMA AgedType ==
    ASSUME TypeOK, NEW r \in Roles, Aged(r),
           \/ player[r].timer < LoginTimeout
           \/ player[r].timer < SyncTimeout
           \/ player[r].timer < LogoutWaiting
    PROVE  player' \in [Roles -> PlayerRec]
  <1>1. player[r].timer + 1 \in Timers
    BY PlayerType, TimersNat DEF PlayerRec, Timers
  <1>2. [player[r] EXCEPT !.timer = player[r].timer + 1] \in PlayerRec
    BY <1>1, PlayerType DEF PlayerRec, Timers
  <1> QED
    BY <1>2, PutType DEF Aged

LEMMA TimerBelow == ASSUME TypeOK, NEW r \in Roles PROVE player[r].timer \in Nat
  BY PlayerType, TimersNat DEF PlayerRec, Timers

LEMMA FrameType ==
    ASSUME TypeOK, NEW r \in Roles, FrameStep(r) PROVE TypeOK'
  <1>1. CASE FrameWaitForConnect(r)
    <2>1. CASE DelPlayer(r, player[r].unsaved)
      BY <1>1, <2>1, DelPlayerType, UnsavedType DEF FrameWaitForConnect, TypeOK
    <2>2. CASE player[r].timer < LoginTimeout /\ Aged(r) /\ UNCHANGED <<lost, pages>>
      <3>1. player' \in [Roles -> PlayerRec]
        BY <2>2, AgedType
      <3> QED
        BY <1>1, <2>2, <3>1 DEF FrameWaitForConnect, TypeOK
    <2> QED
      BY <1>1, <2>1, <2>2, TimerBelow DEF FrameWaitForConnect
  <1>2. ASSUME NEW limit \in {LoginTimeout, SyncTimeout}, NEW states, FrameLogin(r, states, limit)
        PROVE  TypeOK'
    <2>1. CASE player[r].conn \in Conns /\ Detach(player[r].conn)
      BY <1>2, <2>1, DetachStepType DEF FrameLogin, Quiet
    <2>2. CASE player[r].timer < limit /\ Aged(r) /\ UNCHANGED <<link, lost, pages>>
      <3>1. player' \in [Roles -> PlayerRec]
        BY <2>2, AgedType
      <3> QED
        BY <1>2, <2>2, <3>1 DEF FrameLogin, TypeOK
    <2> QED
      BY <1>2, <2>1, <2>2, TimerBelow DEF FrameLogin
  <1>3. CASE FrameDeleting(r)
    <2>1. CASE DelPlayer(r, {})
      BY <1>3, <2>1, DelPlayerType DEF FrameDeleting, TypeOK
    <2>2. CASE player[r].timer < LogoutWaiting /\ Aged(r) /\ UNCHANGED <<lost, pages>>
      <3>1. player' \in [Roles -> PlayerRec]
        BY <2>2, AgedType
      <3> QED
        BY <1>3, <2>2, <3>1 DEF FrameDeleting, TypeOK
    <2> QED
      BY <1>3, <2>1, <2>2, TimerBelow DEF FrameDeleting
  <1> QED
    BY <1>1, <1>2, <1>3
    DEF FrameStep, FrameWaitForPermitOrRoleData, FrameWaitForSyncClientData

LEMMA PlayType ==
    ASSUME TypeOK, NEW r \in Roles,
           FramePlayingSave(r) \/ FramePlayingEndOfFee(r) \/ Play(r) \/ RealSwitchMap(r)
           \/ LuaKickout(r)
    PROVE  TypeOK'
  <1>1. CASE FramePlayingSave(r)
    <2>1. [player[r] EXCEPT !.unsaved = {}] \in PlayerRec
      BY PlayerType DEF PlayerRec
    <2>2. player' \in [Roles -> PlayerRec]
      BY <1>1, <2>1, PutType DEF FramePlayingSave
    <2> QED
      BY <1>1, <2>2 DEF FramePlayingSave, TypeOK
  <1>2. CASE FramePlayingEndOfFee(r) \/ LuaKickout(r)
    BY <1>2, DetachStepType DEF FramePlayingEndOfFee, LuaKickout, Quiet
  <1>3. CASE Play(r)
    <2>1. [player[r] EXCEPT !.fight = ~@] \in PlayerRec
      BY PlayerType DEF PlayerRec
    <2>2. ASSUME NEW x \in Parts PROVE [player[r] EXCEPT !.unsaved = @ \cup {x}] \in PlayerRec
      BY PlayerType DEF PlayerRec
    <2>3. player' \in [Roles -> PlayerRec]
      BY <1>3, <2>1, <2>2, PutType DEF Play
    <2> QED
      BY <1>3, <2>3 DEF Play, TypeOK
  <1>4. CASE RealSwitchMap(r)
    <2>1. [player[r] EXCEPT !.status = "gsSearchMap", !.place = player[r].scene,
                            !.scene = NoMap, !.unsaved = @ \ {"role"}] \in PlayerRec
      BY PlayerType, Statuses DEF PlayerRec
    <2>2. player' \in [Roles -> PlayerRec]
      BY <1>4, <2>1, PutType DEF RealSwitchMap
    <2>3. due' \in [Kinds -> [Roles -> Nat]]
      BY <1>4, OweType DEF RealSwitchMap, Kinds
    <2> QED
      BY <1>4, <2>2, <2>3 DEF RealSwitchMap, TypeOK
  <1> QED
    BY <1>1, <1>2, <1>3, <1>4

LEMMA ShutdownType ==
    ASSUME TypeOK, PrepareToQuit \/ QuitDetach \/ QuitStop \/ CenterLost PROVE TypeOK'
  <1>1. CASE PrepareToQuit \/ QuitStop \/ CenterLost
    BY <1>1 DEF PrepareToQuit, QuitStop, CenterLost, TypeOK
  <1>2. CASE QuitDetach
    <2>1. PICK c \in Conns : Detach(c)
      BY <1>2 DEF QuitDetach
    <2> QED
      BY <1>2, <2>1, DetachStepType DEF QuitDetach, Quiet
  <1> QED
    BY <1>1, <1>2

-----------------------------------------------------------------------------
(* Type correctness.                                                        *)

LEMMA TypeInit == Init => TypeOK
  <1> SUFFICES ASSUME Init PROVE TypeOK
    OBVIOUS
  <1>1. player \in [Roles -> PlayerRec] /\ link \in [Conns -> LinkRec]
    BY GoneType, ClosedType DEF Init
  <1>2. pages \in [Roles -> [Bounds -> Nat]]
    BY DEF Init, NoPages
  <1> QED
    BY <1>1, <1>2 DEF Init, TypeOK

LEMMA TypeStep == TypeOK /\ [Next]_vars => TypeOK'
  <1> SUFFICES ASSUME TypeOK, [Next]_vars PROVE TypeOK'
    OBVIOUS
  <1>1. CASE UNCHANGED vars
    BY <1>1 DEF vars, TypeOK
  <1>2. ASSUME NEW r \in Roles, RoleStep(r) PROVE TypeOK'
    BY <1>2, LoginRequestType, ExtPointType, GSExtPointType, TransferRequestType, ConfirmType,
       LoadRoleType, SearchMapType, SaveRespondType, TransferRespondType, FrameType, PlayType DEF RoleStep
  <1>3. ASSUME NEW c \in Conns, ConnStep(c) PROVE TypeOK'
    <2>1. CASE ProcessNewConnection(c) \/ ClientVanishes(c) \/ ConnectionLost(c) \/ PingTimeout(c)
      BY <2>1, ConnectionType DEF PingTimeout
    <2>2. CASE OnPlayerLogout(c)
      BY <2>2, DetachStepType DEF OnPlayerLogout, Quiet
    <2> QED
      BY <1>3, <2>1, <2>2, HandshakeType, EnterSceneType, SectionType, ReadyType DEF ConnStep
  <1> QED
    BY <1>1, <1>2, <1>3, MapsType, ShutdownType DEF Next

\* Every reachable state is well typed: no timer overruns its limit, no section
\* count or outstanding answer becomes negative, no scene or connection index
\* other than this server's is ever stored, whatever client and center do.
THEOREM TypeCorrect == Spec => []TypeOK
  BY TypeInit, TypeStep, PTL DEF Spec

-----------------------------------------------------------------------------
(* The connection table and the players.  Binding, Orphan and FreeList are  *)
(* not inductive: OnSyncNewExtPointRespond deletes a player without looking *)
(* at its connection, which is safe only because of Pending.                *)

Struct == Binding /\ Orphan /\ FreeList /\ Pending

Unattached == {"absent", "gsWaitForConnect", "gsDeleting"}

\* What the structure asks of the center: it answers no query of an ended login, it
\* leaves no other server's list of extension points unfinished, and it offers by
\* transfer no role whose client is attached here.
CalmCenter ==
    /\ ~LateExtPoints
    /\ GSListEnds \subseteq {TRUE}
    /\ TransferMeets \subseteq Unattached

\* A step leaves every connection open or closed, and bound, as it is.
SameLinks == \A c \in Conns :
    link'[c].open = link[c].open /\ link'[c].role = link[c].role /\ link'[c].sess = link[c].sess

LEMMA PutFacts ==
    ASSUME TypeOK, NEW r \in Roles, NEW p, Put(r, p)
    PROVE  player'[r] = p /\ \A q \in Roles \ {r} : player'[q] = player[q]
  BY DEF TypeOK, Put

\* A player that keeps its connection, or the lack of one, disturbs nothing.
LEMMA SameBinding ==
    ASSUME TypeOK, Struct, NEW r \in Roles, NEW p, Put(r, p), SameLinks,
           p.conn = player[r].conn,
           p.status \in Unattached <=> player[r].status \in Unattached,
           p.status = "absent" <=> player[r].status = "absent",
           player[r].status = "gsWaitForConnect" => p.status = "gsWaitForConnect",
           UNCHANGED <<free, sess, ticket, pages>>
    PROVE  Struct'
  <1>1. player'[r] = p /\ \A q \in Roles \ {r} : player'[q] = player[q]
    BY PutFacts
  <1>2. Binding'
    <2>1. ASSUME NEW c \in Conns, link'[c].role # NoRole
          PROVE  link'[c].open /\ Live(c)' /\ player'[link'[c].role].conn = c
      <3>1. link[c].open /\ Live(c) /\ player[link[c].role].conn = c
        BY <2>1 DEF Struct, Binding, SameLinks
      <3> QED
        BY <1>1, <3>1 DEF SameLinks, Live
    <2>2. ASSUME NEW q \in Roles, player'[q].conn # NoConn
          PROVE  link'[player'[q].conn].role = q
      <3>1. player'[q].conn = player[q].conn
        BY <1>1
      <3>2. player[q].conn \in Conns
        BY <2>2, <3>1, PlayerType DEF PlayerRec
      <3> QED
        BY <2>2, <3>1, <3>2 DEF Struct, Binding, SameLinks
    <2> QED
      BY <2>1, <2>2 DEF Binding
  <1>3. Orphan'
    BY <1>1 DEF Struct, Orphan, In, Unattached
  <1>4. FreeList'
    BY DEF Struct, FreeList, SameLinks
  <1>5. Pending'
    BY <1>1 DEF Struct, Pending, In
  <1> QED
    BY <1>2, <1>3, <1>4, <1>5 DEF Struct

LEMMA SamePlayers ==
    ASSUME TypeOK, Struct, SameLinks, UNCHANGED <<player, free, sess, ticket, pages>>
    PROVE  Struct'
  <1>1. \A r \in Roles : player[r].conn \in Conns \cup {NoConn}
    BY PlayerType DEF PlayerRec
  <1>2. Binding'
    BY <1>1 DEF Struct, Binding, Live, SameLinks
  <1>3. Orphan' /\ Pending'
    BY DEF Struct, Orphan, Pending, In
  <1>4. FreeList'
    BY DEF Struct, FreeList, SameLinks
  <1> QED
    BY <1>2, <1>3, <1>4 DEF Struct

\* What becomes of the player of a connection that is detached.
LEMMA ReleasedFacts ==
    ASSUME TypeOK, Struct, ~LateExtPoints, NEW c \in Conns, Released(c),
           NEW r, r = link[c].role, r # NoRole
    PROVE  /\ r \in Roles /\ player[r].conn = c
           /\ \A q \in Roles \ {r} : player'[q] = player[q] /\ pages'[q] = pages[q]
           /\ player'[r].conn = NoConn /\ player'[r].status \in {"absent", "gsDeleting"}
           /\ \A b \in Bounds : pages'[r][b] = 0
  <1>1. r \in Roles /\ link[c].open /\ Live(c) /\ player[r].conn = c
    BY LinkType DEF LinkRec, Struct, Binding
  <1>2. player[r].status \in DetachDeletes \cup {"gsPlaying"}
    <2>1. player[r].status \in Status \ Unattached
      BY <1>1, PlayerType DEF Struct, Orphan, In, PlayerRec, Unattached
    <2> QED
      BY <2>1 DEF Status, DetachDeletes, Unattached
  <1>3. \A b \in Bounds : pages[r][b] = 0
    <2>1. player[r].status # "gsWaitForConnect"
      BY <1>2 DEF DetachDeletes
    <2>2. \A b \in Bounds : pages[r][b] \in Nat
      BY <1>1 DEF TypeOK
    <2> QED
      BY <1>1, <2>1, <2>2 DEF Struct, Pending, In
  <1>4. player[r] \in PlayerRec
    BY <1>1, PlayerType
  <1>5. CASE /\ Put(r, [player[r] EXCEPT !.conn = NoConn, !.timer = 0, !.status = "gsDeleting"])
             /\ UNCHANGED <<lost, pages>>
    <2> DEFINE p == [player[r] EXCEPT !.conn = NoConn, !.timer = 0, !.status = "gsDeleting"]
    <2>1. p.conn = NoConn /\ p.status = "gsDeleting"
      BY <1>4 DEF PlayerRec
    <2>2. Put(r, p) /\ UNCHANGED pages
      BY <1>5
    <2> HIDE DEF p
    <2>3. player'[r] = p /\ \A q \in Roles \ {r} : player'[q] = player[q]
      BY <1>1, <2>2, PutFacts
    <2> QED
      BY <1>1, <1>3, <2>1, <2>2, <2>3
  <1>6. CASE DelPlayer(r, player[r].unsaved)
    <2>1. player'[r] = Gone /\ \A q \in Roles \ {r} : player'[q] = player[q]
      BY <1>1, <1>6, PutFacts DEF DelPlayer
    <2>2. pages' = [pages EXCEPT ![r] = NoPages]
      BY <1>6 DEF DelPlayer
    <2>3. \A b \in Bounds : pages'[r][b] = 0
      BY <1>1, <2>2 DEF TypeOK, NoPages
    <2>4. \A q \in Roles \ {r} : pages'[q] = pages[q]
      BY <2>2 DEF TypeOK
    <2> QED
      BY <1>1, <2>1, <2>3, <2>4 DEF Gone
  <1> QED
    BY <1>1, <1>2, <1>5, <1>6 DEF Released, In

\* A connection loses its player, which is deleted or about to be.
LEMMA LeaveStruct ==
    ASSUME TypeOK, Struct, NEW c \in Conns, NEW r \in Roles, r = link[c].role,
           player[r].conn = c,
           \A q \in Roles \ {r} : player'[q] = player[q] /\ pages'[q] = pages[q],
           player'[r].conn = NoConn, player'[r].status \in {"absent", "gsDeleting"},
           \A b \in Bounds : pages'[r][b] = 0,
           link'[c].role = NoRole, \A d \in Conns \ {c} : link'[d] = link[d],
           UNCHANGED <<sess, ticket>>
    PROVE  Binding' /\ Orphan' /\ Pending'
  <1>1. ASSUME NEW d \in Conns, link'[d].role # NoRole
        PROVE  link'[d].open /\ Live(d)' /\ player'[link'[d].role].conn = d
    <2>1. d # c /\ link'[d] = link[d]
      BY <1>1
    <2>2. link[d].open /\ Live(d) /\ player[link[d].role].conn = d
      BY <1>1, <2>1 DEF Struct, Binding
    <2>3. link[d].role \in Roles \ {r}
      BY <2>1, <2>2 DEF Live
    <2> QED
      BY <2>1, <2>2, <2>3 DEF Live
  <1>2. ASSUME NEW q \in Roles, player'[q].conn # NoConn
        PROVE  link'[player'[q].conn].role = q
    <2>1. q # r /\ player'[q] = player[q]
      BY <1>2
    <2>2. player[q].conn \in Conns
      BY <1>2, <2>1, PlayerType DEF PlayerRec
    <2>3. link[player[q].conn].role = q
      BY <1>2, <2>1 DEF Struct, Binding
    <2>4. player[q].conn # c
      BY <2>1, <2>3
    <2> QED
      BY <2>1, <2>2, <2>3, <2>4
  <1>3. Binding'
    BY <1>1, <1>2 DEF Binding
  <1>4. Orphan'
    BY DEF Struct, Orphan, In
  <1>5. ASSUME NEW q \in Roles
        PROVE  /\ ticket'[q] <= sess'[q]
               /\ \A b \in Bounds : pages'[q][b] > 0 =>
                     /\ pages'[q][b] = 1 /\ \A d \in Bounds \ {b} : pages'[q][d] = 0
                     /\ In(q, {"gsWaitForConnect"})' /\ ticket'[q] < sess'[q]
    <2>1. CASE q = r
      BY <2>1 DEF Struct, Pending
    <2>2. CASE q # r
      BY <2>2 DEF Struct, Pending, In
    <2> QED
      BY <2>1, <2>2
  <1> QED
    BY <1>3, <1>4, <1>5 DEF Pending

LEMMA ReleasedStruct ==
    ASSUME TypeOK, Struct, ~LateExtPoints, NEW c \in Conns, Released(c),
           link'[c].role = NoRole, \A d \in Conns \ {c} : link'[d] = link[d],
           UNCHANGED <<sess, ticket>>
    PROVE  Binding' /\ Orphan' /\ Pending'
  <1>1. CASE link[c].role = NoRole
    <2>1. UNCHANGED <<player, pages>>
      BY <1>1 DEF Released
    <2>2. \A r \in Roles : player[r].conn # c
      BY <1>1 DEF Struct, Binding
    <2>3. Binding'
      <3>1. \A r \in Roles : player[r].conn \in Conns \cup {NoConn}
        BY PlayerType DEF PlayerRec
      <3>2. \A d \in Conns : link'[d].role # NoRole => d # c
        OBVIOUS
      <3> QED
        BY <2>1, <2>2, <3>1, <3>2 DEF Struct, Binding, Live
    <2> QED
      BY <2>1, <2>3 DEF Struct, Orphan, Pending, In
  <1>2. CASE link[c].role # NoRole
    BY <1>2, ReleasedFacts, LeaveStruct
  <1> QED
    BY <1>1, <1>2

LEMMA DetachStruct ==
    ASSUME TypeOK, Struct, ~LateExtPoints, NEW c \in Conns, Detach(c),
           UNCHANGED <<free, sess, ticket>>
    PROVE  Struct'
  <1>1. /\ link'[c] = [link[c] EXCEPT !.role = NoRole, !.sess = 0]
        /\ \A d \in Conns \ {c} : link'[d] = link[d]
    BY DEF Detach, Unbind, TypeOK
  <1>2. link'[c].role = NoRole /\ link'[c].open = link[c].open
    BY <1>1, LinkType DEF LinkRec
  <1>3. FreeList'
    BY <1>1, <1>2 DEF Struct, FreeList
  <1> QED
    BY <1>1, <1>2, <1>3, ReleasedStruct DEF Detach, Struct

LEMMA ShutdownStruct ==
    ASSUME TypeOK, Struct, ~LateExtPoints, NEW c \in Conns, link[c].open,
           DetachAndShutdown(c), UNCHANGED <<sess, ticket>>
    PROVE  Struct'
  <1>1. link'[c] = Closed /\ \A d \in Conns \ {c} : link'[d] = link[d]
    BY DEF DetachAndShutdown, TypeOK
  <1>2. free[c] = 0 /\ free'[c] = free[c] + 1 /\ \A d \in Conns \ {c} : free'[d] = free[d]
    BY DEF DetachAndShutdown, TypeOK, Struct, FreeList
  <1>3. FreeList'
    BY <1>1, <1>2 DEF Struct, FreeList, Closed
  <1> QED
    BY <1>1, <1>3, ReleasedStruct DEF DetachAndShutdown, Struct, Closed

\* A player no connection points at appears, changes or goes.
LEMMA UnboundStruct ==
    ASSUME TypeOK, Struct, NEW r \in Roles, player[r].status \in Unattached,
           NEW p, Put(r, p), p.conn = NoConn, p.status \in Unattached, UNCHANGED <<link, free>>,
           \A q \in Roles \ {r} : sess'[q] = sess[q]
    PROVE  Binding' /\ Orphan' /\ FreeList'
  <1>1. player'[r] = p /\ \A q \in Roles \ {r} : player'[q] = player[q]
    BY PutFacts
  <1>2. player[r].conn = NoConn
    BY DEF Struct, Orphan, In, Unattached
  <1>3. \A c \in Conns : link[c].role # r
    BY <1>2 DEF Struct, Binding
  <1>4. Binding'
    <2>1. ASSUME NEW c \in Conns, link[c].role # NoRole
          PROVE  link'[c].open /\ Live(c)' /\ player'[link'[c].role].conn = c
      <3>1. link[c].open /\ Live(c) /\ player[link[c].role].conn = c /\ link[c].role # r
        BY <1>3, <2>1 DEF Struct, Binding
      <3> QED
        BY <1>1, <3>1 DEF Live
    <2>2. ASSUME NEW q \in Roles, player'[q].conn # NoConn
          PROVE  link'[player'[q].conn].role = q
      BY <1>1, <2>2 DEF Struct, Binding
    <2> QED
      BY <2>1, <2>2 DEF Binding
  <1>5. Orphan'
    BY <1>1 DEF Struct, Orphan, In, Unattached
  <1>6. FreeList'
    BY DEF Struct, FreeList
  <1> QED
    BY <1>4, <1>5, <1>6

LEMMA DelPlayerStruct ==
    ASSUME TypeOK, Struct, ~LateExtPoints, NEW r \in Roles, player[r].status \in Unattached,
           NEW dirty, DelPlayer(r, dirty), UNCHANGED <<link, free, sess, ticket>>
    PROVE  Struct'
  <1>1. Gone.conn = NoConn /\ Gone.status = "absent"
    BY DEF Gone
  <1>2. Binding' /\ Orphan' /\ FreeList'
    BY <1>1, UnboundStruct DEF DelPlayer, Unattached
  <1>3. /\ player'[r] = Gone /\ \A q \in Roles \ {r} : player'[q] = player[q]
        /\ \A b \in Bounds : pages'[r][b] = 0
        /\ \A q \in Roles \ {r} : pages'[q] = pages[q]
    <2>1. pages' = [pages EXCEPT ![r] = NoPages]
      BY DEF DelPlayer
    <2> QED
      BY <2>1, PutFacts DEF DelPlayer, TypeOK, NoPages
  <1>4. Pending'
    BY <1>3 DEF Struct, Pending, In
  <1> QED
    BY <1>2, <1>4 DEF Struct

LEMMA NewPlayerFacts ==
    ASSUME TypeOK, Struct, NEW r \in Roles, NEW m \in Maps, NewPlayer(r, m),
           player[r].status = "absent", UNCHANGED <<link, free>>
    PROVE  /\ Binding' /\ Orphan' /\ FreeList'
           /\ player'[r].status = "gsWaitForConnect"
           /\ sess'[r] = sess[r] + 1
           /\ \A q \in Roles \ {r} : player'[q] = player[q] /\ sess'[q] = sess[q]
           /\ \A b \in Bounds : pages[r][b] = 0
  <1> DEFINE p == [Gone EXCEPT !.status = "gsWaitForConnect", !.place = m]
  <1>1. p.conn = NoConn /\ p.status = "gsWaitForConnect" /\ Put(r, p)
    BY DEF NewPlayer, Gone
  <1> HIDE DEF p
  <1>2. sess'[r] = sess[r] + 1 /\ \A q \in Roles \ {r} : sess'[q] = sess[q]
    BY DEF NewPlayer, TypeOK
  <1>3. player[r].status \in Unattached /\ p.status \in Unattached
    BY <1>1 DEF Unattached
  <1>4. Binding' /\ Orphan' /\ FreeList'
    BY <1>1, <1>2, <1>3, UnboundStruct
  <1>5. \A b \in Bounds : pages[r][b] = 0
    BY DEF Struct, Pending, In, TypeOK
  <1> QED
    BY <1>1, <1>2, <1>4, <1>5, PutFacts

LEMMA LoginRequestStruct ==
    ASSUME TypeOK, Struct, NEW r \in Roles, OnPlayerLoginRequest(r) PROVE Struct'
  <1>1. PICK m \in Maps : NewPlayer(r, m)
    BY DEF OnPlayerLoginRequest
  <1>2. /\ Binding' /\ Orphan' /\ FreeList'
        /\ player'[r].status = "gsWaitForConnect"
        /\ sess'[r] = sess[r] + 1
        /\ \A q \in Roles \ {r} : player'[q] = player[q] /\ sess'[q] = sess[q]
        /\ \A b \in Bounds : pages[r][b] = 0
    BY <1>1, NewPlayerFacts DEF OnPlayerLoginRequest, In
  <1>3. 0 \in Bounds /\ pages[r] \in [Bounds -> Nat]
    BY DEF Bounds, TypeOK
  <1>4. /\ pages'[r][0] = 1 /\ \A b \in Bounds \ {0} : pages'[r][b] = 0
        /\ \A q \in Roles \ {r} : pages'[q] = pages[q]
    BY <1>2, <1>3 DEF OnPlayerLoginRequest, TypeOK
  <1>5. ticket' = ticket /\ ticket[r] <= sess[r] /\ ticket[r] \in Nat /\ sess[r] \in Nat
    BY DEF OnPlayerLoginRequest, Struct, Pending, TypeOK
  <1>6. Pending'
    <2>1. ASSUME NEW q \in Roles
          PROVE  /\ ticket'[q] <= sess'[q]
                 /\ \A b \in Bounds : pages'[q][b] > 0 =>
                       /\ pages'[q][b] = 1 /\ \A d \in Bounds \ {b} : pages'[q][d] = 0
                       /\ In(q, {"gsWaitForConnect"})' /\ ticket'[q] < sess'[q]
      <3>1. CASE q = r
        <4>1. ASSUME NEW b \in Bounds, pages'[r][b] > 0 PROVE b = 0
          BY <1>4, <4>1
        <4> QED
          BY <1>2, <1>4, <1>5, <3>1, <4>1 DEF In
      <3>2. CASE q # r
        BY <1>2, <1>4, <1>5, <3>2 DEF Struct, Pending, In
      <3> QED
        BY <3>1, <3>2
    <2> QED
      BY <2>1 DEF Pending
  <1> QED
    BY <1>2, <1>6 DEF Struct

LEMMA TransferRequestStruct ==
    ASSUME TypeOK, Struct, CalmCenter, NEW r \in Roles, OnTransferPlayerRequest(r)
    PROVE  Struct'
  <1>1. CASE /\ In(r, {"absent"})
             /\ \E m \in Maps : NewPlayer(r, m)
             /\ ticket' = [ticket EXCEPT ![r] = sess[r] + 1]
             /\ UNCHANGED pages
    <2>1. PICK m \in Maps : NewPlayer(r, m)
      BY <1>1
    <2>2. /\ Binding' /\ Orphan' /\ FreeList'
          /\ sess'[r] = sess[r] + 1
          /\ \A q \in Roles \ {r} : player'[q] = player[q] /\ sess'[q] = sess[q]
          /\ \A b \in Bounds : pages[r][b] = 0
      BY <1>1, <2>1, NewPlayerFacts DEF OnTransferPlayerRequest, In
    <2>3. /\ ticket'[r] = sess[r] + 1 /\ sess[r] \in Nat
          /\ \A q \in Roles \ {r} : ticket'[q] = ticket[q]
      BY <1>1 DEF TypeOK
    <2>4. Pending'
      BY <1>1, <2>2, <2>3 DEF Struct, Pending, In
    <2> QED
      BY <2>2, <2>4 DEF Struct
  <1>2. CASE /\ In(r, TransferMeets \ {"absent"})
             /\ DelPlayer(r, player[r].unsaved)
             /\ UNCHANGED <<sess, ticket>>
    <2>1. player[r].status \in Unattached /\ ~LateExtPoints
      BY <1>2 DEF CalmCenter, In
    <2> QED
      BY <1>2, <2>1, DelPlayerStruct DEF OnTransferPlayerRequest
  <1> QED
    BY <1>1, <1>2 DEF OnTransferPlayerRequest

\* The one page that is outstanding is answered.
LEMMA ExtPointStruct ==
    ASSUME TypeOK, Struct, ~LateExtPoints, NEW r \in Roles, NEW b \in Bounds,
           OnSyncNewExtPointRespond(r, b)
    PROVE  Struct'
  <1> DEFINE key == b + 1
             asked == [pages EXCEPT ![r][b] = @ - 1]
  <1>1. /\ pages[r] \in [Bounds -> Nat] /\ pages[r][b] = 1
        /\ \A d \in Bounds \ {b} : pages[r][d] = 0
        /\ player[r].status = "gsWaitForConnect" /\ ticket[r] < sess[r]
        /\ ticket[r] \in Nat /\ sess[r] \in Nat
    BY DEF OnSyncNewExtPointRespond, TypeOK, Struct, Pending, In
  <1>2. player[r].conn = NoConn /\ player[r].status \in Unattached
    BY <1>1 DEF Struct, Orphan, In, Unattached
  <1>3. /\ asked \in [Roles -> [Bounds -> Nat]]
        /\ \A d \in Bounds : asked[r][d] = 0
        /\ \A q \in Roles \ {r} : asked[q] = pages[q]
    <2>1. asked = [pages EXCEPT ![r] = [pages[r] EXCEPT ![b] = 0]]
      BY <1>1 DEF TypeOK
    <2> QED
      BY <1>1, <2>1 DEF TypeOK
  <1> HIDE DEF asked
  <1>4. UNCHANGED <<link, free, sess>>
    BY DEF OnSyncNewExtPointRespond
  <1>5. ASSUME NEW P, Put(r, [player[r] EXCEPT !.points = P])
        PROVE  /\ Binding' /\ Orphan' /\ FreeList'
               /\ player'[r].status = "gsWaitForConnect"
               /\ \A q \in Roles \ {r} : player'[q] = player[q]
    <2> DEFINE p == [player[r] EXCEPT !.points = P]
    <2>1. p.conn = NoConn /\ p.status = "gsWaitForConnect"
      BY <1>1, <1>2, PlayerType DEF PlayerRec
    <2> HIDE DEF p
    <2>2. Put(r, p)
      BY <1>5 DEF p
    <2>3. \A q \in Roles \ {r} : sess'[q] = sess[q]
      BY <1>4
    <2>4. p.status \in Unattached
      BY <2>1 DEF Unattached
    <2> QED
      BY <1>2, <1>4, <2>1, <2>2, <2>3, <2>4, UnboundStruct, PutFacts
  <1>6. CASE /\ ~(key >= NepKeys)
             /\ Put(r, [player[r] EXCEPT !.points = @ \cup {key}])
             /\ pages' = [asked EXCEPT ![r][key] = @ + 1]
             /\ UNCHANGED ticket
    <2>1. /\ Binding' /\ Orphan' /\ FreeList'
          /\ player'[r].status = "gsWaitForConnect"
          /\ \A q \in Roles \ {r} : player'[q] = player[q]
      BY <1>5, <1>6
    <2>2. key \in Bounds
      BY <1>6 DEF Bounds
    <2>3. /\ pages'[r][key] = 1 /\ \A d \in Bounds \ {key} : pages'[r][d] = 0
          /\ \A q \in Roles \ {r} : pages'[q] = pages[q]
      BY <1>3, <1>6, <2>2
    <2>4. Pending'
      <3>1. ASSUME NEW d \in Bounds, pages'[r][d] > 0 PROVE d = key
        BY <2>3, <3>1
      <3>2. ASSUME NEW q \in Roles
            PROVE  /\ ticket'[q] <= sess'[q]
                   /\ \A d \in Bounds : pages'[q][d] > 0 =>
                         /\ pages'[q][d] = 1 /\ \A e \in Bounds \ {d} : pages'[q][e] = 0
                         /\ In(q, {"gsWaitForConnect"})' /\ ticket'[q] < sess'[q]
        <4>1. CASE q = r
          BY <1>1, <1>4, <1>6, <2>1, <2>3, <3>1, <4>1 DEF In
        <4>2. CASE q # r
          BY <1>4, <1>6, <2>1, <2>3, <4>2 DEF Struct, Pending, In
        <4> QED
          BY <4>1, <4>2
      <3> QED
        BY <3>2 DEF Pending
    <2> QED
      BY <2>1, <2>4 DEF Struct
  <1>7. CASE /\ Put(r, [player[r] EXCEPT !.points = IF NepKeys = 0 THEN @ ELSE @ \cup {key}])
             /\ pages' = asked
             /\ ticket' = [ticket EXCEPT ![r] = sess[r]]
    <2>1. /\ Binding' /\ Orphan' /\ FreeList'
          /\ player'[r].status = "gsWaitForConnect"
          /\ \A q \in Roles \ {r} : player'[q] = player[q]
      BY <1>5, <1>7
    <2>2. ticket'[r] = sess[r] /\ \A q \in Roles \ {r} : ticket'[q] = ticket[q]
      BY <1>7 DEF TypeOK
    <2>3. Pending'
      BY <1>1, <1>3, <1>4, <1>7, <2>1, <2>2 DEF Struct, Pending, In
    <2> QED
      BY <2>1, <2>3 DEF Struct
  <1>8. CASE /\ Put(r, Gone)
             /\ pages' = [pages EXCEPT ![r] = NoPages]
             /\ UNCHANGED ticket
    <2>1. Gone.conn = NoConn /\ Gone.status = "absent" /\ Gone.status \in Unattached
      BY DEF Gone, Unattached
    <2>2. \A q \in Roles \ {r} : sess'[q] = sess[q]
      BY <1>4
    <2>3. Binding' /\ Orphan' /\ FreeList'
      BY <1>2, <1>4, <1>8, <2>1, <2>2, UnboundStruct
    <2>4. /\ \A q \in Roles \ {r} : player'[q] = player[q] /\ pages'[q] = pages[q]
          /\ \A d \in Bounds : pages'[r][d] = 0
      BY <1>8, PutFacts DEF TypeOK, NoPages
    <2>5. Pending'
      BY <1>1, <1>4, <1>8, <2>4 DEF Struct, Pending, In
    <2> QED
      BY <2>3, <2>5 DEF Struct
  <1>9. ~In(r, {"absent"})
    BY <1>1 DEF In
  <1> QED
    BY <1>6, <1>7, <1>8, <1>9 DEF OnSyncNewExtPointRespond, asked

\* A finished list of another server's points changes nothing but the points.
LEMMA GSExtPointStruct ==
    ASSUME TypeOK, Struct, CalmCenter, NEW r \in Roles, NEW key \in 1 .. NepKeys,
           OnSyncGSNewExtPoint(r, key)
    PROVE  Struct'
  <1> DEFINE p == [player[r] EXCEPT !.points = @ \cup {key}]
  <1>1. p.conn = player[r].conn /\ p.status = player[r].status
    BY PlayerType DEF PlayerRec
  <1> HIDE DEF p
  <1>2. Put(r, p)
    BY DEF OnSyncGSNewExtPoint, p
  <1>3. UNCHANGED <<link, free, sess, ticket, pages>>
    BY DEF OnSyncGSNewExtPoint, CalmCenter
  <1>4. SameLinks
    BY <1>3 DEF SameLinks
  <1> QED
    BY <1>1, <1>2, <1>3, <1>4, SameBinding

LEMMA HandshakeStruct ==
    ASSUME TypeOK, Struct, NEW c \in Conns, NEW r \in Roles, OnHandshakeRequest(c, r)
    PROVE  Struct'
  <1> DEFINE p == [player[r] EXCEPT !.conn = c, !.status = "gsWaitForPermit", !.timer = 0]
             l == [open |-> TRUE, role |-> r, sess |-> sess[r], client |-> "idle"]
  <1>1. /\ link[c].open /\ link[c].role = NoRole /\ player[r].status = "gsWaitForConnect"
        /\ ticket[r] = sess[r] /\ UNCHANGED <<free, sess, ticket, pages>>
    BY DEF OnHandshakeRequest, In
  <1>2. p.conn = c /\ p.status = "gsWaitForPermit"
    BY PlayerType DEF PlayerRec
  <1>3. player'[r] = p /\ \A q \in Roles \ {r} : player'[q] = player[q]
    BY PutFacts DEF OnHandshakeRequest
  <1> HIDE DEF p
  <1>4. link'[c] = l /\ \A d \in Conns \ {c} : link'[d] = link[d]
    BY DEF OnHandshakeRequest, TypeOK
  <1>5. \A b \in Bounds : pages[r][b] = 0
    <2>1. pages[r] \in [Bounds -> Nat] /\ sess[r] \in Nat
      BY DEF TypeOK
    <2> QED
      BY <1>1, <2>1 DEF Struct, Pending
  <1>6. player[r].conn = NoConn
    BY <1>1 DEF Struct, Orphan, In
  <1>7. Binding'
    <2>1. ASSUME NEW d \in Conns, link'[d].role # NoRole
          PROVE  link'[d].open /\ Live(d)' /\ player'[link'[d].role].conn = d
      <3>1. CASE d = c
        BY <1>1, <1>2, <1>3, <1>4, <3>1 DEF Live
      <3>2. CASE d # c
        <4>1. link[d].open /\ Live(d) /\ player[link[d].role].conn = d /\ link[d].role # r
          BY <1>4, <1>6, <2>1, <3>2 DEF Struct, Binding
        <4> QED
          BY <1>1, <1>3, <1>4, <3>2, <4>1 DEF Live
      <3> QED
        BY <3>1, <3>2
    <2>2. ASSUME NEW q \in Roles, player'[q].conn # NoConn
          PROVE  link'[player'[q].conn].role = q
      <3>1. CASE q = r
        BY <1>2, <1>3, <1>4, <3>1
      <3>2. CASE q # r
        <4>1. player[q].conn \in Conns /\ link[player[q].conn].role = q /\ player'[q] = player[q]
          BY <1>3, <2>2, <3>2, PlayerType DEF PlayerRec, Struct, Binding
        <4>2. player[q].conn # c
          BY <1>1, <4>1
        <4> QED
          BY <1>4, <4>1, <4>2
      <3> QED
        BY <3>1, <3>2
    <2> QED
      BY <2>1, <2>2 DEF Binding
  <1>8. Orphan'
    BY <1>2, <1>3 DEF Struct, Orphan, In
  <1>9. FreeList'
    BY <1>1, <1>4 DEF Struct, FreeList
  <1>10. Pending'
    BY <1>1, <1>3, <1>5 DEF Struct, Pending, In
  <1> QED
    BY <1>7, <1>8, <1>9, <1>10 DEF Struct

LEMMA ConnectionStruct ==
    ASSUME TypeOK, Struct, ~LateExtPoints, NEW c \in Conns,
           ProcessNewConnection(c) \/ ClientVanishes(c) \/ ConnectionLost(c)
    PROVE  Struct'
  <1>1. CASE ProcessNewConnection(c)
    <2> DEFINE l == [Closed EXCEPT !.open = TRUE]
    <2>1. l.open /\ l.role = NoRole
      BY DEF Closed
    <2>2. /\ link'[c] = l /\ \A d \in Conns \ {c} : link'[d] = link[d]
          /\ free'[c] = free[c] - 1 /\ \A d \in Conns \ {c} : free'[d] = free[d]
          /\ free[c] > 0 /\ UNCHANGED <<player, sess, ticket, pages>>
      BY <1>1 DEF ProcessNewConnection, TypeOK
    <2> HIDE DEF l
    <2>3. ~link[c].open /\ free[c] = 1
      BY <2>2 DEF Struct, FreeList
    <2>4. link[c].role = NoRole
      BY <2>3 DEF Struct, Binding
    <2>5. Binding'
      <3>1. ASSUME NEW d \in Conns, link'[d].role # NoRole
            PROVE  link'[d].open /\ Live(d)' /\ player'[link'[d].role].conn = d
        BY <2>1, <2>2, <3>1 DEF Struct, Binding, Live
      <3>2. ASSUME NEW q \in Roles, player'[q].conn # NoConn
            PROVE  link'[player'[q].conn].role = q
        <4>1. player[q].conn \in Conns /\ link[player[q].conn].role = q
          BY <2>2, <3>2, PlayerType DEF PlayerRec, Struct, Binding
        <4> QED
          BY <2>2, <2>4, <4>1
      <3> QED
        BY <3>1, <3>2 DEF Binding
    <2>6. Orphan' /\ Pending'
      BY <2>2 DEF Struct, Orphan, Pending, In
    <2>7. FreeList'
      BY <2>1, <2>2, <2>3 DEF Struct, FreeList
    <2> QED
      BY <2>5, <2>6, <2>7 DEF Struct
  <1>2. CASE ClientVanishes(c)
    <2>1. SameLinks
      BY <1>2, LinkType DEF ClientVanishes, TypeOK, SameLinks, LinkRec
    <2> QED
      BY <1>2, <2>1, SamePlayers DEF ClientVanishes
  <1>3. CASE ConnectionLost(c)
    BY <1>3, ShutdownStruct DEF ConnectionLost
  <1> QED
    BY <1>1, <1>2, <1>3

\* What the server asks a client changes no connection.
LEMMA AskingSame ==
    ASSUME TypeOK, NEW r \in Roles, NEW what, link' = link \/ link' = Asking(r, what)
    PROVE  SameLinks
  <1>1. CASE link' = link
    BY <1>1 DEF SameLinks
  <1>2. CASE player[r].conn \in Conns /\ link' = Ask(player[r].conn, what)
    BY <1>2, LinkType DEF TypeOK, SameLinks, Ask, LinkRec
  <1> QED
    BY <1>1, <1>2, PlayerType DEF Asking, PlayerRec

\* An attached player goes from one attached status to another.
LEMMA AttachedStruct ==
    ASSUME TypeOK, Struct, NEW r \in Roles, NEW p, Put(r, p), SameLinks,
           p.conn = player[r].conn, player[r].status \notin Unattached,
           p.status \notin Unattached, UNCHANGED <<free, sess, ticket, pages>>
    PROVE  Struct'
  BY SameBinding DEF Unattached

LEMMA ConfirmStruct ==
    ASSUME TypeOK, Struct, ~LateExtPoints, NEW r \in Roles, OnConfirmPlayerLoginRespond(r)
    PROVE  Struct'
  <1>1. CASE UNCHANGED <<player, link, lost, pages>>
    BY <1>1, AskingSame, SamePlayers DEF OnConfirmPlayerLoginRespond
  <1>2. CASE /\ In(r, {"gsWaitForPermit"})
             /\ Put(r, [player[r] EXCEPT !.status = "gsWaitForLoginLoading", !.timer = 0])
             /\ link' = Asking(r, "enter")
             /\ UNCHANGED <<lost, pages>>
    <2> DEFINE p == [player[r] EXCEPT !.status = "gsWaitForLoginLoading", !.timer = 0]
    <2>1. p.conn = player[r].conn /\ p.status = "gsWaitForLoginLoading"
      BY PlayerType DEF PlayerRec
    <2> HIDE DEF p
    <2>2. Put(r, p) /\ SameLinks
      BY <1>2, AskingSame DEF p
    <2> QED
      BY <1>2, <2>1, <2>2, AttachedStruct DEF OnConfirmPlayerLoginRespond, In, Unattached
  <1>3. CASE player[r].conn \in Conns /\ Detach(player[r].conn)
    BY <1>3, DetachStruct DEF OnConfirmPlayerLoginRespond
  <1> QED
    BY <1>1, <1>2, <1>3 DEF OnConfirmPlayerLoginRespond

LEMMA LoadRoleStruct ==
    ASSUME TypeOK, Struct, NEW r \in Roles, OnLoadRoleData(r) PROVE Struct'
  <1> DEFINE inScene == [player[r] EXCEPT !.scene = player[r].place]
             syncing == [inScene EXCEPT !.status = "gsWaitForSyncClientData"]
  <1>1. inScene \in PlayerRec
    BY PlayerType DEF PlayerRec
  <1>2. inScene.conn = player[r].conn /\ inScene.status = player[r].status
    BY PlayerType DEF PlayerRec
  <1> HIDE DEF inScene
  <1>3. syncing \in PlayerRec
    BY <1>1, Statuses DEF PlayerRec
  <1>4. syncing.conn = player[r].conn /\ syncing.status = "gsWaitForSyncClientData"
    BY <1>1, <1>2 DEF PlayerRec
  <1> HIDE DEF syncing
  <1>5. ASSUME NEW p, Put(r, p), NEW what, link' = link \/ link' = Asking(r, what),
               p.conn = player[r].conn, In(r, {"gsWaitForRoleData"}),
               p.status \in {"gsWaitForRoleData", "gsWaitForSyncClientData"}
        PROVE  Struct'
    BY <1>5, AskingSame, AttachedStruct DEF OnLoadRoleData, In, Unattached
  <1>6. CASE UNCHANGED <<player, link>>
    BY <1>6, AskingSame, SamePlayers DEF OnLoadRoleData
  <1>7. CASE In(r, {"gsWaitForRoleData"}) /\ Put(r, inScene) /\ UNCHANGED link
    BY <1>2, <1>5, <1>7 DEF In
  <1>8. CASE /\ In(r, {"gsWaitForRoleData"})
             /\ Put(r, [syncing EXCEPT !.left = 0, !.finished = TRUE])
             /\ link' = Asking(r, "ready")
    <2> DEFINE p == [syncing EXCEPT !.left = 0, !.finished = TRUE]
    <2>1. p.conn = player[r].conn /\ p.status = "gsWaitForSyncClientData"
      BY <1>3, <1>4 DEF PlayerRec
    <2> QED
      BY <1>5, <1>8, <2>1
  <1>9. ASSUME NEW k, In(r, {"gsWaitForRoleData"}), Put(r, [syncing EXCEPT !.left = k]),
               link' = link \/ link' = Asking(r, "section")
        PROVE  Struct'
    <2> DEFINE p == [syncing EXCEPT !.left = k]
    <2>1. p.conn = player[r].conn /\ p.status = "gsWaitForSyncClientData"
      BY <1>3, <1>4 DEF PlayerRec
    <2> QED
      BY <1>5, <1>9, <2>1
  <1>10. CASE /\ In(r, {"gsWaitForRoleData"})
              /\ \E n \in 1 .. MaxBlocks :
                   \/ Put(r, [syncing EXCEPT !.left = n - 1]) /\ link' = Asking(r, "section")
                   \/ Put(r, [syncing EXCEPT !.left = n]) /\ UNCHANGED link
    BY <1>9, <1>10
  <1> QED
    BY <1>6, <1>7, <1>8, <1>10 DEF OnLoadRoleData, syncing, inScene

LEMMA SearchMapStruct ==
    ASSUME TypeOK, Struct, NEW r \in Roles, OnSearchMapRespond(r) PROVE Struct'
  <1>1. ASSUME NEW p, Put(r, p), NEW what, link' = link \/ link' = Asking(r, what),
               p.conn = player[r].conn, In(r, {"gsSearchMap"}), p.status \notin Unattached
        PROVE  Struct'
    BY <1>1, AskingSame, AttachedStruct DEF OnSearchMapRespond, In, Unattached
  <1>2. CASE UNCHANGED <<player, link>>
    BY <1>2, AskingSame, SamePlayers DEF OnSearchMapRespond
  <1>3. ASSUME NEW added \in BOOLEAN, In(r, {"gsSearchMap"}), UNCHANGED link,
               Put(r, [player[r] EXCEPT !.scene = player[r].place,
                                        !.status = IF added THEN "gsPlaying" ELSE @])
        PROVE  Struct'
    <2> DEFINE p == [player[r] EXCEPT !.scene = player[r].place,
                                      !.status = IF added THEN "gsPlaying" ELSE @]
    <2>1. p.conn = player[r].conn /\ p.status \in {"gsPlaying", "gsSearchMap"}
      BY <1>3, PlayerType DEF PlayerRec, In
    <2> QED
      BY <1>1, <1>3, <2>1 DEF Unattached
  <1>4. ASSUME NEW m \in Maps, In(r, {"gsSearchMap"}), link' = Asking(r, "enter"),
               Put(r, [player[r] EXCEPT !.place = m, !.status = "gsWaitForNewMapLoading"])
        PROVE  Struct'
    <2> DEFINE p == [player[r] EXCEPT !.place = m, !.status = "gsWaitForNewMapLoading"]
    <2>1. p.conn = player[r].conn /\ p.status = "gsWaitForNewMapLoading"
      BY PlayerType DEF PlayerRec
    <2> QED
      BY <1>1, <1>4, <2>1 DEF Unattached
  <1>5. CASE /\ In(r, {"gsSearchMap"}) /\ UNCHANGED link
             /\ Put(r, [player[r] EXCEPT !.status = "gsWaitForTransmissionSave",
                                         !.place = NoMap, !.unsaved = {}])
    <2> DEFINE p == [player[r] EXCEPT !.status = "gsWaitForTransmissionSave",
                                      !.place = NoMap, !.unsaved = {}]
    <2>1. p.conn = player[r].conn /\ p.status = "gsWaitForTransmissionSave"
      BY PlayerType DEF PlayerRec
    <2> QED
      BY <1>1, <1>5, <2>1 DEF Unattached
  <1> QED
    BY <1>2, <1>3, <1>4, <1>5 DEF OnSearchMapRespond

LEMMA SaveRespondStruct ==
    ASSUME TypeOK, Struct, ~LateExtPoints, NEW r \in Roles, OnSaveRoleDataRespond(r)
    PROVE  Struct'
  <1>1. CASE UNCHANGED <<player, link, lost, pages>>
    BY <1>1, AskingSame, SamePlayers DEF OnSaveRoleDataRespond
  <1>2. CASE /\ In(r, {"gsWaitForTransmissionSave"})
             /\ Put(r, [player[r] EXCEPT !.status = "gsWaitForTransmissionGuid"])
             /\ UNCHANGED <<link, lost, pages>>
    <2> DEFINE p == [player[r] EXCEPT !.status = "gsWaitForTransmissionGuid"]
    <2>1. p.conn = player[r].conn /\ p.status = "gsWaitForTransmissionGuid"
      BY PlayerType DEF PlayerRec
    <2>2. SameLinks
      BY <1>2, AskingSame
    <2> HIDE DEF p
    <2>3. Put(r, p)
      BY <1>2 DEF p
    <2> QED
      BY <1>2, <2>1, <2>2, <2>3, AttachedStruct DEF OnSaveRoleDataRespond, In, Unattached
  <1>3. CASE player[r].conn \in Conns /\ Detach(player[r].conn)
    BY <1>3, DetachStruct DEF OnSaveRoleDataRespond
  <1> QED
    BY <1>1, <1>2, <1>3 DEF OnSaveRoleDataRespond

LEMMA TransferRespondStruct ==
    ASSUME TypeOK, Struct, ~LateExtPoints, NEW r \in Roles, OnTransferPlayerRespond(r)
    PROVE  Struct'
  <1>1. CASE player[r].conn \in Conns /\ Detach(player[r].conn)
    BY <1>1, DetachStruct DEF OnTransferPlayerRespond
  <1>2. CASE UNCHANGED <<player, link, lost, pages>>
    BY <1>2, AskingSame, SamePlayers DEF OnTransferPlayerRespond
  <1> QED
    BY <1>1, <1>2 DEF OnTransferPlayerRespond

\* A connection's own message changes the player it points at.
LEMMA BecomesStruct ==
    ASSUME TypeOK, Struct, NEW c \in Conns, Live(c), NEW p, NEW what, Becomes(c, p, what),
           p.conn = player[link[c].role].conn,
           player[link[c].role].status \notin Unattached,
           p.status \notin Unattached, UNCHANGED <<free, sess, ticket>>
    PROVE  Struct'
  <1>1. link[c].role \in Roles /\ Put(link[c].role, p)
    BY DEF Live, Becomes
  <1>2. SameLinks
    BY LinkType DEF Becomes, TypeOK, SameLinks, LinkRec
  <1> QED
    BY <1>1, <1>2, AttachedStruct DEF Becomes

LEMMA EnterSceneStruct ==
    ASSUME TypeOK, Struct, ~LateExtPoints, NEW c \in Conns, OnApplyEnterScene(c)
    PROVE  Struct'
  <1> DEFINE old == player[link[c].role]
  <1>1. Live(c) /\ old \in PlayerRec
    BY PlayerType DEF OnApplyEnterScene, Sends, Live
  <1>2. CASE /\ old.status = "gsWaitForLoginLoading"
             /\ Becomes(c, [old EXCEPT !.status = "gsWaitForRoleData", !.timer = 0], "idle")
    <2> DEFINE p == [old EXCEPT !.status = "gsWaitForRoleData", !.timer = 0]
    <2>1. p.conn = old.conn /\ p.status = "gsWaitForRoleData"
      BY <1>1 DEF PlayerRec
    <2> HIDE DEF p
    <2>2. Becomes(c, p, "idle")
      BY <1>2 DEF p
    <2> QED
      BY <1>1, <1>2, <2>1, <2>2, BecomesStruct DEF OnApplyEnterScene, Unattached
  <1>3. CASE /\ old.status = "gsWaitForNewMapLoading"
             /\ Becomes(c, [old EXCEPT !.status = "gsPlaying", !.scene = old.place], "idle")
    <2> DEFINE p == [old EXCEPT !.status = "gsPlaying", !.scene = old.place]
    <2>1. p.conn = old.conn /\ p.status = "gsPlaying"
      BY <1>1 DEF PlayerRec
    <2> HIDE DEF p
    <2>2. Becomes(c, p, "idle")
      BY <1>3 DEF p
    <2> QED
      BY <1>1, <1>3, <2>1, <2>2, BecomesStruct DEF OnApplyEnterScene, Unattached
  <1>4. CASE Detach(c)
    BY <1>4, DetachStruct DEF OnApplyEnterScene
  <1> QED
    BY <1>2, <1>3, <1>4 DEF OnApplyEnterScene

LEMMA SectionStruct ==
    ASSUME TypeOK, Struct, ~LateExtPoints, NEW c \in Conns, OnSyncRoleDataSectionCheckRespond(c)
    PROVE  Struct'
  <1> DEFINE old == player[link[c].role]
  <1>1. Live(c) /\ old \in PlayerRec
    BY PlayerType DEF OnSyncRoleDataSectionCheckRespond, Sends, Live
  <1>2. ASSUME NEW p, NEW what, Becomes(c, p, what), old.status = "gsWaitForSyncClientData",
               p.conn = old.conn, p.status = old.status
        PROVE  Struct'
    BY <1>1, <1>2, BecomesStruct DEF OnSyncRoleDataSectionCheckRespond, Unattached
  <1>3. CASE /\ old.status = "gsWaitForSyncClientData"
             /\ Becomes(c, [old EXCEPT !.left = @ - 1, !.timer = 0], "section")
    <2> DEFINE p == [old EXCEPT !.left = @ - 1, !.timer = 0]
    <2>1. p.conn = old.conn /\ p.status = old.status
      BY <1>1 DEF PlayerRec
    <2> QED
      BY <1>2, <1>3, <2>1
  <1>4. CASE /\ old.status = "gsWaitForSyncClientData"
             /\ Becomes(c, [old EXCEPT !.finished = TRUE, !.timer = 0], "ready")
    <2> DEFINE p == [old EXCEPT !.finished = TRUE, !.timer = 0]
    <2>1. p.conn = old.conn /\ p.status = old.status
      BY <1>1 DEF PlayerRec
    <2> QED
      BY <1>2, <1>4, <2>1
  <1>5. CASE Detach(c)
    BY <1>5, DetachStruct DEF OnSyncRoleDataSectionCheckRespond
  <1> QED
    BY <1>3, <1>4, <1>5 DEF OnSyncRoleDataSectionCheckRespond

LEMMA ReadyStruct ==
    ASSUME TypeOK, Struct, ~LateExtPoints, NEW c \in Conns, OnClientConfirmReady(c)
    PROVE  Struct'
  <1> DEFINE r == link[c].role
             old == player[r]
  <1>1. r \in Roles /\ Live(c) /\ old \in PlayerRec /\ link[c] \in LinkRec
    BY PlayerType, LinkType DEF OnClientConfirmReady, Sends, Live
  <1>2. old.conn = c /\ UNCHANGED <<free, sess, ticket>>
    BY <1>1 DEF Struct, Binding, OnClientConfirmReady
  <1>3. CASE /\ old.status = "gsWaitForSyncClientData"
             /\ Becomes(c, [old EXCEPT !.status = "gsPlaying"], "idle")
    <2> DEFINE p == [old EXCEPT !.status = "gsPlaying"]
    <2>1. p.conn = old.conn /\ p.status = "gsPlaying"
      BY <1>1 DEF PlayerRec
    <2> HIDE DEF p
    <2>2. Becomes(c, p, "idle")
      BY <1>3 DEF p
    <2> QED
      BY <1>1, <1>2, <1>3, <2>1, <2>2, BecomesStruct DEF Unattached
  <1>4. CASE /\ old.status = "gsWaitForSyncClientData"
             /\ Put(r, [old EXCEPT !.status = "gsDeleting", !.conn = NoConn, !.timer = 0])
             /\ Unbind(c)
             /\ UNCHANGED <<lost, pages>>
    <2> DEFINE p == [old EXCEPT !.status = "gsDeleting", !.conn = NoConn, !.timer = 0]
    <2>1. p.conn = NoConn /\ p.status = "gsDeleting"
      BY <1>1 DEF PlayerRec
    <2> HIDE DEF p
    <2>2. player'[r] = p /\ \A q \in Roles \ {r} : player'[q] = player[q]
      BY <1>1, <1>4, PutFacts DEF p
    <2>3. link'[c] = [link[c] EXCEPT !.role = NoRole, !.sess = 0]
      BY <1>4 DEF Unbind, TypeOK
    <2>4. /\ link'[c].role = NoRole /\ link'[c].open = link[c].open
          /\ \A d \in Conns \ {c} : link'[d] = link[d]
      BY <1>1, <1>4, <2>3 DEF Unbind, TypeOK, LinkRec
    <2>5. \A b \in Bounds : pages'[r][b] = 0
      <3>1. \A b \in Bounds : pages[r][b] \in Nat
        BY <1>1 DEF TypeOK
      <3> QED
        BY <1>1, <1>4, <3>1 DEF Struct, Pending, In
    <2>6. \A q \in Roles \ {r} : pages'[q] = pages[q]
      BY <1>4
    <2>7. Binding' /\ Orphan' /\ Pending'
      BY <1>1, <1>2, <2>1, <2>2, <2>4, <2>5, <2>6, LeaveStruct
    <2>8. FreeList'
      BY <1>2, <2>4 DEF Struct, FreeList
    <2> QED
      BY <2>7, <2>8 DEF Struct
  <1>5. CASE Detach(c)
    BY <1>2, <1>5, DetachStruct
  <1> QED
    BY <1>3, <1>4, <1>5 DEF OnClientConfirmReady

LEMMA FrameStruct ==
    ASSUME TypeOK, Struct, ~LateExtPoints, NEW r \in Roles, FrameStep(r) PROVE Struct'
  <1> DEFINE p == [player[r] EXCEPT !.timer = @ + 1]
  <1>1. p.conn = player[r].conn /\ p.status = player[r].status
    BY PlayerType DEF PlayerRec
  <1>2. ASSUME Aged(r), UNCHANGED <<link, free, sess, ticket, pages>> PROVE Struct'
    BY <1>1, <1>2, AskingSame, SameBinding DEF Aged
  <1>3. CASE FrameWaitForConnect(r)
    BY <1>2, <1>3, DelPlayerStruct DEF FrameWaitForConnect, In, Unattached
  <1>4. ASSUME NEW states, NEW limit, FrameLogin(r, states, limit) PROVE Struct'
    BY <1>2, <1>4, DetachStruct DEF FrameLogin
  <1>5. CASE FrameDeleting(r)
    BY <1>2, <1>5, DelPlayerStruct DEF FrameDeleting, In, Unattached
  <1> QED
    BY <1>3, <1>4, <1>5
    DEF FrameStep, FrameWaitForPermitOrRoleData, FrameWaitForSyncClientData

LEMMA PlayStruct ==
    ASSUME TypeOK, Struct, ~LateExtPoints, NEW r \in Roles,
           FramePlayingSave(r) \/ FramePlayingEndOfFee(r) \/ Play(r) \/ RealSwitchMap(r)
           \/ LuaKickout(r)
    PROVE  Struct'
  <1>1. player[r] \in PlayerRec
    BY PlayerType
  <1>2. ASSUME NEW p, Put(r, p), p.conn = player[r].conn, p.status = player[r].status,
               UNCHANGED <<link, free, sess, ticket, pages>>
        PROVE  Struct'
    BY <1>2, AskingSame, SameBinding
  <1>3. CASE FramePlayingSave(r)
    <2> DEFINE p == [player[r] EXCEPT !.unsaved = {}]
    <2>1. p.conn = player[r].conn /\ p.status = player[r].status
      BY <1>1 DEF PlayerRec
    <2> QED
      BY <1>2, <1>3, <2>1 DEF FramePlayingSave
  <1>4. CASE FramePlayingEndOfFee(r) \/ LuaKickout(r)
    BY <1>4, DetachStruct DEF FramePlayingEndOfFee, LuaKickout
  <1>5. CASE Play(r)
    <2>1. ASSUME Put(r, [player[r] EXCEPT !.fight = ~@]) PROVE Struct'
      <3> DEFINE p == [player[r] EXCEPT !.fight = ~@]
      <3>1. p.conn = player[r].conn /\ p.status = player[r].status
        BY <1>1 DEF PlayerRec
      <3> QED
        BY <1>2, <1>5, <2>1, <3>1 DEF Play
    <2>2. ASSUME NEW x, Put(r, [player[r] EXCEPT !.unsaved = @ \cup {x}]) PROVE Struct'
      <3> DEFINE p == [player[r] EXCEPT !.unsaved = @ \cup {x}]
      <3>1. p.conn = player[r].conn /\ p.status = player[r].status
        BY <1>1 DEF PlayerRec
      <3> QED
        BY <1>2, <1>5, <2>2, <3>1 DEF Play
    <2> QED
      BY <1>5, <2>1, <2>2 DEF Play
  <1>6. CASE RealSwitchMap(r)
    <2> DEFINE p == [player[r] EXCEPT !.status = "gsSearchMap", !.place = player[r].scene,
                                      !.scene = NoMap, !.unsaved = @ \ {"role"}]
    <2>1. p.conn = player[r].conn /\ p.status = "gsSearchMap"
      BY <1>1 DEF PlayerRec
    <2> HIDE DEF p
    <2>2. Put(r, p) /\ SameLinks
      BY <1>6, AskingSame DEF RealSwitchMap, p
    <2> QED
      BY <1>6, <2>1, <2>2, AttachedStruct DEF RealSwitchMap, In, Unattached
  <1> QED
    BY <1>3, <1>4, <1>5, <1>6

LEMMA ServerStruct ==
    ASSUME TypeOK, Struct, ~LateExtPoints,
           \/ PrepareToQuit \/ QuitDetach \/ QuitStop \/ CenterLost
           \/ \E m \in Maps : OnCreateMapNotify(m) \/ OnDeleteMapNotify(m)
    PROVE  Struct'
  <1>1. CASE QuitDetach
    <2>1. PICK c \in Conns : Detach(c)
      BY <1>1 DEF QuitDetach
    <2> QED
      BY <1>1, <2>1, DetachStruct DEF QuitDetach
  <1>2. CASE UNCHANGED <<player, link, free, sess, ticket, pages>>
    <2>1. SameLinks
      BY <1>2 DEF SameLinks
    <2> QED
      BY <1>2, <2>1, SamePlayers
  <1> QED
    BY <1>1, <1>2
    DEF PrepareToQuit, QuitStop, CenterLost, OnCreateMapNotify, OnDeleteMapNotify

-----------------------------------------------------------------------------

LEMMA StructInit == Init => Struct
  <1> SUFFICES ASSUME Init PROVE Struct
    OBVIOUS
  <1>1. /\ \A r \in Roles : player[r] = Gone /\ sess[r] = 0 /\ ticket[r] = 0
        /\ \A r \in Roles, b \in Bounds : pages[r][b] = 0
        /\ \A c \in Conns : link[c] = Closed /\ free[c] = 1
    BY DEF Init, NoPages
  <1>2. Binding /\ Orphan /\ FreeList
    BY <1>1 DEF Binding, Orphan, FreeList, In, Gone, Closed
  <1>3. Pending
    <2>1. 0 <= 0 /\ ~(0 > 0)
      OBVIOUS
    <2>2. \A r \in Roles : ticket[r] <= sess[r]
      BY <1>1, <2>1
    <2>3. \A r \in Roles, b \in Bounds : ~(pages[r][b] > 0)
      BY <1>1, <2>1
    <2> QED
      BY <2>2, <2>3 DEF Pending
  <1> QED
    BY <1>2, <1>3 DEF Struct

LEMMA StructStep == CalmCenter => (TypeOK /\ Struct /\ [Next]_vars => Struct')
  <1> SUFFICES ASSUME CalmCenter, TypeOK, Struct, [Next]_vars PROVE Struct'
    OBVIOUS
  <1> ~LateExtPoints
    BY DEF CalmCenter
  <1>1. CASE UNCHANGED vars
    <2>1. SameLinks /\ UNCHANGED <<player, free, sess, ticket, pages>>
      BY <1>1 DEF vars, SameLinks
    <2> QED
      BY <2>1, SamePlayers
  <1>2. ASSUME NEW r \in Roles, RoleStep(r) PROVE Struct'
    BY <1>2, LoginRequestStruct, TransferRequestStruct, ExtPointStruct, GSExtPointStruct,
       ConfirmStruct, LoadRoleStruct, SearchMapStruct, SaveRespondStruct, TransferRespondStruct, FrameStruct,
       PlayStruct DEF RoleStep
  <1>3. ASSUME NEW c \in Conns, ConnStep(c) PROVE Struct'
    <2>1. CASE ProcessNewConnection(c) \/ ClientVanishes(c) \/ ConnectionLost(c) \/ PingTimeout(c)
      BY <2>1, ConnectionStruct DEF PingTimeout
    <2>2. CASE OnPlayerLogout(c)
      BY <2>2, DetachStruct DEF OnPlayerLogout
    <2> QED
      BY <1>3, <2>1, <2>2, HandshakeStruct, EnterSceneStruct, SectionStruct, ReadyStruct
      DEF ConnStep
  <1> QED
    BY <1>1, <1>2, <1>3, ServerStruct DEF Next

\* With a calm center, whatever else client and center do: connections and players
\* point at each other, a player without connection is one a frame timer removes,
\* the free vector holds exactly the closed connections, and no client can use a
\* GUID while a page of extension points is outstanding.
THEOREM SessionStructure ==
    CalmCenter => (Spec => [](Binding /\ Orphan /\ FreeList /\ Pending))
  <1> SUFFICES ASSUME CalmCenter PROVE Spec => [](Binding /\ Orphan /\ FreeList /\ Pending)
    OBVIOUS
  <1>1. TypeOK /\ Struct /\ [Next]_vars => (TypeOK /\ Struct)'
    BY TypeStep, StructStep
  <1>2. Init => TypeOK /\ Struct
    BY TypeInit, StructInit
  <1>3. TypeOK /\ Struct => Binding /\ Orphan /\ FreeList /\ Pending
    BY DEF Struct
  <1> QED
    BY <1>1, <1>2, <1>3, PTL DEF Spec

\* With a calm center, whatever messages, orders and losses do to a player, one without a
\* connection is one that a frame timer removes, and no other.
THEOREM NobodyOrphaned == CalmCenter => (Spec => []Orphan)
  BY SessionStructure, PTL

\* With a calm center, however connections are detached, shut down and lost,
\* an index is on the free vector exactly when its connection is closed, and once.
THEOREM IndicesKept == CalmCenter => (Spec => []FreeList)
  BY SessionStructure, PTL

\* With a calm center, however often roles log in again and whichever finished lists
\* of other servers come in between, one page of extension points at most is
\* outstanding for each, and nobody is attached to the player it is for.
THEOREM OnePagePending == CalmCenter => (Spec => []Pending)
  BY SessionStructure, PTL

-----------------------------------------------------------------------------
(* SavedBeforeGone: what may be unsaved, and what is discarded.             *)

\* The blobs that may have changed since they were last saved, by status.
MayHold(s) ==
    IF s \in {"gsPlaying", "gsDeleting"} THEN Parts
    ELSE IF s \in {"gsSearchMap", "gsWaitForNewMapLoading"} THEN {"account"} ELSE {}

Clean == \A r \in Roles : player[r].unsaved \subseteq MayHold(player[r].status)

\* What DelPlayer may discard, by the status it finds.
MayLose(s) == IF s \in {"gsSearchMap", "gsWaitForNewMapLoading"} THEN {"account"} ELSE {}

\* The action SavedBeforeGone allows.
NoLoss == \A r \in Roles :
    (player[r].status # "absent" /\ player'[r].status = "absent")
        => lost'[r] \subseteq MayLose(player[r].status)

Saved == Clean' /\ NoLoss

-----------------------------------------------------------------------------
(* The ways a step changes a player.                                        *)

LEMMA SameSaved == ASSUME Clean, UNCHANGED player PROVE Saved
  BY DEF Saved, Clean, NoLoss

LEMMA PutSaved ==
    ASSUME TypeOK, Clean, NEW r \in Roles, NEW p, Put(r, p),
           p.unsaved \subseteq MayHold(p.status),
           p.status = "absent" => player[r].status = "absent"
    PROVE  Saved
  <1>1. player'[r] = p /\ \A q \in Roles \ {r} : player'[q] = player[q]
    BY PutFacts
  <1>2. Clean'
    BY <1>1 DEF Clean
  <1>3. NoLoss
    BY <1>1 DEF NoLoss
  <1> QED
    BY <1>2, <1>3 DEF Saved

\* Most handlers change neither status nor data.
LEMMA KeepSaved ==
    ASSUME TypeOK, Clean, NEW r \in Roles, NEW p, Put(r, p),
           p.unsaved = player[r].unsaved, p.status = player[r].status
    PROVE  Saved
  BY PutSaved DEF Clean

\* A player goes on to a status in which it may hold what it holds.
LEMMA MoveSaved ==
    ASSUME TypeOK, Clean, NEW r \in Roles, NEW p, Put(r, p),
           p.unsaved = player[r].unsaved, p.status # "absent",
           MayHold(player[r].status) \subseteq MayHold(p.status)
    PROVE  Saved
  <1>1. p.unsaved \subseteq MayHold(p.status)
    BY DEF Clean
  <1> QED
    BY <1>1, PutSaved

LEMMA LoseSaved ==
    ASSUME TypeOK, Clean, NEW r \in Roles, NEW dirty, Put(r, Gone),
           lost' = [lost EXCEPT ![r] = dirty], dirty \subseteq MayLose(player[r].status)
    PROVE  Saved
  <1>1. player'[r] = Gone /\ \A q \in Roles \ {r} : player'[q] = player[q]
    BY PutFacts
  <1>2. lost'[r] = dirty
    BY DEF TypeOK
  <1>3. Clean'
    BY <1>1 DEF Clean, Gone
  <1>4. NoLoss
    BY <1>1, <1>2 DEF NoLoss
  <1> QED
    BY <1>3, <1>4 DEF Saved

\* Deleting unsaved data is harmless except where a role plays or logs out.
LEMMA DelPlayerSaved ==
    ASSUME TypeOK, Clean, NEW r \in Roles, DelPlayer(r, player[r].unsaved),
           ~In(r, {"gsPlaying", "gsDeleting"})
    PROVE  Saved
  <1>1. player[r].unsaved \subseteq MayLose(player[r].status)
    BY DEF Clean, MayHold, MayLose, In
  <1> QED
    BY <1>1, LoseSaved DEF DelPlayer

LEMMA ReleasedSaved ==
    ASSUME TypeOK, Clean, NEW c \in Conns, Released(c) PROVE Saved
  <1> DEFINE r == link[c].role
  <1>1. ASSUME r \in Roles PROVE player[r] \in PlayerRec
    BY <1>1, PlayerType
  <1>2. CASE UNCHANGED player
    BY <1>2, SameSaved
  <1>3. CASE /\ r \in Roles
             /\ Put(r, [player[r] EXCEPT !.conn = NoConn, !.timer = 0, !.status = "gsDeleting"])
    <2> DEFINE p == [player[r] EXCEPT !.conn = NoConn, !.timer = 0, !.status = "gsDeleting"]
    <2>1. p.status = "gsDeleting" /\ p.unsaved \subseteq Parts
      BY <1>1, <1>3 DEF PlayerRec
    <2> HIDE DEF p
    <2>2. p.unsaved \subseteq MayHold(p.status)
      BY <2>1 DEF MayHold
    <2>3. Put(r, p)
      BY <1>3 DEF p
    <2> QED
      BY <1>3, <2>1, <2>2, <2>3, PutSaved
  <1>4. CASE r \in Roles /\ In(r, DetachDeletes) /\ DelPlayer(r, player[r].unsaved)
    BY <1>4, DelPlayerSaved DEF In, DetachDeletes
  <1>5. CASE r \in Roles /\ Put(r, [player[r] EXCEPT !.conn = NoConn])
    <2> DEFINE p == [player[r] EXCEPT !.conn = NoConn]
    <2>1. p.unsaved = player[r].unsaved /\ p.status = player[r].status
      BY <1>1, <1>5 DEF PlayerRec
    <2> HIDE DEF p
    <2>2. Put(r, p)
      BY <1>5 DEF p
    <2> QED
      BY <1>5, <2>1, <2>2, KeepSaved
  <1> QED
    BY <1>2, <1>3, <1>4, <1>5 DEF Released

LEMMA DetachSaved == ASSUME TypeOK, Clean, NEW c \in Conns, Detach(c) PROVE Saved
  BY ReleasedSaved DEF Detach

-----------------------------------------------------------------------------
(* The handlers.                                                            *)

LEMMA NewPlayerSaved ==
    ASSUME TypeOK, Clean, NEW r \in Roles, NEW m \in Maps, NewPlayer(r, m) PROVE Saved
  <1> DEFINE p == [Gone EXCEPT !.status = "gsWaitForConnect", !.place = m]
  <1>1. p.status = "gsWaitForConnect" /\ p.unsaved = {}
    BY DEF Gone
  <1> HIDE DEF p
  <1>2. Put(r, p)
    BY DEF NewPlayer, p
  <1> QED
    BY <1>1, <1>2, PutSaved

LEMMA RequestSaved ==
    ASSUME TypeOK, Clean, TransferMeets \cap {"gsPlaying", "gsDeleting"} = {},
           NEW r \in Roles, OnPlayerLoginRequest(r) \/ OnTransferPlayerRequest(r)
    PROVE  Saved
  <1>1. CASE \E m \in Maps : NewPlayer(r, m)
    BY <1>1, NewPlayerSaved
  <1>2. CASE In(r, TransferMeets) /\ DelPlayer(r, player[r].unsaved)
    BY <1>2, DelPlayerSaved DEF In
  <1> QED
    BY <1>1, <1>2 DEF OnPlayerLoginRequest, OnTransferPlayerRequest, In

LEMMA GSExtPointSaved ==
    ASSUME TypeOK, Clean, NEW r \in Roles, NEW key, OnSyncGSNewExtPoint(r, key) PROVE Saved
  <1> DEFINE p == [player[r] EXCEPT !.points = @ \cup {key}]
  <1>1. p.unsaved = player[r].unsaved /\ p.status = player[r].status
    BY PlayerType DEF PlayerRec
  <1> HIDE DEF p
  <1>2. Put(r, p)
    BY DEF OnSyncGSNewExtPoint, p
  <1> QED
    BY <1>1, <1>2, KeepSaved

\* Pending says that the player a page's handler deletes is still waiting for its
\* client; without it the handler could delete one that plays.
LEMMA ExtPointSaved ==
    ASSUME TypeOK, Clean, Pending, NEW r \in Roles, NEW b \in Bounds,
           OnSyncNewExtPointRespond(r, b)
    PROVE  Saved
  <1>1. player[r] \in PlayerRec
    BY PlayerType
  <1>2. ASSUME NEW points, Put(r, [player[r] EXCEPT !.points = points]) PROVE Saved
    <2> DEFINE p == [player[r] EXCEPT !.points = points]
    <2>1. p.unsaved = player[r].unsaved /\ p.status = player[r].status
      BY <1>1 DEF PlayerRec
    <2> HIDE DEF p
    <2>2. Put(r, p)
      BY <1>2 DEF p
    <2> QED
      BY <2>1, <2>2, KeepSaved
  <1>3. CASE UNCHANGED player
    BY <1>3, SameSaved
  <1>4. CASE Put(r, [player[r] EXCEPT !.points = @ \cup {b + 1}])
    BY <1>2, <1>4
  <1>5. CASE Put(r, [player[r] EXCEPT !.points = IF NepKeys = 0 THEN @ ELSE @ \cup {b + 1}])
    BY <1>2, <1>5
  <1>6. CASE Put(r, Gone) /\ lost' = [lost EXCEPT ![r] = player[r].unsaved]
    <2>1. player[r].status = "gsWaitForConnect"
      BY DEF OnSyncNewExtPointRespond, Pending, In
    <2>2. player[r].unsaved \subseteq MayLose(player[r].status)
      BY <2>1 DEF Clean, MayHold, MayLose
    <2> QED
      BY <1>6, <2>2, LoseSaved
  <1> QED
    BY <1>3, <1>4, <1>5, <1>6 DEF OnSyncNewExtPointRespond

LEMMA ConfirmSaved ==
    ASSUME TypeOK, Clean, NEW r \in Roles, OnConfirmPlayerLoginRespond(r) PROVE Saved
  <1>1. CASE UNCHANGED player
    BY <1>1, SameSaved
  <1>2. CASE /\ In(r, {"gsWaitForPermit"})
             /\ Put(r, [player[r] EXCEPT !.status = "gsWaitForLoginLoading", !.timer = 0])
    <2> DEFINE p == [player[r] EXCEPT !.status = "gsWaitForLoginLoading", !.timer = 0]
    <2>1. p.unsaved = player[r].unsaved /\ p.status = "gsWaitForLoginLoading"
      BY PlayerType DEF PlayerRec
    <2> HIDE DEF p
    <2>2. Put(r, p) /\ MayHold(player[r].status) \subseteq MayHold(p.status)
      BY <1>2, <2>1 DEF p, In, MayHold
    <2> QED
      BY <2>1, <2>2, MoveSaved
  <1>3. CASE player[r].conn \in Conns /\ Detach(player[r].conn)
    BY <1>3, DetachSaved
  <1> QED
    BY <1>1, <1>2, <1>3 DEF OnConfirmPlayerLoginRespond

LEMMA LoadRoleSaved ==
    ASSUME TypeOK, Clean, NEW r \in Roles, OnLoadRoleData(r) PROVE Saved
  <1> DEFINE inScene == [player[r] EXCEPT !.scene = player[r].place]
             syncing == [inScene EXCEPT !.status = "gsWaitForSyncClientData"]
  <1>1. inScene \in PlayerRec
    BY PlayerType DEF PlayerRec
  <1>2. inScene.unsaved = player[r].unsaved /\ inScene.status = player[r].status
    BY PlayerType DEF PlayerRec
  <1> HIDE DEF inScene
  <1>3. syncing \in PlayerRec
    BY <1>1 DEF PlayerRec, Status, DetachDeletes
  <1>4. syncing.unsaved = player[r].unsaved /\ syncing.status = "gsWaitForSyncClientData"
    BY <1>1, <1>2 DEF PlayerRec
  <1> HIDE DEF syncing
  <1>5. ASSUME NEW p, Put(r, p), In(r, {"gsWaitForRoleData"}), p.unsaved = player[r].unsaved,
               p.status = "gsWaitForSyncClientData"
        PROVE  Saved
    <2>1. MayHold(player[r].status) \subseteq MayHold(p.status)
      BY <1>5 DEF In, MayHold
    <2> QED
      BY <1>5, <2>1, MoveSaved
  <1>6. CASE UNCHANGED player
    BY <1>6, SameSaved
  <1>7. CASE Put(r, inScene)
    BY <1>2, <1>7, KeepSaved
  <1>8. CASE /\ In(r, {"gsWaitForRoleData"})
             /\ Put(r, [syncing EXCEPT !.left = 0, !.finished = TRUE])
    <2> DEFINE p == [syncing EXCEPT !.left = 0, !.finished = TRUE]
    <2>1. p.unsaved = player[r].unsaved /\ p.status = "gsWaitForSyncClientData"
      BY <1>3, <1>4 DEF PlayerRec
    <2> QED
      BY <1>5, <1>8, <2>1
  <1>9. ASSUME NEW k, In(r, {"gsWaitForRoleData"}), Put(r, [syncing EXCEPT !.left = k])
        PROVE  Saved
    <2> DEFINE p == [syncing EXCEPT !.left = k]
    <2>1. p.unsaved = player[r].unsaved /\ p.status = "gsWaitForSyncClientData"
      BY <1>3, <1>4 DEF PlayerRec
    <2> QED
      BY <1>5, <1>9, <2>1
  <1>10. CASE /\ In(r, {"gsWaitForRoleData"})
              /\ \E n \in 1 .. MaxBlocks :
                   \/ Put(r, [syncing EXCEPT !.left = n - 1])
                   \/ Put(r, [syncing EXCEPT !.left = n])
    BY <1>9, <1>10
  <1> QED
    BY <1>6, <1>7, <1>8, <1>10 DEF OnLoadRoleData, syncing, inScene

LEMMA SearchMapSaved ==
    ASSUME TypeOK, Clean, NEW r \in Roles, OnSearchMapRespond(r) PROVE Saved
  <1>1. ASSUME NEW p, Put(r, p), In(r, {"gsSearchMap"}), p.unsaved = player[r].unsaved,
               p.status \in {"gsSearchMap", "gsPlaying", "gsWaitForNewMapLoading"}
        PROVE  Saved
    <2>1. MayHold(player[r].status) \subseteq MayHold(p.status)
      BY <1>1 DEF In, MayHold, Parts
    <2> QED
      BY <1>1, <2>1, MoveSaved
  <1>2. CASE UNCHANGED player
    BY <1>2, SameSaved
  <1>3. ASSUME NEW added \in BOOLEAN, In(r, {"gsSearchMap"}),
               Put(r, [player[r] EXCEPT !.scene = player[r].place,
                                        !.status = IF added THEN "gsPlaying" ELSE @])
        PROVE  Saved
    <2> DEFINE p == [player[r] EXCEPT !.scene = player[r].place,
                                      !.status = IF added THEN "gsPlaying" ELSE @]
    <2>1. p.unsaved = player[r].unsaved /\ p.status \in {"gsPlaying", "gsSearchMap"}
      BY <1>3, PlayerType DEF PlayerRec, In
    <2> QED
      BY <1>1, <1>3, <2>1
  <1>4. ASSUME NEW m \in Maps, In(r, {"gsSearchMap"}),
               Put(r, [player[r] EXCEPT !.place = m, !.status = "gsWaitForNewMapLoading"])
        PROVE  Saved
    <2> DEFINE p == [player[r] EXCEPT !.place = m, !.status = "gsWaitForNewMapLoading"]
    <2>1. p.unsaved = player[r].unsaved /\ p.status = "gsWaitForNewMapLoading"
      BY PlayerType DEF PlayerRec
    <2> QED
      BY <1>1, <1>4, <2>1
  <1>5. CASE Put(r, [player[r] EXCEPT !.status = "gsWaitForTransmissionSave",
                                      !.place = NoMap, !.unsaved = {}])
    <2> DEFINE p == [player[r] EXCEPT !.status = "gsWaitForTransmissionSave",
                                      !.place = NoMap, !.unsaved = {}]
    <2>1. p.unsaved = {} /\ p.status = "gsWaitForTransmissionSave"
      BY PlayerType DEF PlayerRec
    <2> QED
      BY <1>5, <2>1, PutSaved
  <1> QED
    BY <1>2, <1>3, <1>4, <1>5 DEF OnSearchMapRespond

LEMMA SaveRespondSaved ==
    ASSUME TypeOK, Clean, NEW r \in Roles, OnSaveRoleDataRespond(r) PROVE Saved
  <1>1. CASE UNCHANGED player
    BY <1>1, SameSaved
  <1>2. CASE /\ In(r, {"gsWaitForTransmissionSave"})
             /\ Put(r, [player[r] EXCEPT !.status = "gsWaitForTransmissionGuid"])
    <2> DEFINE p == [player[r] EXCEPT !.status = "gsWaitForTransmissionGuid"]
    <2>1. p.unsaved = player[r].unsaved /\ p.status = "gsWaitForTransmissionGuid"
      BY PlayerType DEF PlayerRec
    <2> HIDE DEF p
    <2>2. Put(r, p) /\ MayHold(player[r].status) \subseteq MayHold(p.status)
      BY <1>2, <2>1 DEF p, In, MayHold
    <2> QED
      BY <2>1, <2>2, MoveSaved
  <1>3. CASE player[r].conn \in Conns /\ Detach(player[r].conn)
    BY <1>3, DetachSaved
  <1> QED
    BY <1>1, <1>2, <1>3 DEF OnSaveRoleDataRespond

LEMMA TransferRespondSaved ==
    ASSUME TypeOK, Clean, NEW r \in Roles, OnTransferPlayerRespond(r) PROVE Saved
  BY DetachSaved, SameSaved DEF OnTransferPlayerRespond

LEMMA ConnectionSaved ==
    ASSUME TypeOK, Clean, NEW c \in Conns,
           ProcessNewConnection(c) \/ ClientVanishes(c) \/ ConnectionLost(c)
    PROVE  Saved
  BY SameSaved, ReleasedSaved
  DEF ProcessNewConnection, ClientVanishes, ConnectionLost, DetachAndShutdown

LEMMA HandshakeSaved ==
    ASSUME TypeOK, Clean, NEW c \in Conns, NEW r \in Roles, OnHandshakeRequest(c, r)
    PROVE  Saved
  <1> DEFINE p == [player[r] EXCEPT !.conn = c, !.status = "gsWaitForPermit", !.timer = 0]
  <1>1. p.unsaved = player[r].unsaved /\ p.status = "gsWaitForPermit"
    BY PlayerType DEF PlayerRec
  <1> HIDE DEF p
  <1>2. Put(r, p) /\ MayHold(player[r].status) \subseteq MayHold(p.status)
    BY <1>1 DEF OnHandshakeRequest, p, In, MayHold
  <1> QED
    BY <1>1, <1>2, MoveSaved

LEMMA EnterSceneSaved ==
    ASSUME TypeOK, Clean, NEW c \in Conns, OnApplyEnterScene(c) PROVE Saved
  <1> DEFINE r == link[c].role
             old == player[r]
  <1>1. r \in Roles /\ old \in PlayerRec
    BY PlayerType DEF OnApplyEnterScene, Sends, Live
  <1>2. CASE /\ old.status = "gsWaitForLoginLoading"
             /\ Put(r, [old EXCEPT !.status = "gsWaitForRoleData", !.timer = 0])
    <2> DEFINE p == [old EXCEPT !.status = "gsWaitForRoleData", !.timer = 0]
    <2>1. p.unsaved = old.unsaved /\ p.status = "gsWaitForRoleData"
      BY <1>1 DEF PlayerRec
    <2> HIDE DEF p
    <2>2. Put(r, p) /\ MayHold(old.status) \subseteq MayHold(p.status)
      BY <1>2, <2>1 DEF p, MayHold
    <2> QED
      BY <1>1, <2>1, <2>2, MoveSaved
  <1>3. CASE /\ old.status = "gsWaitForNewMapLoading"
             /\ Put(r, [old EXCEPT !.status = "gsPlaying", !.scene = old.place])
    <2> DEFINE p == [old EXCEPT !.status = "gsPlaying", !.scene = old.place]
    <2>1. p.unsaved = old.unsaved /\ p.status = "gsPlaying"
      BY <1>1 DEF PlayerRec
    <2> HIDE DEF p
    <2>2. Put(r, p) /\ MayHold(old.status) \subseteq MayHold(p.status)
      BY <1>3, <2>1 DEF p, MayHold, Parts
    <2> QED
      BY <1>1, <2>1, <2>2, MoveSaved
  <1> QED
    BY <1>2, <1>3, DetachSaved DEF OnApplyEnterScene, Becomes

LEMMA SectionSaved ==
    ASSUME TypeOK, Clean, NEW c \in Conns, OnSyncRoleDataSectionCheckRespond(c) PROVE Saved
  <1> DEFINE r == link[c].role
             old == player[r]
  <1>1. r \in Roles /\ old \in PlayerRec
    BY PlayerType DEF OnSyncRoleDataSectionCheckRespond, Sends, Live
  <1>2. CASE Put(r, [old EXCEPT !.left = @ - 1, !.timer = 0])
    <2> DEFINE p == [old EXCEPT !.left = @ - 1, !.timer = 0]
    <2>1. p.unsaved = old.unsaved /\ p.status = old.status
      BY <1>1 DEF PlayerRec
    <2> HIDE DEF p
    <2>2. Put(r, p)
      BY <1>2 DEF p
    <2> QED
      BY <1>1, <2>1, <2>2, KeepSaved
  <1>3. CASE Put(r, [old EXCEPT !.finished = TRUE, !.timer = 0])
    <2> DEFINE p == [old EXCEPT !.finished = TRUE, !.timer = 0]
    <2>1. p.unsaved = old.unsaved /\ p.status = old.status
      BY <1>1 DEF PlayerRec
    <2> HIDE DEF p
    <2>2. Put(r, p)
      BY <1>3 DEF p
    <2> QED
      BY <1>1, <2>1, <2>2, KeepSaved
  <1> QED
    BY <1>2, <1>3, DetachSaved DEF OnSyncRoleDataSectionCheckRespond, Becomes

LEMMA ReadySaved ==
    ASSUME TypeOK, Clean, NEW c \in Conns, OnClientConfirmReady(c) PROVE Saved
  <1> DEFINE r == link[c].role
             old == player[r]
  <1>1. r \in Roles /\ old \in PlayerRec
    BY PlayerType DEF OnClientConfirmReady, Sends, Live
  <1>2. ASSUME NEW p, Put(r, p), old.status = "gsWaitForSyncClientData",
               p.unsaved = old.unsaved, p.status \in {"gsPlaying", "gsDeleting"}
        PROVE  Saved
    <2>1. MayHold(old.status) \subseteq MayHold(p.status)
      BY <1>2 DEF MayHold, Parts
    <2> QED
      BY <1>1, <1>2, <2>1, MoveSaved
  <1>3. CASE /\ old.status = "gsWaitForSyncClientData"
             /\ Put(r, [old EXCEPT !.status = "gsPlaying"])
    <2> DEFINE p == [old EXCEPT !.status = "gsPlaying"]
    <2>1. p.unsaved = old.unsaved /\ p.status = "gsPlaying"
      BY <1>1 DEF PlayerRec
    <2> QED
      BY <1>2, <1>3, <2>1
  <1>4. CASE /\ old.status = "gsWaitForSyncClientData"
             /\ Put(r, [old EXCEPT !.status = "gsDeleting", !.conn = NoConn, !.timer = 0])
    <2> DEFINE p == [old EXCEPT !.status = "gsDeleting", !.conn = NoConn, !.timer = 0]
    <2>1. p.unsaved = old.unsaved /\ p.status = "gsDeleting"
      BY <1>1 DEF PlayerRec
    <2> QED
      BY <1>2, <1>4, <2>1
  <1> QED
    BY <1>3, <1>4, DetachSaved DEF OnClientConfirmReady, Becomes

LEMMA FrameSaved ==
    ASSUME TypeOK, Clean, NEW r \in Roles, FrameStep(r) PROVE Saved
  <1>1. CASE Aged(r)
    <2> DEFINE p == [player[r] EXCEPT !.timer = @ + 1]
    <2>1. p.unsaved = player[r].unsaved /\ p.status = player[r].status
      BY PlayerType DEF PlayerRec
    <2> HIDE DEF p
    <2>2. Put(r, p)
      BY <1>1 DEF Aged, p
    <2> QED
      BY <2>1, <2>2, KeepSaved
  <1>2. CASE FrameWaitForConnect(r)
    BY <1>1, <1>2, DelPlayerSaved DEF FrameWaitForConnect, In
  <1>3. ASSUME NEW states, NEW limit, FrameLogin(r, states, limit) PROVE Saved
    BY <1>1, <1>3, DetachSaved DEF FrameLogin
  <1>4. CASE FrameDeleting(r)
    BY <1>1, <1>4, LoseSaved DEF FrameDeleting, DelPlayer
  <1> QED
    BY <1>2, <1>3, <1>4 DEF FrameStep, FrameWaitForPermitOrRoleData, FrameWaitForSyncClientData

LEMMA PlaySaved ==
    ASSUME TypeOK, Clean, NEW r \in Roles,
           FramePlayingSave(r) \/ FramePlayingEndOfFee(r) \/ Play(r) \/ RealSwitchMap(r)
           \/ LuaKickout(r)
    PROVE  Saved
  <1>1. player[r] \in PlayerRec
    BY PlayerType
  <1>2. CASE FramePlayingSave(r)
    <2> DEFINE p == [player[r] EXCEPT !.unsaved = {}]
    <2>1. p.unsaved = {} /\ p.status = player[r].status
      BY <1>1 DEF PlayerRec
    <2> QED
      BY <1>2, <2>1, PutSaved DEF FramePlayingSave
  <1>3. CASE FramePlayingEndOfFee(r) \/ LuaKickout(r)
    BY <1>3, DetachSaved DEF FramePlayingEndOfFee, LuaKickout
  <1>4. CASE Play(r)
    <2>1. CASE Put(r, [player[r] EXCEPT !.fight = ~@])
      <3> DEFINE p == [player[r] EXCEPT !.fight = ~@]
      <3>1. p.unsaved = player[r].unsaved /\ p.status = player[r].status
        BY <1>1 DEF PlayerRec
      <3> QED
        BY <2>1, <3>1, KeepSaved
    <2>2. ASSUME NEW x \in Parts, Put(r, [player[r] EXCEPT !.unsaved = @ \cup {x}]) PROVE Saved
      <3> DEFINE p == [player[r] EXCEPT !.unsaved = @ \cup {x}]
      <3>1. p.unsaved \subseteq Parts /\ p.status = player[r].status
        BY <1>1 DEF PlayerRec
      <3> HIDE DEF p
      <3>2. player[r].status \in {"gsPlaying", "gsDeleting"}
        BY <1>4 DEF Play, In
      <3>3. p.unsaved \subseteq MayHold(p.status) /\ p.status # "absent"
        BY <3>1, <3>2 DEF MayHold
      <3>4. Put(r, p)
        BY <2>2 DEF p
      <3> QED
        BY <3>3, <3>4, PutSaved
    <2> QED
      BY <1>4, <2>1, <2>2 DEF Play
  <1>5. CASE RealSwitchMap(r)
    <2> DEFINE p == [player[r] EXCEPT !.status = "gsSearchMap", !.place = player[r].scene,
                                      !.scene = NoMap, !.unsaved = @ \ {"role"}]
    <2>1. p.unsaved = player[r].unsaved \ {"role"} /\ p.status = "gsSearchMap"
      BY <1>1 DEF PlayerRec
    <2>2. player[r].unsaved \subseteq Parts
      BY <1>1 DEF PlayerRec
    <2> HIDE DEF p
    <2>3. p.unsaved \subseteq MayHold(p.status) /\ p.status # "absent"
      BY <2>1, <2>2 DEF MayHold, Parts
    <2>4. Put(r, p)
      BY <1>5 DEF RealSwitchMap, p
    <2> QED
      BY <2>3, <2>4, PutSaved
  <1> QED
    BY <1>2, <1>3, <1>4, <1>5

LEMMA ServerSaved ==
    ASSUME TypeOK, Clean,
           \/ PrepareToQuit \/ QuitDetach \/ QuitStop \/ CenterLost
           \/ \E m \in Maps : OnCreateMapNotify(m) \/ OnDeleteMapNotify(m)
    PROVE  Saved
  <1>1. CASE UNCHANGED player
    BY <1>1, SameSaved
  <1>2. CASE QuitDetach
    BY <1>2, DetachSaved DEF QuitDetach
  <1> QED
    BY <1>1, <1>2
    DEF PrepareToQuit, QuitStop, CenterLost, OnCreateMapNotify, OnDeleteMapNotify

-----------------------------------------------------------------------------

LEMMA SavedStep ==
    ASSUME TransferMeets \cap {"gsPlaying", "gsDeleting"} = {}
    PROVE  TypeOK /\ Clean /\ Pending /\ Next => Saved
  <1> SUFFICES ASSUME TypeOK, Clean, Pending, Next PROVE Saved
    OBVIOUS
  <1>1. ASSUME NEW r \in Roles, RoleStep(r) PROVE Saved
    BY <1>1, RequestSaved, ExtPointSaved, GSExtPointSaved, ConfirmSaved, LoadRoleSaved, SearchMapSaved,
       SaveRespondSaved, TransferRespondSaved, FrameSaved, PlaySaved DEF RoleStep
  <1>2. ASSUME NEW c \in Conns, ConnStep(c) PROVE Saved
    <2>1. CASE ProcessNewConnection(c) \/ ClientVanishes(c) \/ ConnectionLost(c) \/ PingTimeout(c)
      BY <2>1, ConnectionSaved DEF PingTimeout
    <2>2. CASE OnPlayerLogout(c)
      BY <2>2, DetachSaved DEF OnPlayerLogout
    <2> QED
      BY <1>2, <2>1, <2>2, HandshakeSaved, EnterSceneSaved, SectionSaved, ReadySaved DEF ConnStep
  <1> QED
    BY <1>1, <1>2, ServerSaved DEF Next

\* With a calm center that offers by transfer no role still being saved for its
\* logout here, DelPlayer, whichever handler, timer or order of messages leads
\* to it, discards nothing that changed after the last save, but for the account
\* data of a player lost between RealSwitchMap and its entry into the next map.
THEOREM NothingLostUnsaved ==
    CalmCenter /\ "gsDeleting" \notin TransferMeets => (Spec => SavedBeforeGone)
  <1> SUFFICES ASSUME CalmCenter, "gsDeleting" \notin TransferMeets
               PROVE  Spec => SavedBeforeGone
    OBVIOUS
  <1> TransferMeets \cap {"gsPlaying", "gsDeleting"} = {}
    BY DEF CalmCenter, Unattached
  <1>1. Init => Clean
    <2>1. Gone.unsaved = {}
      BY DEF Gone
    <2> QED
      BY <2>1 DEF Init, Clean
  <1>2. TypeOK /\ Pending /\ Clean /\ [Next]_vars => Clean'
    <2>1. TypeOK /\ Pending /\ Clean /\ Next => Clean'
      BY SavedStep DEF Saved
    <2>2. Clean /\ UNCHANGED vars => Clean'
      BY DEF Clean, vars
    <2> QED
      BY <2>1, <2>2
  <1>3. TypeOK /\ Pending /\ Clean /\ [Next]_vars => [NoLoss]_vars
    BY SavedStep DEF Saved
  <1>4. Spec => [](TypeOK /\ Pending)
    BY TypeCorrect, SessionStructure, PTL
  <1>5. [][NoLoss]_vars => SavedBeforeGone
    BY DEF NoLoss, MayLose, SavedBeforeGone, In
  <1> QED
    BY <1>1, <1>2, <1>3, <1>4, <1>5, PTL DEF Spec

-----------------------------------------------------------------------------
(* InScene and FullyLoaded.                                                 *)

World == {"gsWaitForSyncClientData", "gsPlaying", "gsDeleting"}

\* What InScene says of one player's record.
Stands(p) == p.status \in World => p.scene \in maps

-----------------------------------------------------------------------------
(* InScene: the ways a step changes a player.                               *)

LEMMA SameScene == ASSUME InScene, UNCHANGED <<player, maps>> PROVE InScene'
  BY DEF InScene, In

LEMMA PutScene ==
    ASSUME TypeOK, InScene, NEW r \in Roles, NEW p, Put(r, p), UNCHANGED maps, Stands(p)
    PROVE  InScene'
  <1>1. player'[r] = p /\ \A q \in Roles \ {r} : player'[q] = player[q]
    BY PutFacts
  <1> QED
    BY <1>1 DEF InScene, In, Stands, World

\* Nobody comes into the world by a step that leaves the scene as it is.
LEMMA StayScene ==
    ASSUME TypeOK, InScene, NEW r \in Roles, NEW p, Put(r, p), UNCHANGED maps,
           p.scene = player[r].scene, p.status \in World => player[r].status \in World
    PROVE  InScene'
  <1>1. Stands(p)
    BY DEF InScene, In, Stands, World
  <1> QED
    BY <1>1, PutScene

LEMMA DelPlayerScene ==
    ASSUME TypeOK, InScene, NEW r \in Roles, NEW dirty, DelPlayer(r, dirty), UNCHANGED maps
    PROVE  InScene'
  <1>1. Put(r, Gone) /\ Stands(Gone)
    BY DEF DelPlayer, Gone, Stands, World
  <1> QED
    BY <1>1, PutScene

LEMMA ReleasedScene ==
    ASSUME TypeOK, InScene, NEW c \in Conns, Released(c), UNCHANGED maps
    PROVE  InScene'
  <1> DEFINE r == link[c].role
  <1>1. ASSUME r \in Roles PROVE player[r] \in PlayerRec
    BY <1>1, PlayerType
  <1>2. CASE UNCHANGED player
    BY <1>2, SameScene
  <1>3. CASE /\ r \in Roles /\ In(r, {"gsPlaying"})
             /\ Put(r, [player[r] EXCEPT !.conn = NoConn, !.timer = 0, !.status = "gsDeleting"])
    <2> DEFINE p == [player[r] EXCEPT !.conn = NoConn, !.timer = 0, !.status = "gsDeleting"]
    <2>1. p.scene = player[r].scene /\ player[r].status \in World
      BY <1>1, <1>3 DEF PlayerRec, In, World
    <2> QED
      BY <1>3, <2>1, StayScene
  <1>4. CASE r \in Roles /\ DelPlayer(r, player[r].unsaved)
    BY <1>4, DelPlayerScene
  <1>5. CASE r \in Roles /\ Put(r, [player[r] EXCEPT !.conn = NoConn])
    <2> DEFINE p == [player[r] EXCEPT !.conn = NoConn]
    <2>1. p.scene = player[r].scene /\ p.status = player[r].status
      BY <1>1, <1>5 DEF PlayerRec
    <2> QED
      BY <1>5, <2>1, StayScene
  <1> QED
    BY <1>2, <1>3, <1>4, <1>5 DEF Released

LEMMA DetachScene ==
    ASSUME TypeOK, InScene, NEW c \in Conns, Detach(c), UNCHANGED maps PROVE InScene'
  BY ReleasedScene DEF Detach

-----------------------------------------------------------------------------
(* InScene: the handlers.                                                   *)

LEMMA RequestScene ==
    ASSUME TypeOK, InScene, NEW r \in Roles, OnPlayerLoginRequest(r) \/ OnTransferPlayerRequest(r)
    PROVE  InScene'
  <1>1. ASSUME NEW m \in Maps, NewPlayer(r, m), UNCHANGED maps PROVE InScene'
    <2> DEFINE p == [Gone EXCEPT !.status = "gsWaitForConnect", !.place = m]
    <2>1. p.status = "gsWaitForConnect"
      BY DEF Gone
    <2> HIDE DEF p
    <2>2. Put(r, p) /\ Stands(p)
      BY <1>1, <2>1 DEF NewPlayer, p, Stands, World
    <2> QED
      BY <1>1, <2>2, PutScene
  <1> QED
    BY <1>1, DelPlayerScene DEF OnPlayerLoginRequest, OnTransferPlayerRequest

LEMMA ExtPointScene ==
    ASSUME TypeOK, InScene, NEW r \in Roles, NEW b \in Bounds, OnSyncNewExtPointRespond(r, b)
    PROVE  InScene'
  <1>1. player[r] \in PlayerRec /\ UNCHANGED maps
    BY PlayerType DEF OnSyncNewExtPointRespond
  <1>2. ASSUME NEW points, Put(r, [player[r] EXCEPT !.points = points]) PROVE InScene'
    <2> DEFINE p == [player[r] EXCEPT !.points = points]
    <2>1. p.scene = player[r].scene /\ p.status = player[r].status
      BY <1>1 DEF PlayerRec
    <2> QED
      BY <1>1, <1>2, <2>1, StayScene
  <1>3. CASE UNCHANGED player
    BY <1>1, <1>3, SameScene
  <1>4. CASE Put(r, [player[r] EXCEPT !.points = @ \cup {b + 1}])
    BY <1>2, <1>4
  <1>5. CASE Put(r, [player[r] EXCEPT !.points = IF NepKeys = 0 THEN @ ELSE @ \cup {b + 1}])
    BY <1>2, <1>5
  <1>6. CASE Put(r, Gone)
    <2>1. Stands(Gone)
      BY DEF Gone, Stands, World
    <2> QED
      BY <1>1, <1>6, <2>1, PutScene
  <1> QED
    BY <1>3, <1>4, <1>5, <1>6 DEF OnSyncNewExtPointRespond

LEMMA GSExtPointScene ==
    ASSUME TypeOK, InScene, NEW r \in Roles, NEW key, OnSyncGSNewExtPoint(r, key) PROVE InScene'
  <1> DEFINE p == [player[r] EXCEPT !.points = @ \cup {key}]
  <1>1. p.scene = player[r].scene /\ p.status = player[r].status
    BY PlayerType DEF PlayerRec
  <1> HIDE DEF p
  <1>2. Put(r, p) /\ UNCHANGED maps
    BY DEF OnSyncGSNewExtPoint, p
  <1> QED
    BY <1>1, <1>2, StayScene

LEMMA ConfirmScene ==
    ASSUME TypeOK, InScene, NEW r \in Roles, OnConfirmPlayerLoginRespond(r) PROVE InScene'
  <1>1. UNCHANGED maps
    BY DEF OnConfirmPlayerLoginRespond
  <1>2. CASE UNCHANGED player
    BY <1>1, <1>2, SameScene
  <1>3. CASE Put(r, [player[r] EXCEPT !.status = "gsWaitForLoginLoading", !.timer = 0])
    <2> DEFINE p == [player[r] EXCEPT !.status = "gsWaitForLoginLoading", !.timer = 0]
    <2>1. p.status = "gsWaitForLoginLoading"
      BY PlayerType DEF PlayerRec
    <2>2. Stands(p)
      BY <2>1 DEF Stands, World
    <2> QED
      BY <1>1, <1>3, <2>2, PutScene
  <1>4. CASE player[r].conn \in Conns /\ Detach(player[r].conn)
    BY <1>1, <1>4, DetachScene
  <1> QED
    BY <1>2, <1>3, <1>4 DEF OnConfirmPlayerLoginRespond

LEMMA LoadRoleScene ==
    ASSUME TypeOK, InScene, NEW r \in Roles, OnLoadRoleData(r) PROVE InScene'
  <1> DEFINE inScene == [player[r] EXCEPT !.scene = player[r].place]
             syncing == [inScene EXCEPT !.status = "gsWaitForSyncClientData"]
  <1>1. UNCHANGED maps
    BY DEF OnLoadRoleData
  <1>2. inScene \in PlayerRec /\ inScene.scene = player[r].place
        /\ inScene.status = player[r].status
    BY PlayerType DEF PlayerRec
  <1> HIDE DEF inScene
  <1>3. syncing \in PlayerRec
    BY <1>2 DEF PlayerRec, Status, DetachDeletes
  <1>4. syncing.scene = player[r].place
    BY <1>2 DEF PlayerRec
  <1> HIDE DEF syncing
  <1>5. ASSUME NEW p, Put(r, p), GetScene(player[r].place), p.scene = player[r].place
        PROVE  InScene'
    <2>1. Stands(p)
      BY <1>5 DEF GetScene, Stands
    <2> QED
      BY <1>1, <1>5, <2>1, PutScene
  <1>6. CASE UNCHANGED player
    BY <1>1, <1>6, SameScene
  <1>7. CASE GetScene(player[r].place) /\ Put(r, inScene)
    BY <1>2, <1>5, <1>7
  <1>8. CASE GetScene(player[r].place) /\ Put(r, [syncing EXCEPT !.left = 0, !.finished = TRUE])
    <2> DEFINE p == [syncing EXCEPT !.left = 0, !.finished = TRUE]
    <2>1. p.scene = player[r].place
      BY <1>3, <1>4 DEF PlayerRec
    <2> QED
      BY <1>5, <1>8, <2>1
  <1>9. ASSUME NEW k, GetScene(player[r].place), Put(r, [syncing EXCEPT !.left = k])
        PROVE  InScene'
    <2> DEFINE p == [syncing EXCEPT !.left = k]
    <2>1. p.scene = player[r].place
      BY <1>3, <1>4 DEF PlayerRec
    <2> QED
      BY <1>5, <1>9, <2>1
  <1>10. CASE /\ GetScene(player[r].place)
              /\ \E n \in 1 .. MaxBlocks :
                   \/ Put(r, [syncing EXCEPT !.left = n - 1])
                   \/ Put(r, [syncing EXCEPT !.left = n])
    BY <1>9, <1>10
  <1> QED
    BY <1>6, <1>7, <1>8, <1>10 DEF OnLoadRoleData, syncing, inScene

LEMMA SearchMapScene ==
    ASSUME TypeOK, InScene, NEW r \in Roles, OnSearchMapRespond(r) PROVE InScene'
  <1>1. player[r] \in PlayerRec /\ UNCHANGED maps
    BY PlayerType DEF OnSearchMapRespond
  <1>2. CASE UNCHANGED player
    BY <1>1, <1>2, SameScene
  <1>3. ASSUME NEW added \in BOOLEAN, GetScene(player[r].place),
               Put(r, [player[r] EXCEPT !.scene = player[r].place,
                                        !.status = IF added THEN "gsPlaying" ELSE @])
        PROVE  InScene'
    <2> DEFINE p == [player[r] EXCEPT !.scene = player[r].place,
                                      !.status = IF added THEN "gsPlaying" ELSE @]
    <2>1. p.scene = player[r].place
      BY <1>1 DEF PlayerRec
    <2>2. Stands(p)
      BY <1>3, <2>1 DEF GetScene, Stands
    <2> QED
      BY <1>1, <1>3, <2>2, PutScene
  <1>4. ASSUME NEW m \in Maps,
               Put(r, [player[r] EXCEPT !.place = m, !.status = "gsWaitForNewMapLoading"])
        PROVE  InScene'
    <2> DEFINE p == [player[r] EXCEPT !.place = m, !.status = "gsWaitForNewMapLoading"]
    <2>1. p.status = "gsWaitForNewMapLoading"
      BY <1>1 DEF PlayerRec
    <2>2. Stands(p)
      BY <2>1 DEF Stands, World
    <2> QED
      BY <1>1, <1>4, <2>2, PutScene
  <1>5. CASE Put(r, [player[r] EXCEPT !.status = "gsWaitForTransmissionSave",
                                      !.place = NoMap, !.unsaved = {}])
    <2> DEFINE p == [player[r] EXCEPT !.status = "gsWaitForTransmissionSave",
                                      !.place = NoMap, !.unsaved = {}]
    <2>1. p.status = "gsWaitForTransmissionSave"
      BY <1>1 DEF PlayerRec
    <2>2. Stands(p)
      BY <2>1 DEF Stands, World
    <2> QED
      BY <1>1, <1>5, <2>2, PutScene
  <1> QED
    BY <1>2, <1>3, <1>4, <1>5 DEF OnSearchMapRespond

LEMMA TransferScene ==
    ASSUME TypeOK, InScene, NEW r \in Roles,
           OnSaveRoleDataRespond(r) \/ OnTransferPlayerRespond(r)
    PROVE  InScene'
  <1>1. UNCHANGED maps
    BY DEF OnSaveRoleDataRespond, OnTransferPlayerRespond
  <1>2. CASE UNCHANGED player
    BY <1>1, <1>2, SameScene
  <1>3. CASE Put(r, [player[r] EXCEPT !.status = "gsWaitForTransmissionGuid"])
    <2> DEFINE p == [player[r] EXCEPT !.status = "gsWaitForTransmissionGuid"]
    <2>1. p.status = "gsWaitForTransmissionGuid"
      BY PlayerType DEF PlayerRec
    <2>2. Stands(p)
      BY <2>1 DEF Stands, World
    <2> QED
      BY <1>1, <1>3, <2>2, PutScene
  <1>4. CASE player[r].conn \in Conns /\ Detach(player[r].conn)
    BY <1>1, <1>4, DetachScene
  <1> QED
    BY <1>2, <1>3, <1>4 DEF OnSaveRoleDataRespond, OnTransferPlayerRespond

LEMMA ConnectionScene ==
    ASSUME TypeOK, InScene, NEW c \in Conns,
           ProcessNewConnection(c) \/ ClientVanishes(c) \/ ConnectionLost(c)
    PROVE  InScene'
  BY SameScene, ReleasedScene
  DEF ProcessNewConnection, ClientVanishes, ConnectionLost, DetachAndShutdown

LEMMA HandshakeScene ==
    ASSUME TypeOK, InScene, NEW c \in Conns, NEW r \in Roles, OnHandshakeRequest(c, r)
    PROVE  InScene'
  <1> DEFINE p == [player[r] EXCEPT !.conn = c, !.status = "gsWaitForPermit", !.timer = 0]
  <1>1. p.status = "gsWaitForPermit"
    BY PlayerType DEF PlayerRec
  <1>2. Stands(p)
    BY <1>1 DEF Stands, World
  <1> QED
    BY <1>2, PutScene DEF OnHandshakeRequest

LEMMA EnterSceneScene ==
    ASSUME TypeOK, InScene, NEW c \in Conns, OnApplyEnterScene(c) PROVE InScene'
  <1> DEFINE r == link[c].role
             old == player[r]
  <1>1. r \in Roles /\ old \in PlayerRec /\ UNCHANGED maps
    BY PlayerType DEF OnApplyEnterScene, Sends, Live
  <1>2. CASE Put(r, [old EXCEPT !.status = "gsWaitForRoleData", !.timer = 0])
    <2> DEFINE p == [old EXCEPT !.status = "gsWaitForRoleData", !.timer = 0]
    <2>1. p.status = "gsWaitForRoleData"
      BY <1>1 DEF PlayerRec
    <2>2. Stands(p)
      BY <2>1 DEF Stands, World
    <2> QED
      BY <1>1, <1>2, <2>2, PutScene
  <1>3. CASE /\ GetScene(old.place)
             /\ Put(r, [old EXCEPT !.status = "gsPlaying", !.scene = old.place])
    <2> DEFINE p == [old EXCEPT !.status = "gsPlaying", !.scene = old.place]
    <2>1. p.scene = old.place
      BY <1>1 DEF PlayerRec
    <2>2. Stands(p)
      BY <1>3, <2>1 DEF GetScene, Stands
    <2> QED
      BY <1>1, <1>3, <2>2, PutScene
  <1> QED
    BY <1>1, <1>2, <1>3, DetachScene DEF OnApplyEnterScene, Becomes

LEMMA SectionScene ==
    ASSUME TypeOK, InScene, NEW c \in Conns, OnSyncRoleDataSectionCheckRespond(c) PROVE InScene'
  <1> DEFINE r == link[c].role
             old == player[r]
  <1>1. r \in Roles /\ old \in PlayerRec /\ UNCHANGED maps
    BY PlayerType DEF OnSyncRoleDataSectionCheckRespond, Sends, Live
  <1>2. CASE Put(r, [old EXCEPT !.left = @ - 1, !.timer = 0])
    <2> DEFINE p == [old EXCEPT !.left = @ - 1, !.timer = 0]
    <2>1. p.scene = old.scene /\ p.status = old.status
      BY <1>1 DEF PlayerRec
    <2> QED
      BY <1>1, <1>2, <2>1, StayScene
  <1>3. CASE Put(r, [old EXCEPT !.finished = TRUE, !.timer = 0])
    <2> DEFINE p == [old EXCEPT !.finished = TRUE, !.timer = 0]
    <2>1. p.scene = old.scene /\ p.status = old.status
      BY <1>1 DEF PlayerRec
    <2> QED
      BY <1>1, <1>3, <2>1, StayScene
  <1> QED
    BY <1>1, <1>2, <1>3, DetachScene DEF OnSyncRoleDataSectionCheckRespond, Becomes

LEMMA ReadyScene ==
    ASSUME TypeOK, InScene, NEW c \in Conns, OnClientConfirmReady(c) PROVE InScene'
  <1> DEFINE r == link[c].role
             old == player[r]
  <1>1. r \in Roles /\ old \in PlayerRec /\ UNCHANGED maps
    BY PlayerType DEF OnClientConfirmReady, Sends, Live
  <1>2. CASE /\ old.status = "gsWaitForSyncClientData"
             /\ Put(r, [old EXCEPT !.status = "gsPlaying"])
    <2> DEFINE p == [old EXCEPT !.status = "gsPlaying"]
    <2>1. p.scene = old.scene /\ old.status \in World
      BY <1>1, <1>2 DEF PlayerRec, World
    <2> QED
      BY <1>1, <1>2, <2>1, StayScene
  <1>3. CASE /\ old.status = "gsWaitForSyncClientData"
             /\ Put(r, [old EXCEPT !.status = "gsDeleting", !.conn = NoConn, !.timer = 0])
    <2> DEFINE p == [old EXCEPT !.status = "gsDeleting", !.conn = NoConn, !.timer = 0]
    <2>1. p.scene = old.scene /\ old.status \in World
      BY <1>1, <1>3 DEF PlayerRec, World
    <2> QED
      BY <1>1, <1>3, <2>1, StayScene
  <1> QED
    BY <1>1, <1>2, <1>3, DetachScene DEF OnClientConfirmReady, Becomes

LEMMA FrameScene ==
    ASSUME TypeOK, InScene, NEW r \in Roles, FrameStep(r) PROVE InScene'
  <1>1. ASSUME Aged(r), UNCHANGED maps PROVE InScene'
    <2> DEFINE p == [player[r] EXCEPT !.timer = @ + 1]
    <2>1. p.scene = player[r].scene /\ p.status = player[r].status
      BY PlayerType DEF PlayerRec
    <2> QED
      BY <1>1, <2>1, StayScene DEF Aged
  <1>2. CASE FrameWaitForConnect(r)
    BY <1>1, <1>2, DelPlayerScene DEF FrameWaitForConnect
  <1>3. ASSUME NEW states, NEW limit, FrameLogin(r, states, limit) PROVE InScene'
    BY <1>1, <1>3, DetachScene DEF FrameLogin
  <1>4. CASE FrameDeleting(r)
    BY <1>1, <1>4, DelPlayerScene DEF FrameDeleting
  <1> QED
    BY <1>2, <1>3, <1>4 DEF FrameStep, FrameWaitForPermitOrRoleData, FrameWaitForSyncClientData

LEMMA PlayScene ==
    ASSUME TypeOK, InScene, NEW r \in Roles,
           FramePlayingSave(r) \/ FramePlayingEndOfFee(r) \/ Play(r) \/ RealSwitchMap(r)
           \/ LuaKickout(r)
    PROVE  InScene'
  <1>1. player[r] \in PlayerRec /\ UNCHANGED maps
    BY PlayerType DEF FramePlayingSave, FramePlayingEndOfFee, Play, RealSwitchMap, LuaKickout
  <1>2. ASSUME NEW data, Put(r, [player[r] EXCEPT !.unsaved = data]) PROVE InScene'
    <2> DEFINE p == [player[r] EXCEPT !.unsaved = data]
    <2>1. p.scene = player[r].scene /\ p.status = player[r].status
      BY <1>1 DEF PlayerRec
    <2> QED
      BY <1>1, <1>2, <2>1, StayScene
  <1>3. CASE FramePlayingSave(r)
    BY <1>2, <1>3 DEF FramePlayingSave
  <1>4. CASE FramePlayingEndOfFee(r) \/ LuaKickout(r)
    BY <1>1, <1>4, DetachScene DEF FramePlayingEndOfFee, LuaKickout
  <1>5. CASE Put(r, [player[r] EXCEPT !.fight = ~@])
    <2> DEFINE p == [player[r] EXCEPT !.fight = ~@]
    <2>1. p.scene = player[r].scene /\ p.status = player[r].status
      BY <1>1 DEF PlayerRec
    <2> QED
      BY <1>1, <1>5, <2>1, StayScene
  <1>6. ASSUME NEW x \in Parts, Put(r, [player[r] EXCEPT !.unsaved = @ \cup {x}]) PROVE InScene'
    BY <1>2, <1>6
  <1>7. CASE RealSwitchMap(r)
    <2> DEFINE p == [player[r] EXCEPT !.status = "gsSearchMap", !.place = player[r].scene,
                                      !.scene = NoMap, !.unsaved = @ \ {"role"}]
    <2>1. p.status = "gsSearchMap"
      BY <1>1 DEF PlayerRec
    <2>2. Stands(p)
      BY <2>1 DEF Stands, World
    <2> QED
      BY <1>1, <1>7, <2>2, PutScene DEF RealSwitchMap
  <1> QED
    BY <1>3, <1>4, <1>5, <1>6, <1>7 DEF Play

\* A map is deleted only when nobody's m_pScene is it, whatever that player waits for.
LEMMA MapScene ==
    ASSUME InScene, NEW m \in Maps, OnCreateMapNotify(m) \/ OnDeleteMapNotify(m)
    PROVE  InScene'
  <1>1. UNCHANGED player
    BY DEF OnCreateMapNotify, OnDeleteMapNotify
  <1>2. ASSUME NEW r \in Roles, player[r].scene \in maps PROVE player[r].scene \in maps'
    BY <1>2 DEF OnCreateMapNotify, OnDeleteMapNotify
  <1> QED
    BY <1>1, <1>2 DEF InScene, In

LEMMA SceneStep == TypeOK /\ InScene /\ Next => InScene'
  <1> SUFFICES ASSUME TypeOK, InScene, Next PROVE InScene'
    OBVIOUS
  <1>1. ASSUME NEW r \in Roles, RoleStep(r) PROVE InScene'
    BY <1>1, RequestScene, ExtPointScene, GSExtPointScene, ConfirmScene, LoadRoleScene, SearchMapScene,
       TransferScene, FrameScene, PlayScene DEF RoleStep
  <1>2. ASSUME NEW c \in Conns, ConnStep(c) PROVE InScene'
    <2>1. CASE ProcessNewConnection(c) \/ ClientVanishes(c) \/ ConnectionLost(c) \/ PingTimeout(c)
      BY <2>1, ConnectionScene DEF PingTimeout
    <2>2. CASE OnPlayerLogout(c)
      BY <2>2, DetachScene DEF OnPlayerLogout
    <2> QED
      BY <1>2, <2>1, <2>2, HandshakeScene, EnterSceneScene, SectionScene, ReadyScene DEF ConnStep
  <1>3. CASE PrepareToQuit \/ QuitStop \/ CenterLost
    BY <1>3, SameScene DEF PrepareToQuit, QuitStop, CenterLost
  <1>4. CASE QuitDetach
    BY <1>4, DetachScene DEF QuitDetach
  <1> QED
    BY <1>1, <1>2, <1>3, <1>4, MapScene DEF Next

\* Whoever plays, waits for its client's acknowledgements or is kept for its logout
\* stands in a scene of m_SceneSet, whatever its client sends, however late the
\* center's answers are and whichever maps are created and deleted meanwhile.
THEOREM StandsInScene == Spec => []InScene
  <1>1. Init => InScene
    <2>1. Gone.status = "absent"
      BY DEF Gone
    <2> QED
      BY <2>1 DEF Init, InScene, In
  <1>2. TypeOK /\ InScene /\ [Next]_vars => InScene'
    <2>1. InScene /\ UNCHANGED vars => InScene'
      BY SameScene DEF vars
    <2> QED
      BY <2>1, SceneStep
  <1> QED
    BY <1>1, <1>2, TypeCorrect, PTL DEF Spec

-----------------------------------------------------------------------------
(* FullyLoaded: a client that has been asked whether it is ready is one whose *)
(* player is loaded, and no login begins with a loaded player.               *)

Arriving == {"gsWaitForConnect", "gsWaitForPermit", "gsWaitForLoginLoading", "gsWaitForRoleData"}

Entered == {"gsPlaying", "gsDeleting", "gsSearchMap", "gsWaitForNewMapLoading",
            "gsWaitForTransmissionSave", "gsWaitForTransmissionGuid"}

Whole(p) == p.finished /\ p.left = 0

Loads(p) ==
    /\ p.status \in Arriving => ~p.finished
    /\ p.status \in Entered => Whole(p)

Ready(c) == link[c].role \in Roles /\ link[c].client = "ready"

Loading ==
    /\ \A r \in Roles : Loads(player[r])
    /\ \A c \in Conns : Ready(c) => Whole(player[link[c].role])

\* No client is asked for its readiness in this step.
NoneAsked == \A c \in Conns : Ready(c)' => Ready(c) /\ link'[c].role = link[c].role

\* Connection c has lost its player; the others are as they were.
Freed(c) == link'[c].role = NoRole /\ \A d \in Conns \ {c} : link'[d] = link[d]

LEMMA FreedNone == ASSUME NEW c \in Conns, Freed(c) PROVE NoneAsked
  BY DomainAssumption DEF Freed, NoneAsked, Ready

LEMMA UnbindFreed == ASSUME TypeOK, NEW c \in Conns, Unbind(c) PROVE Freed(c)
  <1>1. link[c] \in LinkRec
    BY LinkType
  <1>2. [link[c] EXCEPT !.role = NoRole, !.sess = 0].role = NoRole
    BY <1>1 DEF LinkRec
  <1>3. /\ link'[c] = [link[c] EXCEPT !.role = NoRole, !.sess = 0]
        /\ \A d \in Conns \ {c} : link'[d] = link[d]
    BY DEF Unbind, TypeOK
  <1> QED
    BY <1>2, <1>3 DEF Freed

LEMMA ClosedFreed == ASSUME TypeOK, NEW c \in Conns, DetachAndShutdown(c) PROVE Freed(c)
  BY DEF DetachAndShutdown, Freed, Closed, TypeOK

LEMMA SetClient ==
    ASSUME TypeOK, NEW c \in Conns, NEW what,
           link' = [link EXCEPT ![c] = [link[c] EXCEPT !.client = what]]
    PROVE  /\ link'[c].role = link[c].role /\ link'[c].client = what
           /\ \A d \in Conns \ {c} : link'[d] = link[d]
  <1>1. link[c] \in LinkRec
    BY LinkType
  <1>2. /\ [link[c] EXCEPT !.client = what].role = link[c].role
        /\ [link[c] EXCEPT !.client = what].client = what
    BY <1>1 DEF LinkRec
  <1>3. /\ link'[c] = [link[c] EXCEPT !.client = what]
        /\ \A d \in Conns \ {c} : link'[d] = link[d]
    BY DEF TypeOK
  <1> QED
    BY <1>2, <1>3

LEMMA SetClientNone ==
    ASSUME TypeOK, NEW c \in Conns, NEW what, what # "ready",
           link' = [link EXCEPT ![c] = [link[c] EXCEPT !.client = what]]
    PROVE  NoneAsked
  BY SetClient DEF NoneAsked, Ready

\* Asking a player's client changes only that client.
LEMMA AskingLinks ==
    ASSUME TypeOK, NEW r \in Roles, NEW what, link' = Asking(r, what)
    PROVE  /\ \A c \in Conns : link'[c].role = link[c].role
           /\ \A c \in Conns : link'[c] = link[c] \/ (link'[c].client = what /\ player[r].conn = c)
  <1>1. CASE link' = link
    BY <1>1
  <1>2. CASE player[r].conn \in Conns /\ link' = [link EXCEPT ![player[r].conn] =
                 [link[player[r].conn] EXCEPT !.client = what]]
    BY <1>2, SetClient
  <1>3. player[r].conn \in Conns \cup {NoConn}
    BY PlayerType DEF PlayerRec
  <1> QED
    BY <1>1, <1>2, <1>3 DEF Asking, Ask

LEMMA AskingNone ==
    ASSUME TypeOK, NEW r \in Roles, NEW what, link' = Asking(r, what), what # "ready"
    PROVE  NoneAsked
  BY AskingLinks DEF NoneAsked, Ready

-----------------------------------------------------------------------------
(* FullyLoaded: the ways a step changes a player.                           *)

LEMMA SameLoad == ASSUME Loading, UNCHANGED player, NoneAsked PROVE Loading'
  BY DEF Loading, NoneAsked

LEMMA PutLoad ==
    ASSUME TypeOK, Loading, NEW r \in Roles, NEW p, Put(r, p), Loads(p),
           \A c \in Conns : Ready(c)' =>
              IF link'[c].role = r THEN Whole(p)
              ELSE Ready(c) /\ link'[c].role = link[c].role
    PROVE  Loading'
  <1>1. player'[r] = p /\ \A q \in Roles \ {r} : player'[q] = player[q]
    BY PutFacts
  <1>2. ASSUME NEW q \in Roles PROVE Loads(player'[q])
    BY <1>1 DEF Loading
  <1>3. ASSUME NEW c \in Conns, Ready(c)' PROVE Whole(player'[link'[c].role])
    <2>1. CASE link'[c].role = r
      BY <1>1, <1>3, <2>1
    <2>2. CASE link'[c].role # r
      <3>1. link'[c].role \in Roles \ {r}
        BY <1>3, <2>2 DEF Ready
      <3> QED
        BY <1>1, <1>3, <2>2, <3>1 DEF Loading
    <2> QED
      BY <2>1, <2>2
  <1> QED
    BY <1>2, <1>3 DEF Loading

\* Most handlers change neither what is loaded nor what the client is asked.
LEMMA KeepLoad ==
    ASSUME TypeOK, Loading, NEW r \in Roles, NEW p, Put(r, p), NoneAsked,
           p.finished = player[r].finished, p.left = player[r].left, Loads(p)
    PROVE  Loading'
  <1>1. ASSUME NEW c \in Conns, Ready(c)', link'[c].role = r PROVE Whole(p)
    <2>1. Whole(player[r])
      BY <1>1 DEF Loading, NoneAsked
    <2> QED
      BY <2>1 DEF Whole
  <1> QED
    BY <1>1, PutLoad DEF NoneAsked

LEMMA StayLoad ==
    ASSUME TypeOK, Loading, NEW r \in Roles, NEW p, Put(r, p), NoneAsked,
           p.finished = player[r].finished, p.left = player[r].left,
           p.status = player[r].status
    PROVE  Loading'
  <1>1. Loads(player[r])
    BY DEF Loading
  <1>2. Loads(p)
    BY <1>1 DEF Loads, Whole
  <1> QED
    BY <1>2, KeepLoad

\* A player in the world or on its way to another map stays in one of these.
LEMMA EnteredLoad ==
    ASSUME TypeOK, Loading, NEW r \in Roles, NEW p, Put(r, p), NoneAsked,
           p.finished = player[r].finished, p.left = player[r].left,
           player[r].status \in Entered, p.status \in Entered
    PROVE  Loading'
  <1>1. Whole(player[r])
    BY DEF Loading, Loads
  <1>2. Loads(p)
    BY <1>1 DEF Loads, Whole, Arriving, Entered
  <1> QED
    BY <1>2, KeepLoad

LEMMA ArrivingLoad ==
    ASSUME TypeOK, Loading, NEW r \in Roles, NEW p, Put(r, p), NoneAsked,
           p.finished = player[r].finished, p.left = player[r].left,
           player[r].status \in Arriving, p.status \in Arriving
    PROVE  Loading'
  <1>1. ~player[r].finished
    BY DEF Loading, Loads
  <1>2. Loads(p)
    BY <1>1 DEF Loads, Arriving, Entered
  <1> QED
    BY <1>2, KeepLoad

\* A player that no connection points at is deleted or made.
LEMMA FreshLoad ==
    ASSUME TypeOK, Loading, NEW r \in Roles, NEW p, Put(r, p), NoneAsked,
           ~p.finished, p.status \notin Entered,
           \A c \in Conns : link'[c].role # r
    PROVE  Loading'
  <1>1. Loads(p)
    BY DEF Loads
  <1> QED
    BY <1>1, PutLoad DEF NoneAsked

LEMMA GoneLoad ==
    ASSUME TypeOK, Loading, NEW r \in Roles, Put(r, Gone), NoneAsked,
           \A c \in Conns : link'[c].role # r
    PROVE  Loading'
  <1>1. ~Gone.finished /\ Gone.status \notin Entered
    BY DEF Gone, Entered
  <1> QED
    BY <1>1, FreshLoad

\* Without a connection, a player is not pointed at either.
LEMMA Unlinked ==
    ASSUME Struct, NEW r \in Roles, In(r, Unattached)
    PROVE  \A c \in Conns : link[c].role # r
  BY DomainAssumption DEF Struct, Binding, Orphan, Unattached, In

LEMMA DeleteLoad ==
    ASSUME TypeOK, Struct, Loading, NEW r \in Roles, In(r, Unattached), Put(r, Gone),
           UNCHANGED link
    PROVE  Loading'
  <1>1. NoneAsked /\ \A c \in Conns : link'[c].role # r
    BY Unlinked DEF NoneAsked, Ready
  <1> QED
    BY <1>1, GoneLoad

LEMMA ReleasedLoad ==
    ASSUME TypeOK, Struct, Loading, NEW c \in Conns, Released(c), Freed(c)
    PROVE  Loading'
  <1> DEFINE r == link[c].role
  <1>1. ASSUME r \in Roles PROVE player[r] \in PlayerRec
    BY <1>1, PlayerType
  <1>2. NoneAsked
    BY FreedNone
  <1>3. CASE UNCHANGED player
    BY <1>2, <1>3, SameLoad
  <1>4. CASE /\ r \in Roles /\ In(r, {"gsPlaying"})
             /\ Put(r, [player[r] EXCEPT !.conn = NoConn, !.timer = 0, !.status = "gsDeleting"])
    <2> DEFINE p == [player[r] EXCEPT !.conn = NoConn, !.timer = 0, !.status = "gsDeleting"]
    <2>1. /\ p.finished = player[r].finished /\ p.left = player[r].left
          /\ p.status = "gsDeleting" /\ player[r].status = "gsPlaying"
      BY <1>1, <1>4 DEF PlayerRec, In
    <2>2. p.status \in Entered /\ player[r].status \in Entered
      BY <2>1 DEF Entered
    <2> QED
      BY <1>2, <1>4, <2>1, <2>2, EnteredLoad
  <1>5. CASE r \in Roles /\ DelPlayer(r, player[r].unsaved)
    <2>1. ASSUME NEW d \in Conns PROVE link'[d].role # r
      <3>1. CASE d = c
        BY <1>5, <3>1, DomainAssumption DEF Freed
      <3>2. CASE d # c
        <4>1. link'[d] = link[d]
          BY <3>2 DEF Freed
        <4> QED
          BY <1>5, <3>2, <4>1, DomainAssumption DEF Struct, Binding
      <3> QED
        BY <3>1, <3>2
    <2> QED
      BY <1>2, <1>5, <2>1, GoneLoad DEF DelPlayer
  <1>6. CASE r \in Roles /\ Put(r, [player[r] EXCEPT !.conn = NoConn])
    <2> DEFINE p == [player[r] EXCEPT !.conn = NoConn]
    <2>1. /\ p.finished = player[r].finished /\ p.left = player[r].left
          /\ p.status = player[r].status
      BY <1>1, <1>6 DEF PlayerRec
    <2> QED
      BY <1>2, <1>6, <2>1, StayLoad
  <1> QED
    BY <1>3, <1>4, <1>5, <1>6 DEF Released

LEMMA DetachLoad ==
    ASSUME TypeOK, Struct, Loading, NEW c \in Conns, Detach(c) PROVE Loading'
  BY ReleasedLoad, UnbindFreed DEF Detach

-----------------------------------------------------------------------------
(* FullyLoaded: the handlers.                                               *)

LEMMA RequestLoad ==
    ASSUME TypeOK, Struct, Loading, CalmCenter, NEW r \in Roles,
           OnPlayerLoginRequest(r) \/ OnTransferPlayerRequest(r)
    PROVE  Loading'
  <1>1. UNCHANGED link
    BY DEF OnPlayerLoginRequest, OnTransferPlayerRequest
  <1>2. ASSUME NEW m \in Maps, NewPlayer(r, m), In(r, {"absent"}) PROVE Loading'
    <2> DEFINE p == [Gone EXCEPT !.status = "gsWaitForConnect", !.place = m]
    <2>1. ~p.finished /\ p.status \notin Entered
      BY DEF Gone, Entered
    <2> HIDE DEF p
    <2>2. Put(r, p)
      BY <1>2 DEF NewPlayer, p
    <2>3. NoneAsked /\ \A c \in Conns : link'[c].role # r
      BY <1>1, <1>2, Unlinked DEF NoneAsked, Ready, In, Unattached
    <2> QED
      BY <2>1, <2>2, <2>3, FreshLoad
  <1>3. CASE In(r, TransferMeets \ {"absent"}) /\ DelPlayer(r, player[r].unsaved)
    <2>1. In(r, Unattached)
      BY <1>3 DEF CalmCenter, In
    <2> QED
      BY <1>1, <1>3, <2>1, DeleteLoad DEF DelPlayer
  <1> QED
    BY <1>2, <1>3 DEF OnPlayerLoginRequest, OnTransferPlayerRequest

LEMMA GSExtPointLoad ==
    ASSUME TypeOK, Loading, NEW r \in Roles, NEW key, OnSyncGSNewExtPoint(r, key)
    PROVE  Loading'
  <1> DEFINE p == [player[r] EXCEPT !.points = @ \cup {key}]
  <1>1. /\ p.finished = player[r].finished /\ p.left = player[r].left
        /\ p.status = player[r].status
    BY PlayerType DEF PlayerRec
  <1> HIDE DEF p
  <1>2. Put(r, p) /\ NoneAsked
    BY DEF OnSyncGSNewExtPoint, p, NoneAsked, Ready
  <1> QED
    BY <1>1, <1>2, StayLoad

LEMMA ExtPointLoad ==
    ASSUME TypeOK, Struct, Loading, NEW r \in Roles, NEW b \in Bounds,
           OnSyncNewExtPointRespond(r, b)
    PROVE  Loading'
  <1>1. player[r] \in PlayerRec /\ UNCHANGED link
    BY PlayerType DEF OnSyncNewExtPointRespond
  <1>2. NoneAsked
    BY <1>1 DEF NoneAsked, Ready
  <1>3. ASSUME NEW points, Put(r, [player[r] EXCEPT !.points = points]) PROVE Loading'
    <2> DEFINE p == [player[r] EXCEPT !.points = points]
    <2>1. /\ p.finished = player[r].finished /\ p.left = player[r].left
          /\ p.status = player[r].status
      BY <1>1 DEF PlayerRec
    <2> QED
      BY <1>2, <1>3, <2>1, StayLoad
  <1>4. CASE UNCHANGED player
    BY <1>2, <1>4, SameLoad
  <1>5. CASE Put(r, [player[r] EXCEPT !.points = @ \cup {b + 1}])
    BY <1>3, <1>5
  <1>6. CASE Put(r, [player[r] EXCEPT !.points = IF NepKeys = 0 THEN @ ELSE @ \cup {b + 1}])
    BY <1>3, <1>6
  <1>7. CASE Put(r, Gone) /\ ~In(r, {"absent"})
    <2>1. In(r, Unattached)
      BY <1>7 DEF OnSyncNewExtPointRespond, Struct, Pending, In, Unattached
    <2> QED
      BY <1>1, <1>7, <2>1, DeleteLoad
  <1> QED
    BY <1>4, <1>5, <1>6, <1>7 DEF OnSyncNewExtPointRespond

LEMMA ConfirmLoad ==
    ASSUME TypeOK, Struct, Loading, NEW r \in Roles, OnConfirmPlayerLoginRespond(r)
    PROVE  Loading'
  <1>1. CASE UNCHANGED <<player, link>>
    BY <1>1, SameLoad DEF NoneAsked, Ready
  <1>2. CASE /\ In(r, {"gsWaitForPermit"})
             /\ Put(r, [player[r] EXCEPT !.status = "gsWaitForLoginLoading", !.timer = 0])
             /\ link' = Asking(r, "enter")
    <2> DEFINE p == [player[r] EXCEPT !.status = "gsWaitForLoginLoading", !.timer = 0]
    <2>1. /\ p.finished = player[r].finished /\ p.left = player[r].left
          /\ p.status = "gsWaitForLoginLoading"
      BY PlayerType DEF PlayerRec
    <2>2. p.status \in Arriving /\ player[r].status \in Arriving
      BY <1>2, <2>1 DEF Arriving, In
    <2>3. NoneAsked
      BY <1>2, AskingNone
    <2> QED
      BY <1>2, <2>1, <2>2, <2>3, ArrivingLoad
  <1>3. CASE player[r].conn \in Conns /\ Detach(player[r].conn)
    BY <1>3, DetachLoad
  <1> QED
    BY <1>1, <1>2, <1>3 DEF OnConfirmPlayerLoginRespond

\* A client that waits for its role's data has not been asked for its readiness.
LEMMA LoadRoleLoad ==
    ASSUME TypeOK, Struct, Loading, NEW r \in Roles, OnLoadRoleData(r) PROVE Loading'
  <1> DEFINE inScene == [player[r] EXCEPT !.scene = player[r].place]
             syncing == [inScene EXCEPT !.status = "gsWaitForSyncClientData"]
  <1>1. inScene \in PlayerRec
    BY PlayerType DEF PlayerRec
  <1>2. /\ inScene.finished = player[r].finished /\ inScene.left = player[r].left
        /\ inScene.status = player[r].status
    BY PlayerType DEF PlayerRec
  <1> HIDE DEF inScene
  <1>3. syncing \in PlayerRec
    BY <1>1 DEF PlayerRec, Status, DetachDeletes
  <1>4. syncing.status = "gsWaitForSyncClientData"
    BY <1>1 DEF PlayerRec
  <1> HIDE DEF syncing
  <1>5. ASSUME NEW p, p.status = "gsWaitForSyncClientData" PROVE Loads(p)
    BY <1>5 DEF Loads, Arriving, Entered
  <1>6. ASSUME In(r, {"gsWaitForRoleData"}), NEW c \in Conns, Ready(c) PROVE link[c].role # r
    <2>1. ~player[r].finished
      BY <1>6 DEF Loading, Loads, Arriving, In
    <2> QED
      BY <1>6, <2>1 DEF Loading, Whole, Ready
  <1>7. CASE UNCHANGED <<player, link>>
    BY <1>7, SameLoad DEF NoneAsked, Ready
  <1>8. CASE Put(r, inScene) /\ UNCHANGED link
    BY <1>2, <1>8, StayLoad DEF NoneAsked, Ready
  <1>9. CASE /\ In(r, {"gsWaitForRoleData"})
             /\ Put(r, [syncing EXCEPT !.left = 0, !.finished = TRUE])
             /\ link' = Asking(r, "ready")
    <2> DEFINE p == [syncing EXCEPT !.left = 0, !.finished = TRUE]
    <2>1. p.status = "gsWaitForSyncClientData" /\ p.left = 0 /\ p.finished
      BY <1>3, <1>4 DEF PlayerRec
    <2>2. Whole(p) /\ Loads(p)
      BY <1>5, <2>1 DEF Whole
    <2> HIDE DEF p
    <2>3. ASSUME NEW c \in Conns, Ready(c)', link'[c].role # r
          PROVE  Ready(c) /\ link'[c].role = link[c].role
      <3>1. link'[c].role = link[c].role /\ (link'[c] = link[c] \/ player[r].conn = c)
        BY <1>9, AskingLinks
      <3>2. player[r].conn = c => link[c].role = r
        BY DomainAssumption DEF Struct, Binding
      <3> QED
        BY <2>3, <3>1, <3>2 DEF Ready
    <2>4. Put(r, p)
      BY <1>9 DEF p
    <2> QED
      BY <2>2, <2>3, <2>4, PutLoad
  <1>10. ASSUME NEW k, In(r, {"gsWaitForRoleData"}), Put(r, [syncing EXCEPT !.left = k]),
                link' = Asking(r, "section") \/ UNCHANGED link
         PROVE  Loading'
    <2> DEFINE p == [syncing EXCEPT !.left = k]
    <2>1. p.status = "gsWaitForSyncClientData"
      BY <1>3, <1>4 DEF PlayerRec
    <2>2. Loads(p)
      BY <1>5, <2>1
    <2>3. NoneAsked
      BY <1>10, AskingNone DEF NoneAsked, Ready
    <2>4. \A c \in Conns : Ready(c)' => Ready(c) /\ link'[c].role = link[c].role /\ link'[c].role # r
      BY <1>6, <1>10, <2>3 DEF NoneAsked
    <2> QED
      BY <1>10, <2>2, <2>4, PutLoad
  <1>11. CASE /\ In(r, {"gsWaitForRoleData"})
              /\ \E n \in 1 .. MaxBlocks :
                   \/ Put(r, [syncing EXCEPT !.left = n - 1]) /\ link' = Asking(r, "section")
                   \/ Put(r, [syncing EXCEPT !.left = n]) /\ UNCHANGED link
    BY <1>10, <1>11
  <1> QED
    BY <1>7, <1>8, <1>9, <1>11 DEF OnLoadRoleData, syncing, inScene

LEMMA SearchMapLoad ==
    ASSUME TypeOK, Loading, NEW r \in Roles, OnSearchMapRespond(r) PROVE Loading'
  <1>1. player[r] \in PlayerRec
    BY PlayerType
  <1>2. CASE UNCHANGED <<player, link>>
    BY <1>2, SameLoad DEF NoneAsked, Ready
  <1>3. ASSUME NEW p, Put(r, p), NoneAsked, In(r, {"gsSearchMap"}),
               p.finished = player[r].finished, p.left = player[r].left,
               p.status \in {"gsSearchMap", "gsPlaying", "gsWaitForNewMapLoading",
                             "gsWaitForTransmissionSave"}
        PROVE  Loading'
    BY <1>3, EnteredLoad DEF Entered, In
  <1>4. ASSUME NEW added \in BOOLEAN, In(r, {"gsSearchMap"}), UNCHANGED link,
               Put(r, [player[r] EXCEPT !.scene = player[r].place,
                                        !.status = IF added THEN "gsPlaying" ELSE @])
        PROVE  Loading'
    <2> DEFINE p == [player[r] EXCEPT !.scene = player[r].place,
                                      !.status = IF added THEN "gsPlaying" ELSE @]
    <2>1. /\ p.finished = player[r].finished /\ p.left = player[r].left
          /\ p.status \in {"gsPlaying", "gsSearchMap"}
      BY <1>1, <1>4 DEF PlayerRec, In
    <2>2. NoneAsked
      BY <1>4 DEF NoneAsked, Ready
    <2> QED
      BY <1>3, <1>4, <2>1, <2>2
  <1>5. ASSUME NEW m \in Maps, In(r, {"gsSearchMap"}), link' = Asking(r, "enter"),
               Put(r, [player[r] EXCEPT !.place = m, !.status = "gsWaitForNewMapLoading"])
        PROVE  Loading'
    <2> DEFINE p == [player[r] EXCEPT !.place = m, !.status = "gsWaitForNewMapLoading"]
    <2>1. /\ p.finished = player[r].finished /\ p.left = player[r].left
          /\ p.status = "gsWaitForNewMapLoading"
      BY <1>1 DEF PlayerRec
    <2>2. NoneAsked
      BY <1>5, AskingNone
    <2> QED
      BY <1>3, <1>5, <2>1, <2>2
  <1>6. CASE /\ In(r, {"gsSearchMap"}) /\ UNCHANGED link
             /\ Put(r, [player[r] EXCEPT !.status = "gsWaitForTransmissionSave",
                                         !.place = NoMap, !.unsaved = {}])
    <2> DEFINE p == [player[r] EXCEPT !.status = "gsWaitForTransmissionSave",
                                      !.place = NoMap, !.unsaved = {}]
    <2>1. /\ p.finished = player[r].finished /\ p.left = player[r].left
          /\ p.status = "gsWaitForTransmissionSave"
      BY <1>1 DEF PlayerRec
    <2>2. NoneAsked
      BY <1>6 DEF NoneAsked, Ready
    <2> QED
      BY <1>3, <1>6, <2>1, <2>2
  <1> QED
    BY <1>2, <1>4, <1>5, <1>6 DEF OnSearchMapRespond

LEMMA TransferLoad ==
    ASSUME TypeOK, Struct, Loading, NEW r \in Roles,
           OnSaveRoleDataRespond(r) \/ OnTransferPlayerRespond(r)
    PROVE  Loading'
  <1>1. CASE UNCHANGED <<player, link>>
    BY <1>1, SameLoad DEF NoneAsked, Ready
  <1>2. CASE /\ In(r, {"gsWaitForTransmissionSave"}) /\ UNCHANGED link
             /\ Put(r, [player[r] EXCEPT !.status = "gsWaitForTransmissionGuid"])
    <2> DEFINE p == [player[r] EXCEPT !.status = "gsWaitForTransmissionGuid"]
    <2>1. /\ p.finished = player[r].finished /\ p.left = player[r].left
          /\ p.status = "gsWaitForTransmissionGuid"
      BY PlayerType DEF PlayerRec
    <2>2. p.status \in Entered /\ player[r].status \in Entered
      BY <1>2, <2>1 DEF Entered, In
    <2>3. NoneAsked
      BY <1>2 DEF NoneAsked, Ready
    <2> QED
      BY <1>2, <2>1, <2>2, <2>3, EnteredLoad
  <1>3. CASE player[r].conn \in Conns /\ Detach(player[r].conn)
    BY <1>3, DetachLoad
  <1> QED
    BY <1>1, <1>2, <1>3 DEF OnSaveRoleDataRespond, OnTransferPlayerRespond

LEMMA ConnectionLoad ==
    ASSUME TypeOK, Struct, Loading, NEW c \in Conns,
           ProcessNewConnection(c) \/ ClientVanishes(c) \/ ConnectionLost(c)
    PROVE  Loading'
  <1>1. CASE ProcessNewConnection(c)
    <2>1. Freed(c)
      BY <1>1 DEF ProcessNewConnection, Freed, Closed, TypeOK
    <2> QED
      BY <1>1, <2>1, FreedNone, SameLoad DEF ProcessNewConnection
  <1>2. CASE ClientVanishes(c)
    BY <1>2, SetClientNone, SameLoad DEF ClientVanishes
  <1>3. CASE ConnectionLost(c)
    BY <1>3, ClosedFreed, ReleasedLoad DEF ConnectionLost, DetachAndShutdown
  <1> QED
    BY <1>1, <1>2, <1>3

LEMMA HandshakeLoad ==
    ASSUME TypeOK, Loading, NEW c \in Conns, NEW r \in Roles, OnHandshakeRequest(c, r)
    PROVE  Loading'
  <1> DEFINE p == [player[r] EXCEPT !.conn = c, !.status = "gsWaitForPermit", !.timer = 0]
  <1>1. /\ p.finished = player[r].finished /\ p.left = player[r].left
        /\ p.status = "gsWaitForPermit"
    BY PlayerType DEF PlayerRec
  <1>2. p.status \in Arriving /\ player[r].status \in Arriving
    BY <1>1 DEF OnHandshakeRequest, Arriving, In
  <1>3. NoneAsked
    BY DEF OnHandshakeRequest, NoneAsked, Ready, TypeOK
  <1> QED
    BY <1>1, <1>2, <1>3, ArrivingLoad DEF OnHandshakeRequest

LEMMA EnterSceneLoad ==
    ASSUME TypeOK, Struct, Loading, NEW c \in Conns, OnApplyEnterScene(c) PROVE Loading'
  <1> DEFINE r == link[c].role
             old == player[r]
  <1>1. r \in Roles /\ old \in PlayerRec
    BY PlayerType DEF OnApplyEnterScene, Sends, Live
  <1>2. CASE /\ old.status = "gsWaitForLoginLoading"
             /\ Becomes(c, [old EXCEPT !.status = "gsWaitForRoleData", !.timer = 0], "idle")
    <2> DEFINE p == [old EXCEPT !.status = "gsWaitForRoleData", !.timer = 0]
    <2>1. /\ p.finished = old.finished /\ p.left = old.left
          /\ p.status = "gsWaitForRoleData"
      BY <1>1 DEF PlayerRec
    <2>2. p.status \in Arriving /\ old.status \in Arriving
      BY <1>2, <2>1 DEF Arriving
    <2>3. NoneAsked
      BY <1>2, SetClientNone DEF Becomes
    <2> QED
      BY <1>1, <1>2, <2>1, <2>2, <2>3, ArrivingLoad DEF Becomes
  <1>3. CASE /\ old.status = "gsWaitForNewMapLoading"
             /\ Becomes(c, [old EXCEPT !.status = "gsPlaying", !.scene = old.place], "idle")
    <2> DEFINE p == [old EXCEPT !.status = "gsPlaying", !.scene = old.place]
    <2>1. /\ p.finished = old.finished /\ p.left = old.left
          /\ p.status = "gsPlaying"
      BY <1>1 DEF PlayerRec
    <2>2. p.status \in Entered /\ old.status \in Entered
      BY <1>3, <2>1 DEF Entered
    <2>3. NoneAsked
      BY <1>3, SetClientNone DEF Becomes
    <2> QED
      BY <1>1, <1>3, <2>1, <2>2, <2>3, EnteredLoad DEF Becomes
  <1> QED
    BY <1>2, <1>3, DetachLoad DEF OnApplyEnterScene

\* Acknowledging a section, the client is asked for its readiness only after the last.
LEMMA SectionLoad ==
    ASSUME TypeOK, Struct, Loading, NEW c \in Conns, OnSyncRoleDataSectionCheckRespond(c)
    PROVE  Loading'
  <1> DEFINE r == link[c].role
             old == player[r]
  <1>1. r \in Roles /\ old \in PlayerRec
    BY PlayerType DEF OnSyncRoleDataSectionCheckRespond, Sends, Live
  <1>2. ASSUME NEW p, p.status = "gsWaitForSyncClientData" PROVE Loads(p)
    BY <1>2 DEF Loads, Arriving, Entered
  <1>3. \A d \in Conns \ {c} : link[d].role # r
    BY <1>1, DomainAssumption DEF Struct, Binding
  <1>4. CASE /\ old.status = "gsWaitForSyncClientData"
             /\ Becomes(c, [old EXCEPT !.left = @ - 1, !.timer = 0], "section")
    <2> DEFINE p == [old EXCEPT !.left = @ - 1, !.timer = 0]
    <2>1. p.status = "gsWaitForSyncClientData"
      BY <1>1, <1>4 DEF PlayerRec
    <2>2. Loads(p)
      BY <1>2, <2>1
    <2>3. /\ link'[c].role = r /\ link'[c].client = "section"
          /\ \A d \in Conns \ {c} : link'[d] = link[d]
      BY <1>4, SetClient DEF Becomes
    <2>4. \A d \in Conns : Ready(d)' => Ready(d) /\ link'[d].role = link[d].role /\ link'[d].role # r
      BY <1>3, <2>3 DEF Ready
    <2> QED
      BY <1>1, <1>4, <2>2, <2>4, PutLoad DEF Becomes
  <1>5. CASE /\ old.status = "gsWaitForSyncClientData" /\ old.left = 0
             /\ Becomes(c, [old EXCEPT !.finished = TRUE, !.timer = 0], "ready")
    <2> DEFINE p == [old EXCEPT !.finished = TRUE, !.timer = 0]
    <2>1. p.status = "gsWaitForSyncClientData" /\ p.left = 0 /\ p.finished
      BY <1>1, <1>5 DEF PlayerRec
    <2>2. Loads(p) /\ Whole(p)
      BY <1>2, <2>1 DEF Whole
    <2>3. link'[c].role = r /\ \A d \in Conns \ {c} : link'[d] = link[d]
      BY <1>5, SetClient DEF Becomes
    <2> HIDE DEF p
    <2>4. ASSUME NEW d \in Conns, Ready(d)', link'[d].role # r
          PROVE  Ready(d) /\ link'[d].role = link[d].role
      BY <2>3, <2>4 DEF Ready
    <2>5. Put(r, p)
      BY <1>5 DEF Becomes, p
    <2> QED
      BY <1>1, <2>2, <2>4, <2>5, PutLoad
  <1> QED
    BY <1>4, <1>5, DetachLoad DEF OnSyncRoleDataSectionCheckRespond

\* An orderly client says that it is ready only when it has been asked.
LEMMA ReadyLoad ==
    ASSUME TypeOK, Struct, Loading, Orderly, NEW c \in Conns, OnClientConfirmReady(c)
    PROVE  Loading'
  <1> DEFINE r == link[c].role
             old == player[r]
  <1>1. r \in Roles /\ old \in PlayerRec
    BY PlayerType DEF OnClientConfirmReady, Sends, Live
  <1>2. Ready(c)
    BY <1>1 DEF OnClientConfirmReady, Sends, Ready
  <1>3. Whole(old)
    BY <1>2 DEF Loading
  <1>4. ASSUME NEW p, Put(r, p), NoneAsked, p.finished = old.finished, p.left = old.left,
               p.status \in {"gsPlaying", "gsDeleting"}
        PROVE  Loading'
    <2>1. Loads(p)
      BY <1>3, <1>4 DEF Loads, Whole, Arriving
    <2> QED
      BY <1>1, <1>4, <2>1, KeepLoad
  <1>5. CASE Becomes(c, [old EXCEPT !.status = "gsPlaying"], "idle")
    <2> DEFINE p == [old EXCEPT !.status = "gsPlaying"]
    <2>1. p.finished = old.finished /\ p.left = old.left /\ p.status = "gsPlaying"
      BY <1>1 DEF PlayerRec
    <2>2. NoneAsked
      BY <1>5, SetClientNone DEF Becomes
    <2> QED
      BY <1>4, <1>5, <2>1, <2>2 DEF Becomes
  <1>6. CASE /\ Put(r, [old EXCEPT !.status = "gsDeleting", !.conn = NoConn, !.timer = 0])
             /\ Unbind(c)
    <2> DEFINE p == [old EXCEPT !.status = "gsDeleting", !.conn = NoConn, !.timer = 0]
    <2>1. p.finished = old.finished /\ p.left = old.left /\ p.status = "gsDeleting"
      BY <1>1 DEF PlayerRec
    <2>2. NoneAsked
      BY <1>6, UnbindFreed, FreedNone
    <2> QED
      BY <1>4, <1>6, <2>1, <2>2
  <1> QED
    BY <1>5, <1>6, DetachLoad DEF OnClientConfirmReady

LEMMA FrameLoad ==
    ASSUME TypeOK, Struct, Loading, NEW r \in Roles, FrameStep(r) PROVE Loading'
  <1>1. ASSUME Aged(r), UNCHANGED link PROVE Loading'
    <2> DEFINE p == [player[r] EXCEPT !.timer = @ + 1]
    <2>1. /\ p.finished = player[r].finished /\ p.left = player[r].left
          /\ p.status = player[r].status
      BY PlayerType DEF PlayerRec
    <2>2. NoneAsked
      BY <1>1 DEF NoneAsked, Ready
    <2> QED
      BY <1>1, <2>1, <2>2, StayLoad DEF Aged
  <1>2. CASE FrameWaitForConnect(r)
    BY <1>1, <1>2, DeleteLoad DEF FrameWaitForConnect, DelPlayer, In, Unattached
  <1>3. ASSUME NEW states, NEW limit, FrameLogin(r, states, limit) PROVE Loading'
    BY <1>1, <1>3, DetachLoad DEF FrameLogin
  <1>4. CASE FrameDeleting(r)
    BY <1>1, <1>4, DeleteLoad DEF FrameDeleting, DelPlayer, In, Unattached
  <1> QED
    BY <1>2, <1>3, <1>4 DEF FrameStep, FrameWaitForPermitOrRoleData, FrameWaitForSyncClientData

LEMMA PlayLoad ==
    ASSUME TypeOK, Struct, Loading, NEW r \in Roles,
           FramePlayingSave(r) \/ FramePlayingEndOfFee(r) \/ Play(r) \/ RealSwitchMap(r)
           \/ LuaKickout(r)
    PROVE  Loading'
  <1>1. player[r] \in PlayerRec
    BY PlayerType
  <1>2. ASSUME UNCHANGED link PROVE NoneAsked
    BY <1>2 DEF NoneAsked, Ready
  <1>3. ASSUME NEW data, Put(r, [player[r] EXCEPT !.unsaved = data]), UNCHANGED link
        PROVE  Loading'
    <2> DEFINE p == [player[r] EXCEPT !.unsaved = data]
    <2>1. /\ p.finished = player[r].finished /\ p.left = player[r].left
          /\ p.status = player[r].status
      BY <1>1 DEF PlayerRec
    <2> QED
      BY <1>2, <1>3, <2>1, StayLoad
  <1>4. CASE FramePlayingSave(r)
    BY <1>3, <1>4 DEF FramePlayingSave
  <1>5. CASE FramePlayingEndOfFee(r) \/ LuaKickout(r)
    BY <1>5, DetachLoad DEF FramePlayingEndOfFee, LuaKickout
  <1>6. CASE Put(r, [player[r] EXCEPT !.fight = ~@]) /\ UNCHANGED link
    <2> DEFINE p == [player[r] EXCEPT !.fight = ~@]
    <2>1. /\ p.finished = player[r].finished /\ p.left = player[r].left
          /\ p.status = player[r].status
      BY <1>1 DEF PlayerRec
    <2> QED
      BY <1>2, <1>6, <2>1, StayLoad
  <1>7. ASSUME NEW x \in Parts, Put(r, [player[r] EXCEPT !.unsaved = @ \cup {x}]), UNCHANGED link
        PROVE  Loading'
    BY <1>3, <1>7
  <1>8. CASE RealSwitchMap(r)
    <2> DEFINE p == [player[r] EXCEPT !.status = "gsSearchMap", !.place = player[r].scene,
                                      !.scene = NoMap, !.unsaved = @ \ {"role"}]
    <2>1. /\ p.finished = player[r].finished /\ p.left = player[r].left
          /\ p.status = "gsSearchMap"
      BY <1>1 DEF PlayerRec
    <2>2. p.status \in Entered /\ player[r].status \in Entered
      BY <1>8, <2>1 DEF RealSwitchMap, Entered, In
    <2>3. Put(r, p) /\ NoneAsked
      BY <1>2, <1>8 DEF RealSwitchMap
    <2> QED
      BY <2>1, <2>2, <2>3, EnteredLoad
  <1> QED
    BY <1>4, <1>5, <1>6, <1>7, <1>8 DEF Play

LEMMA LoadStep ==
    ASSUME CalmCenter
    PROVE  TypeOK /\ Struct /\ Loading /\ Orderly /\ Next => Loading'
  <1> SUFFICES ASSUME TypeOK, Struct, Loading, Orderly, Next PROVE Loading'
    OBVIOUS
  <1>1. ASSUME NEW r \in Roles, RoleStep(r) PROVE Loading'
    BY <1>1, RequestLoad, ExtPointLoad, GSExtPointLoad, ConfirmLoad, LoadRoleLoad, SearchMapLoad,
       TransferLoad, FrameLoad, PlayLoad DEF RoleStep
  <1>2. ASSUME NEW c \in Conns, ConnStep(c) PROVE Loading'
    <2>1. CASE ProcessNewConnection(c) \/ ClientVanishes(c) \/ ConnectionLost(c) \/ PingTimeout(c)
      BY <2>1, ConnectionLoad DEF PingTimeout
    <2>2. CASE OnPlayerLogout(c)
      BY <2>2, DetachLoad DEF OnPlayerLogout
    <2> QED
      BY <1>2, <2>1, <2>2, HandshakeLoad, EnterSceneLoad, SectionLoad, ReadyLoad DEF ConnStep
  <1>3. CASE UNCHANGED <<player, link>>
    BY <1>3, SameLoad DEF NoneAsked, Ready
  <1>4. CASE QuitDetach
    BY <1>4, DetachLoad DEF QuitDetach
  <1> QED
    BY <1>1, <1>2, <1>3, <1>4
    DEF Next, OnCreateMapNotify, OnDeleteMapNotify, PrepareToQuit, QuitStop, CenterLost

\* With clients that answer what they are asked and a calm center, nobody plays,
\* changes the map or is saved at logout before its role has been parsed to the end and FinishRoleDataLoad has run.
THEOREM WholeInWorld == Orderly /\ CalmCenter => (Spec => []FullyLoaded)
  <1> SUFFICES ASSUME Orderly, CalmCenter PROVE Spec => []FullyLoaded
    OBVIOUS
  <1>1. Init => Loading
    <2>1. Gone.status = "absent" /\ Closed.role = NoRole
      BY DEF Gone, Closed
    <2>2. Loads(Gone)
      BY <2>1 DEF Loads, Arriving, Entered
    <2> QED
      BY <2>1, <2>2, DomainAssumption DEF Init, Loading, Ready
  <1>2. TypeOK /\ Struct /\ Loading /\ [Next]_vars => Loading'
    <2>1. Loading /\ UNCHANGED vars => Loading'
      BY SameLoad DEF vars, NoneAsked, Ready
    <2> QED
      BY <2>1, LoadStep
  <1>3. Loading => FullyLoaded
    BY DEF Loading, Loads, Whole, Entered, FullyLoaded, In
  <1>4. Spec => []Struct
    BY SessionStructure, PTL DEF Struct
  <1> QED
    BY <1>1, <1>2, <1>3, <1>4, TypeCorrect, PTL DEF Spec

============================================================================
