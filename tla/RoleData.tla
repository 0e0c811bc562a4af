------------------------------ MODULE RoleData ------------------------------
(***************************************************************************)
(* How a player's two blobs travel between the game server and the game    *)
(* center: KRelayClient asks for both when the client enters, receives     *)
(* each as a stream of packages in one buffer per kind of blob, whichever  *)
(* role it belongs to, and sends both back when the player is saved.       *)
(*                                                                         *)
(* The connection to the center delivers in order.  The center is          *)
(* external: it sends a stream in one piece, admits a role only after      *)
(* DoPlayerLeaveGS told it that the last login is over, and may read a     *)
(* blob from its database after it has gone on to later packages.          *)
(* PlayerSession models what else happens in these statuses.               *)
(***************************************************************************)
EXTENDS Integers, Sequences

CONSTANTS
    Roles,
    NoRole,         \* ERROR_ID
    BufSize,        \* packages m_pbySyncRoleBuffer and m_pbySyncAccountBuffer hold
    MaxPackages,    \* bound: packages of one stream
    MaxLogins,      \* bound: logins of all roles
    MaxSaves,       \* bound: saves of one role
    Fails           \* the center may read late, fail, or send a stream too long

ASSUME RoleDataAssumption ==
    /\ NoRole \notin Roles
    /\ BufSize \in Nat /\ MaxPackages \in Nat /\ MaxLogins \in Nat /\ MaxSaves \in Nat
    /\ Fails \in BOOLEAN

VARIABLES
    status,     \* m_eGameStatus of each role's player, as far as it matters here
    got,        \* the blobs the player has loaded ...
    content,    \* ... and what was in them
    rx,         \* receive buffer of each blob: m_dwSync*ID and the data so far
    up,         \* packages on their way to the center
    down,       \* packages on their way from it
    reads,      \* blobs the center has still to read for a role
    stored,     \* version of each role's data in the center's database
    saved,      \* version of the role's last save here
    logins      \* how many logins the center has admitted

vars == <<status, got, content, rx, up, down, reads, stored, saved, logins>>

Blobs == {"role", "account"}

\* "entering" stands for gsWaitForConnect to gsWaitForLoginLoading, "waiting" for
\* gsWaitForRoleData, "loaded" for every status after it.
Status == {"absent", "entering", "waiting", "loaded"}

\* One package's worth of data: whose, which version's, and which part of it.
Piece == [role : Roles, ver : Nat, at : Nat]

\* "login" stands for the center's login or transfer request.
Down == [kind : {"login"}, role : Roles]
        \cup [kind : {"sync"}, blob : Blobs, role : Roles, at : Nat, piece : Piece]
        \cup [kind : {"load"}, blob : Blobs, role : Roles, n : Nat, ok : BOOLEAN]

Up == [kind : {"load"}, blob : Blobs, role : Roles]
      \cup [kind : {"save"}, blob : Blobs, role : Roles, ver : Nat]
      \cup [kind : {"leave"}, role : Roles]

TypeOK ==
    /\ status \in [Roles -> Status]
    /\ got \in [Roles -> SUBSET Blobs]
    /\ content \in [Roles -> [Blobs -> Seq(Piece)]]
    /\ rx \in [Blobs -> [id : Roles \cup {NoRole}, data : Seq(Piece)]]
    /\ \A b \in Blobs : Len(rx[b].data) <= BufSize
    /\ up \in Seq(Up) /\ down \in Seq(Down)
    /\ reads \in [Roles -> [Blobs -> Nat]]
    /\ stored \in [Roles -> [Blobs -> Nat]]
    /\ saved \in [Roles -> Nat]
    /\ logins \in Nat

Nothing == [b \in Blobs |-> <<>>]

Empty == [id |-> NoRole, data |-> <<>>]

Init ==
    /\ status = [r \in Roles |-> "absent"]
    /\ got = [r \in Roles |-> {}]
    /\ content = [r \in Roles |-> Nothing]
    /\ rx = [b \in Blobs |-> Empty]
    /\ up = <<>> /\ down = <<>>
    /\ reads = [r \in Roles |-> [b \in Blobs |-> 0]]
    /\ stored = [r \in Roles |-> [b \in Blobs |-> 0]]
    /\ saved = [r \in Roles |-> 0]
    /\ logins = 0

-----------------------------------------------------------------------------
(* The game center (external).                                             *)

Load(r, b) == [kind |-> "load", blob |-> b, role |-> r]
Save(r, b, v) == [kind |-> "save", blob |-> b, role |-> r, ver |-> v]
Leave(r) == [kind |-> "leave", role |-> r]

\* n packages with the stored version, and the package that closes the stream.
Stream(r, b, n, ok) ==
    LET piece(k) == [role |-> r, ver |-> stored[r][b], at |-> k] IN
    Append([k \in 1 .. n |-> [kind |-> "sync", blob |-> b, role |-> r, at |-> k - 1,
                              piece |-> piece(k - 1)]],
           [kind |-> "load", blob |-> b, role |-> r, n |-> n, ok |-> ok])

\* Nothing is stored of a role before its first save.
Sends(r, b) ==
    \/ \E n \in (IF stored[r][b] = 0 THEN {0} ELSE 1 .. MaxPackages) :
          /\ Fails \/ n <= BufSize
          /\ down' = down \o Stream(r, b, n, TRUE)
    \/ Fails /\ down' = down \o Stream(r, b, 0, FALSE)

CenterAdmits(r) ==
    /\ logins < MaxLogins
    /\ logins' = logins + 1
    /\ status[r] = "absent"
    /\ \A k \in DOMAIN up : up[k] # Leave(r)
    /\ \A k \in DOMAIN down : down[k].kind = "login" => down[k].role # r
    /\ down' = Append(down, [kind |-> "login", role |-> r])
    /\ UNCHANGED <<status, got, content, rx, up, reads, stored, saved>>

CenterReceives ==
    /\ up # <<>>
    /\ up' = Tail(up)
    /\ LET p == Head(up) IN
       \/ /\ p.kind = "load" /\ Fails
          /\ reads' = [reads EXCEPT ![p.role][p.blob] = @ + 1]
          /\ UNCHANGED <<down, stored>>
       \/ /\ p.kind = "load" /\ ~Fails
          /\ Sends(p.role, p.blob)
          /\ UNCHANGED <<reads, stored>>
       \/ /\ p.kind = "save"
          /\ stored' = [stored EXCEPT ![p.role][p.blob] = p.ver]
          /\ UNCHANGED <<down, reads>>
       \/ /\ p.kind = "leave"
          /\ UNCHANGED <<down, reads, stored>>
    /\ UNCHANGED <<status, got, content, rx, saved, logins>>

CenterReads(r, b) ==
    /\ reads[r][b] > 0
    /\ reads' = [reads EXCEPT ![r][b] = @ - 1]
    /\ Sends(r, b)
    /\ UNCHANGED <<status, got, content, rx, up, stored, saved, logins>>

-----------------------------------------------------------------------------
(* Packages from the center, one per call.                                 *)

Received == down # <<>> /\ down' = Tail(down)

OnPlayerLoginRequest ==
    /\ Received /\ Head(down).kind = "login"
    /\ LET r == Head(down).role IN
       /\ status[r] = "absent"
       /\ status' = [status EXCEPT ![r] = "entering"]
    /\ UNCHANGED <<got, content, rx, up, reads, stored, saved, logins>>

\* Mutant: the buffer may be written one package past its end.
BufferOverruns(b) ==
    /\ Received /\ Head(down).kind = "sync" /\ Head(down).blob = b
    /\ LET p == Head(down) IN
       rx' = IF p.at = Len(rx[b].data) /\ Len(rx[b].data) <= BufSize
             THEN [rx EXCEPT ![b] = [id |-> p.role, data |-> Append(@.data, p.piece)]]
             ELSE [rx EXCEPT ![b] = Empty]
    /\ UNCHANGED <<status, got, content, up, reads, stored, saved, logins>>

\* OnSyncRoleData and OnSyncAccountData.
OnSyncData(b) ==
    /\ Received /\ Head(down).kind = "sync" /\ Head(down).blob = b
    /\ LET p == Head(down) IN
       rx' = IF /\ p.at = Len(rx[b].data)
                /\ Len(rx[b].data) < BufSize
                /\ p.at = 0 \/ p.role = rx[b].id
             THEN [rx EXCEPT ![b] = [id |-> p.role, data |-> Append(@.data, p.piece)]]
             ELSE [rx EXCEPT ![b] = Empty]
    /\ UNCHANGED <<status, got, content, up, reads, stored, saved, logins>>

\* The stream in buffer b is whole, and it is role r's.
Whole(b, p) ==
    /\ p.n = Len(rx[b].data)
    /\ rx[b].id \in {p.role, NoRole}
    /\ p.ok

Takes(r, b) ==
    /\ got' = [got EXCEPT ![r] = @ \cup {b}]
    /\ content' = [content EXCEPT ![r][b] = rx[b].data]

\* The scene the role stands in is there, and the blob's checksum is right.
OnLoadRoleData ==
    /\ Received /\ Head(down).kind = "load" /\ Head(down).blob = "role"
    /\ LET p == Head(down) IN
       IF Whole("role", p) /\ status[p.role] = "waiting"
       THEN Takes(p.role, "role") /\ status' = [status EXCEPT ![p.role] = "loaded"]
       ELSE UNCHANGED <<got, content, status>>
    /\ rx' = [rx EXCEPT !["role"] = Empty]
    /\ UNCHANGED <<up, reads, stored, saved, logins>>

OnLoadAccountData ==
    /\ Received /\ Head(down).kind = "load" /\ Head(down).blob = "account"
    /\ LET p == Head(down) IN
       IF Whole("account", p) /\ status[p.role] = "waiting"
       THEN Takes(p.role, "account")
       ELSE UNCHANGED <<got, content>>
    /\ rx' = [rx EXCEPT !["account"] = Empty]
    /\ UNCHANGED <<status, up, reads, stored, saved, logins>>

-----------------------------------------------------------------------------
(* What the players do.                                                    *)

\* Mutant: each request prepares its buffer.
BothBuffersReset(r) ==
    /\ status[r] = "entering"
    /\ rx' = [b \in Blobs |-> [id |-> r, data |-> <<>>]]
    /\ up' = up \o <<Load(r, "account"), Load(r, "role")>>
    /\ status' = [status EXCEPT ![r] = "waiting"]
    /\ UNCHANGED <<got, content, down, reads, stored, saved, logins>>

\* OnApplyEnterScene: DoLoadAccountDataRequest, which also prepares the buffer for
\* the answer, and DoLoadRoleDataRequest, which does not.
OnApplyEnterScene(r) ==
    /\ status[r] = "entering"
    /\ rx' = [rx EXCEPT !["account"] = [id |-> r, data |-> <<>>]]
    /\ up' = up \o <<Load(r, "account"), Load(r, "role")>>
    /\ status' = [status EXCEPT ![r] = "waiting"]
    /\ UNCHANGED <<got, content, down, reads, stored, saved, logins>>

Saves(r) == <<Save(r, "role", saved[r] + 1), Save(r, "account", saved[r] + 1)>>

\* SaveRoleData, then SaveAccountData, as the player has changed since the last save.
PeriodicSave(r) ==
    /\ status[r] = "loaded" /\ saved[r] < MaxSaves
    /\ saved' = [saved EXCEPT ![r] = @ + 1]
    /\ up' = up \o Saves(r)
    /\ UNCHANGED <<status, got, content, rx, down, reads, stored, logins>>

\* KSO3World::DelPlayer.
Deleted(r) ==
    /\ status' = [status EXCEPT ![r] = "absent"]
    /\ got' = [got EXCEPT ![r] = {}]
    /\ content' = [content EXCEPT ![r] = Nothing]

\* Mutant: the center is told of the end of the login before it gets the data.
LeavesBeforeSaving(r) ==
    /\ status[r] = "loaded" /\ saved[r] < MaxSaves
    /\ saved' = [saved EXCEPT ![r] = @ + 1]
    /\ up' = <<Leave(r)>> \o up \o Saves(r)
    /\ Deleted(r)
    /\ UNCHANGED <<rx, down, reads, stored, logins>>

\* The end of gsDeleting.
LogoutSave(r) ==
    /\ status[r] = "loaded" /\ saved[r] < MaxSaves
    /\ saved' = [saved EXCEPT ![r] = @ + 1]
    /\ up' = Append(up \o Saves(r), Leave(r))
    /\ Deleted(r)
    /\ UNCHANGED <<rx, down, reads, stored, logins>>

\* Detach, or a timer, in a status in which the player is not saved.
LoginAbandoned(r) ==
    /\ status[r] # "absent"
    /\ up' = Append(up, Leave(r))
    /\ Deleted(r)
    /\ UNCHANGED <<rx, down, reads, stored, saved, logins>>

Next ==
    \/ CenterReceives
    \/ OnPlayerLoginRequest \/ OnLoadRoleData \/ OnLoadAccountData
    \/ \E b \in Blobs : OnSyncData(b)
    \/ \E r \in Roles :
          \/ CenterAdmits(r) \/ \E b \in Blobs : CenterReads(r, b)
          \/ OnApplyEnterScene(r) \/ PeriodicSave(r) \/ LogoutSave(r) \/ LoginAbandoned(r)

Spec == Init /\ [][Next]_vars

-----------------------------------------------------------------------------

\* What is loaded is what was last saved here: one whole stream of this role and
\* of its newest version, although buffers are shared by all roles, streams may be
\* cut short or too long for the buffer, and an answer may come so late that it
\* meets the next login.  (Without it a relogin rolls a player back.)
LoadedFresh ==
    [][\A r \in Roles : \A b \in got'[r] \ got[r] :
         LET c == content'[r][b] IN
         /\ saved[r] > 0 => c # <<>>
         /\ \A k \in DOMAIN c : c[k] = [role |-> r, ver |-> saved[r], at |-> k - 1]]_vars

\* A stream that fits the buffer is loaded if its player still waits for it: nothing
\* an earlier stream left behind, cut off, too long or rejected, makes it fail.
RoleArrives ==
    [][\A r \in Roles :
         (/\ down # <<>> /\ down' = Tail(down) /\ status[r] = "waiting"
          /\ \E n \in 0 .. BufSize :
                Head(down) = [kind |-> "load", blob |-> "role", role |-> r, n |-> n, ok |-> TRUE])
         => status'[r] = "loaded"]_vars

\* "V246 loads account-scoped state before the role block stream" (the comment in
\* OnApplyEnterScene): a role that has been saved before is loaded only when its
\* account is.  SaveAccountData knows nothing of it, and would replace the account's
\* stored data by those of a player who has none.
AccountBeforeRole == \A r \in Roles : content[r]["role"] # <<>> => "account" \in got[r]

=============================================================================
