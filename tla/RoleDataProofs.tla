--------------------------- MODULE RoleDataProofs ---------------------------
(* Theorems about RoleData, for any number of roles, packages, logins and   *)
(* saves and any size of the buffers, with a center that reads late, fails  *)
(* or sends streams too long: what is loaded is what was saved last, and a  *)
(* stream that fits its buffer is loaded if it is waited for.               *)
EXTENDS RoleData, SequenceTheorems, TLAPS

Places(q) == 1 .. Len(q)

-----------------------------------------------------------------------------
(* The inductive invariant.                                                *)

\* How far the stream has come of which message x is a part.
Place(x) == IF x.kind = "sync" THEN x.at ELSE IF x.kind = "load" THEN x.n ELSE 0

Follows(x, y) ==
    /\ y.kind \in {"sync", "load"} /\ y.blob = x.blob /\ y.role = x.role
    /\ Place(y) = x.at + 1

\* Streams are whole, one after the other; the first one may have begun.
Links(q) == \A k \in Places(q) :
    /\ q[k].kind = "sync" =>
          /\ q[k].piece.role = q[k].role /\ q[k].piece.at = q[k].at
          /\ k < Len(q) /\ Follows(q[k], q[k + 1])
    /\ k > 1 /\ Place(q[k]) > 0 => q[k - 1].kind = "sync"
Linked == Links(down)

\* d is the beginning of a stream of role r, n packages long.
Prefix(d, r, n) ==
    Len(d) = n /\ \A k \in 1 .. n : d[k].role = r /\ d[k].at = k - 1

Begun(b) == Len(down) > 0 /\ Place(down[1]) > 0 /\ down[1].blob = b

\* A buffer holds what has come of the stream that has begun, unless the stream is
\* too long for it or, in the account's case, the buffer was reset meanwhile.
Buffered(b) ==
    IF Begun(b)
    THEN \/ rx[b].data = <<>> /\ (b = "role" => Place(down[1]) > BufSize)
         \/ rx[b].id = down[1].role /\ Prefix(rx[b].data, down[1].role, Place(down[1]))
    ELSE rx[b].data = <<>>

Buffers ==
    /\ \A b \in Blobs : Buffered(b)
    /\ rx["role"].data = <<>> => rx["role"].id = NoRole

IsSave(x, r, b) == x.kind = "save" /\ x.role = r /\ x.blob = b

NoSave(q, r, b) == \A k \in Places(q) : ~IsSave(q[k], r, b)

\* The last version saved is the last one on its way, or has been stored.
LastSaves == \A r \in Roles, b \in Blobs :
    /\ NoSave(up, r, b) => stored[r][b] = saved[r]
    /\ \A k \in Places(up) :
          /\ IsSave(up[k], r, b)
          /\ \A m \in (k + 1) .. Len(up) : ~IsSave(up[m], r, b)
          => up[k].ver = saved[r]

\* The center learns of the end of a login after it gets its data.
SavedThenLeft == \A r \in Roles, b \in Blobs, k \in Places(up) :
    status[r] = "absent" /\ IsSave(up[k], r, b)
    => \E m \in (k + 1) .. Len(up) : up[m] = Leave(r)

InLogin(r) == status[r] \in {"entering", "waiting"}

IsLogin(x, r) == x.kind = "login" /\ x.role = r

\* A role comes to be in a login, or is in one: then its data are stored.
Expected(r) == InLogin(r) \/ \E k \in Places(down) : IsLogin(down[k], r)

Logins == \A r \in Roles :
    /\ \A k \in Places(down) : IsLogin(down[k], r) =>
          /\ status[r] = "absent"
          /\ \A m \in Places(down) : IsLogin(down[m], r) => m = k
    /\ Expected(r) => \A b \in Blobs : NoSave(up, r, b)

\* What x carries of role r is what was saved last.
Newest(x, r) ==
    /\ x.kind = "sync" /\ x.role = r => x.piece.ver = saved[r]
    /\ x.kind = "load" /\ x.role = r /\ x.ok /\ saved[r] > 0 => x.n > 0

\* Nothing older than a role's last save comes after its login.
Fresh == \A r \in Roles :
    /\ \A m \in Places(down) :
          InLogin(r) \/ (\E k \in 1 .. (m - 1) : IsLogin(down[k], r)) => Newest(down[m], r)
    /\ InLogin(r) => \A b \in Blobs : \A k \in Places(rx[b].data) :
          rx[b].data[k].role = r => rx[b].data[k].ver = saved[r]

\* Logins rests on SavedThenLeft, Fresh on LastSaves and Logins, Buffers on Linked.
IInv == TypeOK /\ Linked /\ Buffers /\ LastSaves /\ SavedThenLeft /\ Logins /\ Fresh

-----------------------------------------------------------------------------
(* Queues.                                                                 *)

\* The first message of a queue, and the others.
LEMMA TailOf ==
    ASSUME NEW S, NEW q \in Seq(S), q # <<>>
    PROVE  /\ Tail(q) \in Seq(S) /\ Head(q) = q[1] /\ q[1] \in S
           /\ Len(q) \in Nat /\ Len(q) > 0 /\ Len(Tail(q)) = Len(q) - 1
           /\ \A k \in Places(Tail(q)) : k + 1 \in Places(q) /\ Tail(q)[k] = q[k + 1]
  <1>1. Len(q) \in Nat /\ Len(q) > 0 /\ q[1] \in S
    BY EmptySeq, LenProperties
  <1>2. Tail(q) \in Seq(S) /\ Head(q) = q[1] /\ Len(Tail(q)) = Len(q) - 1
        /\ \A k \in 1 .. Len(Tail(q)) : Tail(q)[k] = q[k + 1]
    BY HeadTailProperties
  <1> QED
    BY <1>1, <1>2 DEF Places

\* z is q with s behind it.
Joins(q, s, z) ==
    /\ Len(q) \in Nat /\ Len(s) \in Nat /\ Len(z) = Len(q) + Len(s)
    /\ \A k \in Places(q) : z[k] = q[k]
    /\ \A k \in Places(s) : z[Len(q) + k] = s[k]
    /\ \A k \in Places(z) : k \in Places(q) \/ \E j \in Places(s) : k = Len(q) + j

\* What \o does, as Joins.
LEMMA Joined ==
    ASSUME NEW S, NEW q \in Seq(S), NEW s \in Seq(S)
    PROVE  q \o s \in Seq(S) /\ Joins(q, s, q \o s)
  <1> DEFINE z == q \o s
  <1>1. Len(q) \in Nat /\ Len(s) \in Nat
    BY LenProperties
  <1>2. z \in Seq(S) /\ Len(z) = Len(q) + Len(s)
        /\ \A k \in 1 .. Len(q) + Len(s) : z[k] = IF k <= Len(q) THEN q[k] ELSE s[k - Len(q)]
    BY ConcatProperties
  <1> HIDE DEF z
  <1>3. ASSUME NEW k \in Places(z), k \notin Places(q) PROVE \E j \in Places(s) : k = Len(q) + j
    <2>1. k - Len(q) \in Places(s) /\ k = Len(q) + (k - Len(q))
      BY <1>1, <1>2, <1>3 DEF Places
    <2> QED
      BY <2>1
  <1>4. \A k \in Places(q) : z[k] = q[k]
    BY <1>1, <1>2 DEF Places
  <1>5. \A k \in Places(s) : z[Len(q) + k] = s[k]
    BY <1>1, <1>2 DEF Places
  <1>6. Joins(q, s, z)
    BY <1>1, <1>2, <1>3, <1>4, <1>5, Zenon DEF Joins
  <1> QED
    BY <1>2, <1>6 DEF z

LEMMA JoinedTwice ==
    ASSUME NEW q, NEW s, NEW u, NEW y, NEW z, Joins(q, s, y), Joins(y, u, z), Len(s) = 2, Len(u) = 1,
           NEW t, Len(t) = 3, t[1] = s[1], t[2] = s[2], t[3] = u[1]
    PROVE  Joins(q, t, z)
  <1>1. /\ Len(q) \in Nat /\ Len(y) = Len(q) + 2 /\ Len(z) = Len(q) + 3
        /\ \A k \in 1 .. Len(q) : y[k] = q[k]
        /\ \A k \in 1 .. 2 : y[Len(q) + k] = s[k]
    BY DEF Joins, Places
  <1>2. /\ \A k \in 1 .. Len(y) : z[k] = y[k]
        /\ \A k \in 1 .. 1 : z[Len(y) + k] = u[k]
    BY DEF Joins, Places
  <1>3. \A k \in 1 .. Len(q) : z[k] = q[k]
    BY <1>1, <1>2
  <1>4. z[Len(q) + 1] = s[1] /\ z[Len(q) + 2] = s[2] /\ z[Len(q) + 3] = u[1]
    <2>1. Len(q) + 1 \in 1 .. Len(y) /\ Len(q) + 2 \in 1 .. Len(y) /\ Len(q) + 3 = Len(y) + 1
      BY <1>1
    <2>2. y[Len(q) + 1] = s[1] /\ y[Len(q) + 2] = s[2]
      BY <1>1
    <2>3. z[Len(y) + 1] = u[1]
      BY <1>2
    <2> QED
      BY <1>2, <2>1, <2>2, <2>3
  <1>5. \A k \in 1 .. 3 : z[Len(q) + k] = t[k]
    <2>1. \A k \in 1 .. 3 : k = 1 \/ k = 2 \/ k = 3
      OBVIOUS
    <2> QED
      BY <1>4, <2>1
  <1>6. ASSUME NEW k \in 1 .. Len(z), k \notin 1 .. Len(q) PROVE \E j \in 1 .. 3 : k = Len(q) + j
    <2>1. k - Len(q) \in 1 .. 3 /\ k = Len(q) + (k - Len(q))
      BY <1>1, <1>6
    <2> QED
      BY <2>1
  <1> QED
    BY <1>1, <1>3, <1>5, <1>6 DEF Joins, Places

\* Append is \o with one message.
LEMMA Appended ==
    ASSUME NEW S, NEW q \in Seq(S), NEW x \in S
    PROVE  /\ <<x>> \in Seq(S) /\ Append(q, x) = q \o <<x>>
           /\ Len(<<x>>) = 1 /\ <<x>>[1] = x /\ Places(<<x>>) = {1}
  <1>1. <<x>> \in Seq(S) /\ Len(<<x>>) = 1 /\ <<x>>[1] = x
    OBVIOUS
  <1>2. Append(q, x) = q \o <<x>>
    BY AppendIsConcat
  <1> QED
    BY <1>1, <1>2 DEF Places

-----------------------------------------------------------------------------
(* Streams.                                                                *)

Sync(r, b, k)    == [kind |-> "sync", blob |-> b, role |-> r, at |-> k - 1,
                     piece |-> [role |-> r, ver |-> stored[r][b], at |-> k - 1]]
Close(r, b, n, ok) == [kind |-> "load", blob |-> b, role |-> r, n |-> n, ok |-> ok]

\* s is a stream of n packages.
IsStream(s, r, b, n, ok) ==
    /\ n \in Nat /\ s \in Seq(Down) /\ Len(s) = n + 1
    /\ \A k \in 1 .. n : s[k] = Sync(r, b, k)
    /\ s[n + 1] = Close(r, b, n, ok)

LEMMA StreamIs ==
    ASSUME TypeOK, NEW r \in Roles, NEW b \in Blobs, NEW n \in Nat, NEW ok \in BOOLEAN
    PROVE  IsStream(Stream(r, b, n, ok), r, b, n, ok)
  <1> DEFINE f == [k \in 1 .. n |-> Sync(r, b, k)]
             x == Close(r, b, n, ok)
  <1>1. Stream(r, b, n, ok) = Append(f, x)
    BY Zenon DEF Stream, Sync, Close
  <1>2. \A k \in 1 .. n : Sync(r, b, k) \in Down
    <2>1. stored[r][b] \in Nat
      BY DEF TypeOK
    <2> QED
      BY <2>1 DEF Sync, Down, Piece
  <1>3. x \in Down
    BY DEF Close, Down
  <1>4. f \in Seq(Down) /\ Len(f) = n /\ \A k \in 1 .. n : f[k] = Sync(r, b, k)
    <2>1. f \in [1 .. n -> Down]
      BY <1>2
    <2> QED
      BY <2>1
  <1> HIDE DEF f, x
  <1>5. Append(f, x) \in Seq(Down) /\ Len(Append(f, x)) = n + 1
        /\ \A k \in 1 .. n : Append(f, x)[k] = f[k]
        /\ Append(f, x)[n + 1] = x
    BY <1>3, <1>4, AppendProperties
  <1> QED
    BY <1>1, <1>4, <1>5 DEF IsStream, x

\* What Sends adds.
Sent(s, r, b) == \E n, ok : IsStream(s, r, b, n, ok) /\ (ok /\ stored[r][b] > 0 => n > 0)

LEMMA SendsStream ==
    ASSUME TypeOK, NEW r \in Roles, NEW b \in Blobs, Sends(r, b)
    PROVE  \E s : Sent(s, r, b) /\ down' = down \o s
  <1>1. CASE \E n \in (IF stored[r][b] = 0 THEN {0} ELSE 1 .. MaxPackages) :
                down' = down \o Stream(r, b, n, TRUE)
    <2>1. PICK n \in (IF stored[r][b] = 0 THEN {0} ELSE 1 .. MaxPackages) :
                down' = down \o Stream(r, b, n, TRUE)
      BY <1>1
    <2>2. n \in Nat /\ (stored[r][b] > 0 => n > 0)
      BY RoleDataAssumption
    <2>3. IsStream(Stream(r, b, n, TRUE), r, b, n, TRUE)
      BY <2>2, StreamIs
    <2> QED
      BY <2>1, <2>2, <2>3, Zenon DEF Sent
  <1>2. CASE down' = down \o Stream(r, b, 0, FALSE)
    <2>1. IsStream(Stream(r, b, 0, FALSE), r, b, 0, FALSE)
      BY StreamIs
    <2> QED
      BY <1>2, <2>1, Zenon DEF Sent
  <1> QED
    BY <1>1, <1>2, Zenon DEF Sends

\* A stream is linked, starts at 0, and is of one role.
LEMMA SentFacts ==
    ASSUME TypeOK, NEW r \in Roles, NEW b \in Blobs, NEW s, Sent(s, r, b)
    PROVE  /\ s \in Seq(Down) /\ Len(s) \in Nat /\ Len(s) > 0 /\ Links(s) /\ Place(s[1]) = 0
           /\ \A k \in Places(s) :
                /\ s[k].kind # "login" /\ s[k].role = r
                /\ stored[r][b] = saved[r] => Newest(s[k], r)
  <1>1. PICK n, ok : IsStream(s, r, b, n, ok) /\ (ok /\ stored[r][b] > 0 => n > 0)
    BY Zenon DEF Sent
  <1>2. n \in Nat /\ s \in Seq(Down) /\ Len(s) = n + 1
        /\ (\A k \in 1 .. n : s[k] = Sync(r, b, k)) /\ s[n + 1] = Close(r, b, n, ok)
    BY <1>1, Zenon DEF IsStream
  <1>3. \A k \in Places(s) : k \in 1 .. n \/ k = n + 1
    BY <1>2 DEF Places
  <1>4. ASSUME NEW k \in 1 .. n
        PROVE  /\ s[k].kind = "sync" /\ s[k].role = r /\ s[k].blob = b /\ s[k].at = k - 1
               /\ s[k].piece.role = r /\ s[k].piece.at = k - 1 /\ s[k].piece.ver = stored[r][b]
               /\ Place(s[k]) = k - 1
    <2>1. s[k] = Sync(r, b, k)
      BY <1>2
    <2> QED
      BY <2>1 DEF Sync, Place
  <1>5. LET x == s[n + 1] IN x.kind = "load" /\ x.role = r /\ x.blob = b /\ x.n = n /\ x.ok = ok /\ Place(x) = n
    BY <1>2 DEF Close, Place
  <1>6. Place(s[1]) = 0
    <2>1. CASE n = 0
      BY <1>5, <2>1
    <2>2. CASE n > 0
      BY <1>2, <1>4, <2>2
    <2> QED
      BY <1>2, <2>1, <2>2
  <1>7. Links(s)
    <2> SUFFICES ASSUME NEW k \in Places(s)
                 PROVE  /\ s[k].kind = "sync" =>
                              /\ s[k].piece.role = s[k].role /\ s[k].piece.at = s[k].at
                              /\ k < Len(s) /\ Follows(s[k], s[k + 1])
                        /\ k > 1 /\ Place(s[k]) > 0 => s[k - 1].kind = "sync"
      BY Zenon DEF Links
    <2>1. CASE k \in 1 .. n
      <3>1. /\ s[k].piece.role = s[k].role /\ s[k].piece.at = s[k].at
            /\ s[k].role = r /\ s[k].blob = b /\ s[k].at = k - 1
        BY <1>4, <2>1
      <3>2. k < Len(s)
        BY <1>2, <2>1
      <3>3. /\ s[k + 1].kind \in {"sync", "load"} /\ s[k + 1].role = r /\ s[k + 1].blob = b
            /\ Place(s[k + 1]) = k
        <4>1. CASE k + 1 \in 1 .. n
          <5>1. (k + 1) - 1 = k
            BY <2>1
          <5> QED
            BY <1>4, <4>1, <5>1
        <4>2. CASE k = n
          BY <1>5, <4>2
        <4> QED
          BY <1>2, <2>1, <4>1, <4>2
      <3>4. k > 1 => s[k - 1].kind = "sync"
        BY <1>2, <1>4, <2>1
      <3>5. Follows(s[k], s[k + 1])
        BY <2>1, <3>1, <3>3 DEF Follows
      <3> QED
        BY <3>1, <3>2, <3>4, <3>5
    <2>2. CASE k = n + 1
      BY <1>2, <1>4, <1>5, <2>2
    <2> QED
      BY <1>3, <2>1, <2>2
  <1>8. ASSUME NEW k \in Places(s)
        PROVE  /\ s[k].kind # "login" /\ s[k].role = r
               /\ stored[r][b] = saved[r] => Newest(s[k], r)
    <2>1. CASE k \in 1 .. n
      BY <1>4, <2>1 DEF Newest
    <2>2. CASE k = n + 1
      BY <1>1, <1>5, <2>2 DEF Newest
    <2> QED
      BY <1>3, <2>1, <2>2
  <1> QED
    BY <1>2, <1>6, <1>7, <1>8

\* The messages from the center, by kind.
LEMMA DownIs ==
    ASSUME NEW x \in Down
    PROVE  /\ x.kind \in {"login", "sync", "load"} /\ x.role \in Roles
           /\ x.kind = "sync" => x.blob \in Blobs /\ x.at \in Nat /\ x.piece \in Piece
           /\ x.kind = "load" => x.blob \in Blobs /\ x.n \in Nat /\ x.ok \in BOOLEAN
           /\ Place(x) \in Nat
  BY DEF Down, Place

LEMMA UpIs ==
    ASSUME NEW x \in Up
    PROVE  /\ x.kind \in {"load", "save", "leave"} /\ x.role \in Roles
           /\ x.kind = "load" => x.blob \in Blobs
           /\ x.kind = "save" => x.blob \in Blobs /\ x.ver \in Nat
  BY DEF Up

\* The head is the first message, and the others move up.
LEMMA Taken ==
    ASSUME TypeOK, Received
    PROVE  /\ Head(down) = down[1] /\ down[1] \in Down /\ down' \in Seq(Down)
           /\ Len(down) \in Nat /\ Len(down) > 0 /\ Len(down') = Len(down) - 1
           /\ \A k \in Places(down') : k + 1 \in Places(down) /\ down'[k] = down[k + 1]
  <1>1. down \in Seq(Down) /\ down # <<>> /\ down' = Tail(down)
    BY DEF TypeOK, Received
  <1> QED
    BY <1>1, TailOf

\* What is sent comes behind what is on its way.
LEMMA SentComes ==
    ASSUME TypeOK, NEW r \in Roles, NEW b \in Blobs, NEW s, Sent(s, r, b), down' = down \o s
    PROVE  down' \in Seq(Down) /\ Joins(down, s, down')
  <1>1. s \in Seq(Down) /\ down \in Seq(Down)
    BY SentFacts DEF TypeOK
  <1> QED
    BY <1>1, Joined

Login(r) == [kind |-> "login", role |-> r]

\* So does a login.
LEMMA AdmitComes ==
    ASSUME TypeOK, NEW r \in Roles, CenterAdmits(r)
    PROVE  /\ down' \in Seq(Down) /\ Joins(down, <<Login(r)>>, down')
           /\ Len(<<Login(r)>>) = 1 /\ <<Login(r)>>[1] = Login(r) /\ Places(<<Login(r)>>) = {1}
  <1>1. down' = Append(down, Login(r)) /\ down \in Seq(Down) /\ Login(r) \in Down
    BY DEF CenterAdmits, TypeOK, Login, Down
  <1> HIDE DEF Login
  <1>2. <<Login(r)>> \in Seq(Down) /\ down' = down \o <<Login(r)>>
        /\ Len(<<Login(r)>>) = 1 /\ <<Login(r)>>[1] = Login(r) /\ Places(<<Login(r)>>) = {1}
    BY <1>1, Appended
  <1>3. down \o <<Login(r)>> \in Seq(Down) /\ Joins(down, <<Login(r)>>, down \o <<Login(r)>>)
    BY <1>1, <1>2, Joined
  <1> QED
    BY <1>2, <1>3, Zenon

\* The messages each action sends.
LoadsOf(r)  == <<Load(r, "account"), Load(r, "role")>>
Last(r)     == <<Save(r, "role", saved[r] + 1), Save(r, "account", saved[r] + 1), Leave(r)>>

\* t goes out at the end.
Goes(t) == t \in Seq(Up) /\ up' \in Seq(Up) /\ Joins(up, t, up')

\* What each action sends to the center comes behind what is on its way.
LEMMA SendsUp ==
    ASSUME TypeOK, NEW r \in Roles
    PROVE  /\ OnApplyEnterScene(r) => Goes(LoadsOf(r))
           /\ PeriodicSave(r) => Goes(Saves(r))
           /\ LogoutSave(r) => Goes(Last(r))
           /\ LoginAbandoned(r) => Goes(<<Leave(r)>>)
  <1>1. up \in Seq(Up) /\ saved[r] + 1 \in Nat
    BY DEF TypeOK
  <1>2. /\ Load(r, "account") \in Up /\ Load(r, "role") \in Up /\ Leave(r) \in Up
        /\ Save(r, "role", saved[r] + 1) \in Up /\ Save(r, "account", saved[r] + 1) \in Up
    BY <1>1 DEF Load, Leave, Save, Up, Blobs
  <1> HIDE DEF Load, Leave, Save, Up, Blobs
  <1>3. LoadsOf(r) \in Seq(Up) /\ Saves(r) \in Seq(Up) /\ Last(r) \in Seq(Up) /\ <<Leave(r)>> \in Seq(Up)
    BY <1>2 DEF LoadsOf, Saves, Last
  <1>4. OnApplyEnterScene(r) => up' = up \o LoadsOf(r)
    BY Zenon DEF OnApplyEnterScene, LoadsOf
  <1>5. PeriodicSave(r) => up' = up \o Saves(r)
    BY Zenon DEF PeriodicSave
  <1>6. ASSUME LogoutSave(r) PROVE Goes(Last(r))
    <2> DEFINE s == Saves(r)
               u == <<Leave(r)>>
    <2>1. up' = Append(up \o s, Leave(r))
      BY <1>6, Zenon DEF LogoutSave
    <2>2. up \o s \in Seq(Up) /\ Joins(up, s, up \o s)
      BY <1>1, <1>3, Joined
    <2>3. up' = (up \o s) \o u
      BY <1>2, <2>1, <2>2, AppendIsConcat
    <2>4. up' \in Seq(Up) /\ Joins(up \o s, u, up')
      BY <1>3, <2>2, <2>3, Joined
    <2>5. /\ Len(s) = 2 /\ s[1] = Save(r, "role", saved[r] + 1) /\ s[2] = Save(r, "account", saved[r] + 1)
          /\ Len(u) = 1 /\ u[1] = Leave(r)
      BY DEF Saves
    <2>6. /\ Len(Last(r)) = 3 /\ Last(r)[1] = Save(r, "role", saved[r] + 1)
          /\ Last(r)[2] = Save(r, "account", saved[r] + 1) /\ Last(r)[3] = Leave(r)
      BY DEF Last
    <2> HIDE DEF s, u
    <2>7. Len(s) = 2 /\ Len(u) = 1 /\ Len(Last(r)) = 3 /\ Last(r)[1] = s[1] /\ Last(r)[2] = s[2]
          /\ Last(r)[3] = u[1]
      BY <2>5, <2>6, Zenon
    <2>8. Joins(up, Last(r), up')
      BY <2>2, <2>4, <2>7, JoinedTwice
    <2> QED
      BY <1>3, <2>4, <2>8, Zenon DEF Goes
  <1>7. ASSUME LoginAbandoned(r) PROVE up' = up \o <<Leave(r)>>
    <2>1. up' = Append(up, Leave(r))
      BY <1>7, Zenon DEF LoginAbandoned
    <2> QED
      BY <1>1, <1>2, <2>1, AppendIsConcat
  <1>8. ASSUME NEW t \in Seq(Up), up' = up \o t PROVE Goes(t)
    <2>1. up \o t \in Seq(Up) /\ Joins(up, t, up \o t)
      BY <1>1, Joined
    <2> QED
      BY <1>8, <2>1, Zenon DEF Goes
  <1> QED
    BY <1>3, <1>4, <1>5, <1>6, <1>7, <1>8, Zenon

-----------------------------------------------------------------------------
(* Streams stay linked.                                                    *)

Began(s) ==
    /\ down' \in Seq(Down) /\ Joins(down, s, down')
    /\ Len(s) > 0 /\ Links(s) /\ Place(s[1]) = 0

LEMMA SendsBegan ==
    ASSUME TypeOK, NEW r \in Roles, NEW b \in Blobs, Sends(r, b)
    PROVE  \E s : Began(s)
  <1>1. PICK s : Sent(s, r, b) /\ down' = down \o s
    BY SendsStream
  <1>2. down' \in Seq(Down) /\ Joins(down, s, down')
    BY <1>1, SentComes
  <1>3. Len(s) > 0 /\ Links(s) /\ Place(s[1]) = 0
    BY <1>1, SentFacts
  <1> QED
    BY <1>2, <1>3, Zenon DEF Began

LEMMA AdmitsBegan ==
    ASSUME TypeOK, NEW r \in Roles, CenterAdmits(r)
    PROVE  Began(<<Login(r)>>)
  <1> DEFINE s == <<Login(r)>>
  <1>1. /\ down' \in Seq(Down) /\ Joins(down, s, down')
        /\ Len(s) = 1 /\ s[1] = Login(r) /\ Places(s) = {1}
    BY AdmitComes
  <1> HIDE DEF s
  <1>2. s[1].kind = "login"
    BY <1>1 DEF Login
  <1>3. Links(s) /\ Place(s[1]) = 0
    BY <1>1, <1>2 DEF Links, Place
  <1> QED
    BY <1>1, <1>3 DEF Began, s

\* What a step does to the queue of messages from the center.
LEMMA DownStep ==
    ASSUME TypeOK, [Next]_vars
    PROVE  down' = down \/ Received \/ \E s : Began(s)
  <1>1. CASE UNCHANGED vars
    BY <1>1, Zenon DEF vars
  <1>2. ASSUME CenterReceives PROVE down' = down \/ \E s : Began(s)
    <2>1. up # <<>> /\ up \in Seq(Up)
      BY <1>2 DEF CenterReceives, TypeOK
    <2>2. Head(up) \in Up
      BY <2>1, TailOf
    <2>3. CASE Head(up).kind = "load" /\ Sends(Head(up).role, Head(up).blob)
      BY <2>2, <2>3, UpIs, SendsBegan
    <2> QED
      BY <1>2, <2>3, Zenon DEF CenterReceives
  <1>3. ASSUME NEW r \in Roles, NEW b \in Blobs, CenterReads(r, b) PROVE \E s : Began(s)
    BY <1>3, SendsBegan DEF CenterReads
  <1>4. ASSUME NEW r \in Roles, CenterAdmits(r) PROVE \E s : Began(s)
    BY <1>4, AdmitsBegan
  <1>5. CASE OnPlayerLoginRequest \/ OnLoadRoleData \/ OnLoadAccountData \/ \E b \in Blobs : OnSyncData(b)
    BY <1>5, Zenon DEF OnPlayerLoginRequest, OnLoadRoleData, OnLoadAccountData, OnSyncData
  <1>6. ASSUME NEW r \in Roles, OnApplyEnterScene(r) \/ PeriodicSave(r) \/ LogoutSave(r) \/ LoginAbandoned(r)
        PROVE  down' = down
    BY <1>6, Zenon DEF OnApplyEnterScene, PeriodicSave, LogoutSave, LoginAbandoned
  <1> QED
    BY <1>1, <1>2, <1>3, <1>4, <1>5, <1>6, Zenon DEF Next

LEMMA LinksTaken ==
    ASSUME TypeOK, Linked, Received
    PROVE  Linked'
  <1> DEFINE q == down
             z == down'
  <1>1. /\ Len(q) \in Nat /\ Len(z) = Len(q) - 1
        /\ \A k \in Places(z) : k + 1 \in Places(q) /\ z[k] = q[k + 1]
    BY Taken
  <1>2. Links(q)
    BY DEF Linked
  <1> HIDE DEF q, z
  <1>3. ASSUME NEW k \in Places(z)
        PROVE  /\ z[k].kind = "sync" =>
                    /\ z[k].piece.role = z[k].role /\ z[k].piece.at = z[k].at
                    /\ k < Len(z) /\ Follows(z[k], z[k + 1])
               /\ k > 1 /\ Place(z[k]) > 0 => z[k - 1].kind = "sync"
    <2>1. k \in Nat /\ k >= 1 /\ k <= Len(z) /\ k + 1 \in Places(q) /\ z[k] = q[k + 1]
      BY <1>1 DEF Places
    <2>2. /\ q[k + 1].kind = "sync" =>
               /\ q[k + 1].piece.role = q[k + 1].role /\ q[k + 1].piece.at = q[k + 1].at
               /\ k + 1 < Len(q) /\ Follows(q[k + 1], q[(k + 1) + 1])
          /\ k + 1 > 1 /\ Place(q[k + 1]) > 0 => q[(k + 1) - 1].kind = "sync"
      BY <1>2, <2>1, Zenon DEF Links
    <2>3. k + 1 < Len(q) => k < Len(z) /\ z[k + 1] = q[(k + 1) + 1]
      BY <1>1, <2>1 DEF Places
    <2>4. k > 1 => z[k - 1] = q[(k + 1) - 1]
      <3>1. k > 1 => k - 1 \in Places(z) /\ (k - 1) + 1 = (k + 1) - 1
        BY <1>1, <2>1 DEF Places
      <3> QED
        BY <1>1, <3>1
    <2>5. k + 1 > 1
      BY <2>1
    <2> QED
      BY <2>1, <2>2, <2>3, <2>4, <2>5, Zenon
  <1>4. Links(z)
    BY <1>3, Zenon DEF Links
  <1> QED
    BY <1>4 DEF Linked, Links, Places, z

LEMMA LinksJoined ==
    ASSUME NEW q, NEW s, NEW z, Joins(q, s, z), Links(q), Links(s), Len(s) > 0, Place(s[1]) = 0
    PROVE  Links(z)
  <1>1. /\ Len(q) \in Nat /\ Len(s) \in Nat /\ Len(z) = Len(q) + Len(s)
        /\ \A k \in Places(q) : z[k] = q[k]
        /\ \A k \in Places(s) : z[Len(q) + k] = s[k]
        /\ \A k \in Places(z) : k \in Places(q) \/ \E j \in Places(s) : k = Len(q) + j
    BY Zenon DEF Joins
  <1>2. ASSUME NEW k \in Places(z)
        PROVE  /\ z[k].kind = "sync" =>
                    /\ z[k].piece.role = z[k].role /\ z[k].piece.at = z[k].at
                    /\ k < Len(z) /\ Follows(z[k], z[k + 1])
               /\ k > 1 /\ Place(z[k]) > 0 => z[k - 1].kind = "sync"
    <2>1. CASE k \in Places(q)
      <3>1. z[k] = q[k] /\ k \in Nat /\ k >= 1 /\ k <= Len(q)
        BY <1>1, <2>1 DEF Places
      <3>2. k < Len(q) => k < Len(z) /\ z[k + 1] = q[k + 1]
        BY <1>1, <3>1 DEF Places
      <3>3. k > 1 => z[k - 1] = q[k - 1]
        <4>1. k > 1 => k - 1 \in Places(q)
          BY <1>1, <3>1 DEF Places
        <4> QED
          BY <1>1, <4>1
      <3>4. /\ q[k].kind = "sync" =>
                 /\ q[k].piece.role = q[k].role /\ q[k].piece.at = q[k].at
                 /\ k < Len(q) /\ Follows(q[k], q[k + 1])
            /\ k > 1 /\ Place(q[k]) > 0 => q[k - 1].kind = "sync"
        BY <2>1, Zenon DEF Links
      <3> QED
        BY <3>1, <3>2, <3>3, <3>4, Zenon
    <2>2. CASE \E j \in Places(s) : k = Len(q) + j
      <3>1. PICK j \in Places(s) : k = Len(q) + j
        BY <2>2
      <3>2. z[k] = s[j] /\ j \in Nat /\ j >= 1 /\ j <= Len(s)
        BY <1>1, <3>1 DEF Places
      <3>3. j < Len(s) => k < Len(z) /\ z[k + 1] = s[j + 1]
        <4>1. j < Len(s) => k < Len(z) /\ j + 1 \in Places(s) /\ k + 1 = Len(q) + (j + 1)
          BY <1>1, <3>1, <3>2 DEF Places
        <4> QED
          BY <1>1, <4>1
      <3>4. j > 1 => z[k - 1] = s[j - 1]
        <4>1. j > 1 => j - 1 \in Places(s) /\ k - 1 = Len(q) + (j - 1)
          BY <1>1, <3>1, <3>2 DEF Places
        <4> QED
          BY <1>1, <4>1
      <3>5. /\ s[j].kind = "sync" =>
                 /\ s[j].piece.role = s[j].role /\ s[j].piece.at = s[j].at
                 /\ j < Len(s) /\ Follows(s[j], s[j + 1])
            /\ j > 1 /\ Place(s[j]) > 0 => s[j - 1].kind = "sync"
        BY <3>1, Zenon DEF Links
      <3>6. j = 1 => ~(Place(z[k]) > 0)
        BY <3>2
      <3>7. j = 1 \/ j > 1
        BY <3>2
      <3> QED
        BY <3>2, <3>3, <3>4, <3>5, <3>6, <3>7, Zenon
    <2> QED
      BY <1>1, <2>1, <2>2
  <1> QED
    BY <1>2, Zenon DEF Links

\* Every step keeps streams linked.
LEMMA LinkedStep ==
    ASSUME TypeOK, Linked, [Next]_vars
    PROVE  Linked'
  <1>1. CASE down' = down
    BY <1>1 DEF Linked, Links, Places
  <1>2. CASE Received
    BY <1>2, LinksTaken
  <1>3. ASSUME NEW s, Began(s) PROVE Linked'
    <2>1. Joins(down, s, down') /\ Links(s) /\ Len(s) > 0 /\ Place(s[1]) = 0 /\ Links(down)
      BY <1>3 DEF Began, Linked
    <2>2. Links(down')
      BY <2>1, LinksJoined
    <2> QED
      BY <2>2 DEF Linked, Links, Places
  <1> QED
    BY <1>1, <1>2, <1>3, DownStep

-----------------------------------------------------------------------------
(* Types.                                                                  *)

RolesTyped ==
    /\ status \in [Roles -> Status] /\ got \in [Roles -> SUBSET Blobs]
    /\ content \in [Roles -> [Blobs -> Seq(Piece)]] /\ saved \in [Roles -> Nat]

RxTyped ==
    /\ rx \in [Blobs -> [id : Roles \cup {NoRole}, data : Seq(Piece)]]
    /\ \A b \in Blobs : Len(rx[b].data) <= BufSize

CenterTyped == reads \in [Roles -> [Blobs -> Nat]] /\ stored \in [Roles -> [Blobs -> Nat]] /\ logins \in Nat

LEMMA TypesAre == TypeOK <=> /\ RolesTyped /\ RxTyped /\ CenterTyped
                             /\ up \in Seq(Up) /\ down \in Seq(Down)
  BY DEF TypeOK, RolesTyped, RxTyped, CenterTyped

LEMMA EmptyTyped == Empty \in [id : Roles \cup {NoRole}, data : Seq(Piece)] /\ Empty.data = <<>> /\ Empty.id = NoRole
  BY DEF Empty

LEMMA DownTyped ==
    ASSUME TypeOK, [Next]_vars PROVE down' \in Seq(Down)
  <1>1. down \in Seq(Down)
    BY DEF TypeOK
  <1>2. Received => down' \in Seq(Down)
    BY Taken
  <1> QED
    BY <1>1, <1>2, DownStep, Zenon DEF Began

LEMMA DeletedTyped ==
    ASSUME TypeOK, NEW r \in Roles, Deleted(r), saved' \in [Roles -> Nat] PROVE RolesTyped'
  <1>1. "absent" \in Status /\ Nothing \in [Blobs -> Seq(Piece)] /\ {} \in SUBSET Blobs
    BY DEF Status, Nothing
  <1> QED
    BY <1>1 DEF TypeOK, RolesTyped, Deleted

LEMMA TakesTyped ==
    ASSUME TypeOK, NEW r \in Roles, NEW b \in Blobs, Takes(r, b), saved' = saved,
           status' \in [Roles -> Status]
    PROVE  RolesTyped'
  <1>1. rx[b].data \in Seq(Piece)
    BY DEF TypeOK
  <1>2. content' \in [Roles -> [Blobs -> Seq(Piece)]]
    BY <1>1 DEF TypeOK, Takes
  <1>3. got' \in [Roles -> SUBSET Blobs]
    BY DEF TypeOK, Takes
  <1> QED
    BY <1>2, <1>3 DEF TypeOK, RolesTyped

LEMMA RxSet ==
    ASSUME TypeOK, NEW b \in Blobs, NEW x \in [id : Roles \cup {NoRole}, data : Seq(Piece)],
           Len(x.data) <= BufSize, rx' = [rx EXCEPT ![b] = x]
    PROVE  RxTyped' /\ rx'[b] = x /\ \A c \in Blobs \ {b} : rx'[c] = rx[c]
  <1>1. rx \in [Blobs -> [id : Roles \cup {NoRole}, data : Seq(Piece)]]
        /\ \A c \in Blobs : Len(rx[c].data) <= BufSize
    BY DEF TypeOK
  <1> HIDE DEF Blobs
  <1>2. rx'[b] = x /\ \A c \in Blobs \ {b} : rx'[c] = rx[c]
    BY <1>1
  <1>3. rx' \in [Blobs -> [id : Roles \cup {NoRole}, data : Seq(Piece)]]
    BY <1>1
  <1>4. \A c \in Blobs : Len(rx'[c].data) <= BufSize
    BY <1>1, <1>2
  <1> QED
    BY <1>2, <1>3, <1>4 DEF RxTyped

LEMMA RxEmptied ==
    ASSUME TypeOK, NEW b \in Blobs, rx' = [rx EXCEPT ![b] = Empty]
    PROVE  RxTyped' /\ rx'[b] = Empty /\ \A c \in Blobs \ {b} : rx'[c] = rx[c]
  <1>1. Len(Empty.data) <= BufSize
    BY RoleDataAssumption, EmptyTyped
  <1> QED
    BY <1>1, EmptyTyped, RxSet

\* What OnSyncData puts into its buffer.
Added(b, p) ==
    /\ p.at = Len(rx[b].data) /\ Len(rx[b].data) < BufSize /\ (p.at = 0 \/ p.role = rx[b].id)
    /\ rx'[b] = [id |-> p.role, data |-> Append(rx[b].data, p.piece)]

Refused(b, p) ==
    /\ ~(p.at = Len(rx[b].data) /\ Len(rx[b].data) < BufSize /\ (p.at = 0 \/ p.role = rx[b].id))
    /\ rx'[b] = Empty

LEMMA SyncSet ==
    ASSUME TypeOK, NEW b \in Blobs, OnSyncData(b)
    PROVE  /\ RxTyped' /\ \A c \in Blobs \ {b} : rx'[c] = rx[c]
           /\ Added(b, down[1]) \/ Refused(b, down[1])
  <1> DEFINE p == down[1]
             fits == p.at = Len(rx[b].data) /\ Len(rx[b].data) < BufSize /\ (p.at = 0 \/ p.role = rx[b].id)
             x == [id |-> p.role, data |-> Append(rx[b].data, p.piece)]
  <1>1. Received /\ Head(down).kind = "sync" /\ Head(down) = p /\ p \in Down
    BY Taken DEF OnSyncData
  <1>2. p.role \in Roles /\ p.piece \in Piece
    BY <1>1, DownIs
  <1>3. rx[b].data \in Seq(Piece) /\ Len(rx[b].data) \in Nat
    BY DEF TypeOK
  <1>4. rx' = IF fits THEN [rx EXCEPT ![b] = [id |-> p.role, data |-> Append(@.data, p.piece)]]
              ELSE [rx EXCEPT ![b] = Empty]
    BY <1>1, Zenon DEF OnSyncData
  <1>5. CASE fits
    <2>1. rx' = [rx EXCEPT ![b] = x]
      BY <1>4, <1>5
    <2>2. x \in [id : Roles \cup {NoRole}, data : Seq(Piece)] /\ Len(x.data) <= BufSize
      <3>1. Append(rx[b].data, p.piece) \in Seq(Piece) /\ Len(Append(rx[b].data, p.piece)) = Len(rx[b].data) + 1
        BY <1>2, <1>3, AppendProperties
      <3> QED
        BY <1>2, <1>3, <1>5, <3>1, RoleDataAssumption
    <2> HIDE DEF x
    <2>3. RxTyped' /\ rx'[b] = x /\ \A c \in Blobs \ {b} : rx'[c] = rx[c]
      BY <2>1, <2>2, RxSet
    <2> QED
      BY <1>5, <2>3 DEF Added, x
  <1>6. CASE ~fits
    <2>1. rx' = [rx EXCEPT ![b] = Empty]
      BY <1>4, <1>6
    <2>2. RxTyped' /\ rx'[b] = Empty /\ \A c \in Blobs \ {b} : rx'[c] = rx[c]
      BY <2>1, RxEmptied
    <2> QED
      BY <1>6, <2>2 DEF Refused
  <1> QED
    BY <1>5, <1>6

LEMMA EnterSet ==
    ASSUME TypeOK, NEW r \in Roles, OnApplyEnterScene(r)
    PROVE  /\ RxTyped' /\ rx'["role"] = rx["role"] /\ rx'["account"] = [id |-> r, data |-> <<>>]
  <1> DEFINE x == [id |-> r, data |-> <<>>]
  <1>1. rx' = [rx EXCEPT !["account"] = x]
    BY DEF OnApplyEnterScene
  <1>2. x \in [id : Roles \cup {NoRole}, data : Seq(Piece)] /\ Len(x.data) <= BufSize
    BY RoleDataAssumption
  <1>3. "account" \in Blobs /\ "role" \in Blobs \ {"account"}
    BY DEF Blobs
  <1> HIDE DEF x
  <1>4. RxTyped' /\ rx'["account"] = x /\ \A c \in Blobs \ {"account"} : rx'[c] = rx[c]
    BY <1>1, <1>2, <1>3, RxSet
  <1> QED
    BY <1>3, <1>4 DEF x

\* The head closes a stream of blob b.
Closing(b) == Received /\ down[1] \in Down /\ Head(down) = down[1] /\ down[1].kind = "load" /\ down[1].blob = b

LEMMA LoadSet ==
    ASSUME TypeOK, NEW b \in Blobs, IF b = "role" THEN OnLoadRoleData ELSE OnLoadAccountData
    PROVE  /\ Closing(b) /\ RxTyped' /\ rx'[b] = Empty /\ \A c \in Blobs \ {b} : rx'[c] = rx[c]
  <1>1. b = "role" \/ b = "account"
    BY DEF Blobs
  <1>2. Received /\ Head(down).kind = "load" /\ Head(down).blob = b /\ rx' = [rx EXCEPT ![b] = Empty]
    BY <1>1 DEF OnLoadRoleData, OnLoadAccountData
  <1>3. Closing(b)
    BY <1>2, Taken DEF Closing
  <1> QED
    BY <1>2, <1>3, RxEmptied

LEMMA LoadTyped ==
    ASSUME TypeOK, OnLoadRoleData \/ OnLoadAccountData PROVE RolesTyped'
  <1>1. RolesTyped /\ "role" \in Blobs /\ "account" \in Blobs /\ "loaded" \in Status
    BY TypesAre DEF Blobs, Status
  <1>2. Head(down).role \in Roles
    BY Taken, DownIs DEF OnLoadRoleData, OnLoadAccountData
  <1>3. CASE UNCHANGED <<status, got, content, saved>>
    BY <1>1, <1>3 DEF RolesTyped
  <1>4. ASSUME Takes(Head(down).role, "role"), saved' = saved,
               status' = [status EXCEPT ![Head(down).role] = "loaded"]
        PROVE  RolesTyped'
    <2>1. status' \in [Roles -> Status]
      BY <1>1, <1>4 DEF RolesTyped
    <2> QED
      BY <1>1, <1>2, <1>4, <2>1, TakesTyped
  <1>5. ASSUME Takes(Head(down).role, "account"), saved' = saved, status' = status
        PROVE  RolesTyped'
    <2>1. status' \in [Roles -> Status]
      BY <1>1, <1>5 DEF RolesTyped
    <2> QED
      BY <1>1, <1>2, <1>5, <2>1, TakesTyped
  <1> QED
    BY <1>3, <1>4, <1>5, Zenon DEF OnLoadRoleData, OnLoadAccountData

LEMMA PairSet ==
    ASSUME NEW R, NEW B, NEW f \in [R -> [B -> Nat]], NEW r \in R, NEW b \in B, NEW v \in Nat
    PROVE  [f EXCEPT ![r][b] = v] \in [R -> [B -> Nat]]
  OBVIOUS

LEMMA CenterReceivesTyped ==
    ASSUME TypeOK, CenterReceives PROVE CenterTyped' /\ up' \in Seq(Up)
  <1>1. up \in Seq(Up) /\ up # <<>> /\ up' = Tail(up)
    BY DEF TypeOK, CenterReceives
  <1>2. Head(up) \in Up /\ up' \in Seq(Up)
    BY <1>1, TailOf
  <1> DEFINE p == Head(up)
  <1>3. CASE p.kind = "load" /\ reads' = [reads EXCEPT ![p.role][p.blob] = @ + 1] /\ UNCHANGED <<stored, logins>>
    <2>1. p.role \in Roles /\ p.blob \in Blobs
      BY <1>2, <1>3, UpIs
    <2>2. CenterTyped /\ reads[p.role][p.blob] + 1 \in Nat
      BY <2>1, TypesAre DEF CenterTyped
    <2>3. reads' = [reads EXCEPT ![p.role][p.blob] = reads[p.role][p.blob] + 1]
      BY <1>3
    <2> HIDE DEF p
    <2>4. reads' \in [Roles -> [Blobs -> Nat]]
      BY <2>1, <2>2, <2>3, PairSet DEF CenterTyped
    <2> QED
      BY <1>2, <1>3, <2>2, <2>4 DEF CenterTyped
  <1>4. CASE UNCHANGED <<reads, stored, logins>>
    BY <1>2, <1>4 DEF TypeOK, CenterTyped
  <1>5. CASE p.kind = "save" /\ stored' = [stored EXCEPT ![p.role][p.blob] = p.ver] /\ UNCHANGED <<reads, logins>>
    <2>1. p.role \in Roles /\ p.blob \in Blobs /\ p.ver \in Nat
      BY <1>2, <1>5, UpIs
    <2> HIDE DEF p
    <2>2. CenterTyped
      BY TypesAre
    <2>3. stored' \in [Roles -> [Blobs -> Nat]]
      BY <1>5, <2>1, <2>2, PairSet DEF CenterTyped
    <2> QED
      BY <1>2, <1>5, <2>2, <2>3 DEF CenterTyped
  <1> QED
    BY <1>3, <1>4, <1>5, Zenon DEF CenterReceives

\* Every step keeps the types.
LEMMA TypeStep ==
    ASSUME TypeOK, [Next]_vars PROVE TypeOK'
  <1> DEFINE K == RolesTyped /\ RxTyped /\ CenterTyped /\ up \in Seq(Up) /\ down' \in Seq(Down)
  <1>1. K
    BY TypesAre, DownTyped
  <1> SUFFICES RolesTyped' /\ RxTyped' /\ CenterTyped' /\ up' \in Seq(Up)
    <2>1. TypeOK' <=> RolesTyped' /\ RxTyped' /\ CenterTyped' /\ up' \in Seq(Up) /\ down' \in Seq(Down)
      BY DEF TypeOK, RolesTyped, RxTyped, CenterTyped
    <2> QED
      BY <1>1, <2>1
  <1>2. UNCHANGED <<status, got, content, saved>> => RolesTyped'
    BY <1>1 DEF RolesTyped
  <1>3. UNCHANGED rx => RxTyped'
    BY <1>1 DEF RxTyped
  <1>4. UNCHANGED <<reads, stored, logins>> => CenterTyped'
    BY <1>1 DEF CenterTyped
  <1>5. ASSUME NEW r \in Roles PROVE UNCHANGED <<got, content, saved>> /\ (\E s \in Status : status' = [status EXCEPT ![r] = s]) => RolesTyped'
    BY <1>1 DEF RolesTyped
  <1>6. ASSUME NEW r \in Roles, saved' = saved \/ saved' = [saved EXCEPT ![r] = @ + 1]
        PROVE  saved' \in [Roles -> Nat]
    <2>1. saved \in [Roles -> Nat]
      BY <1>1 DEF RolesTyped
    <2>2. saved[r] + 1 \in Nat
      BY <2>1
    <2> HIDE DEF K
    <2> QED
      BY <1>6, <2>1, <2>2
  <1> HIDE DEF K
  <1>7. CASE UNCHANGED vars
    BY <1>1, <1>2, <1>3, <1>4, <1>7, Zenon DEF vars, K
  <1>8. CASE CenterReceives
    BY <1>2, <1>3, <1>8, CenterReceivesTyped, Zenon DEF CenterReceives
  <1>9. CASE OnPlayerLoginRequest
    <2>1. Head(down).role \in Roles /\ "entering" \in Status
      BY <1>9, Taken, DownIs DEF OnPlayerLoginRequest, Status
    <2> QED
      BY <1>1, <1>3, <1>4, <1>5, <1>9, <2>1, Zenon DEF OnPlayerLoginRequest, K
  <1>10. CASE OnLoadRoleData
    <2>1. RxTyped'
      BY <1>10, LoadSet DEF Blobs
    <2> QED
      BY <1>1, <1>4, <1>10, <2>1, LoadTyped, Zenon DEF OnLoadRoleData, K
  <1>11. CASE OnLoadAccountData
    <2>1. RxTyped'
      BY <1>11, LoadSet DEF Blobs
    <2> QED
      BY <1>1, <1>4, <1>11, <2>1, LoadTyped, Zenon DEF OnLoadAccountData, K
  <1>12. ASSUME NEW b \in Blobs, OnSyncData(b) PROVE RolesTyped' /\ RxTyped' /\ CenterTyped' /\ up' \in Seq(Up)
    <2>1. RxTyped'
      BY <1>12, SyncSet
    <2> QED
      BY <1>1, <1>2, <1>4, <1>12, <2>1, Zenon DEF OnSyncData, K
  <1>13. ASSUME NEW r \in Roles, CenterAdmits(r) PROVE RolesTyped' /\ RxTyped' /\ CenterTyped' /\ up' \in Seq(Up)
    <2>1. CenterTyped'
      BY <1>1, <1>13 DEF CenterAdmits, CenterTyped, K
    <2> QED
      BY <1>1, <1>2, <1>3, <1>13, <2>1, Zenon DEF CenterAdmits, K
  <1>14. ASSUME NEW r \in Roles, NEW b \in Blobs, CenterReads(r, b) PROVE RolesTyped' /\ RxTyped' /\ CenterTyped' /\ up' \in Seq(Up)
    <2>1. CenterTyped'
      BY <1>1, <1>14 DEF CenterReads, CenterTyped, K
    <2> QED
      BY <1>1, <1>2, <1>3, <1>14, <2>1, Zenon DEF CenterReads, K
  <1>15. ASSUME NEW r \in Roles, OnApplyEnterScene(r) PROVE RolesTyped' /\ RxTyped' /\ CenterTyped' /\ up' \in Seq(Up)
    <2>1. RxTyped' /\ Goes(LoadsOf(r)) /\ "waiting" \in Status
      BY <1>15, EnterSet, SendsUp DEF Status
    <2> QED
      BY <1>1, <1>4, <1>5, <1>15, <2>1, Zenon DEF OnApplyEnterScene, K, Goes
  <1>16. ASSUME NEW r \in Roles, PeriodicSave(r) PROVE RolesTyped' /\ RxTyped' /\ CenterTyped' /\ up' \in Seq(Up)
    <2>1. Goes(Saves(r)) /\ saved' \in [Roles -> Nat]
      BY <1>6, <1>16, SendsUp, Zenon DEF PeriodicSave
    <2>2. RolesTyped'
      BY <1>1, <1>16, <2>1 DEF PeriodicSave, RolesTyped, K
    <2> QED
      BY <1>3, <1>4, <1>16, <2>1, <2>2, Zenon DEF PeriodicSave, Goes
  <1>17. ASSUME NEW r \in Roles, LogoutSave(r) PROVE RolesTyped' /\ RxTyped' /\ CenterTyped' /\ up' \in Seq(Up)
    <2>1. Goes(Last(r)) /\ saved' \in [Roles -> Nat] /\ Deleted(r)
      BY <1>6, <1>17, SendsUp, Zenon DEF LogoutSave
    <2>2. RolesTyped'
      BY <2>1, DeletedTyped
    <2> QED
      BY <1>3, <1>4, <1>17, <2>1, <2>2, Zenon DEF LogoutSave, Goes
  <1>18. ASSUME NEW r \in Roles, LoginAbandoned(r) PROVE RolesTyped' /\ RxTyped' /\ CenterTyped' /\ up' \in Seq(Up)
    <2>1. Goes(<<Leave(r)>>) /\ saved' \in [Roles -> Nat] /\ Deleted(r)
      BY <1>6, <1>18, SendsUp, Zenon DEF LoginAbandoned
    <2>2. RolesTyped'
      BY <2>1, DeletedTyped
    <2> QED
      BY <1>3, <1>4, <1>18, <2>1, <2>2, Zenon DEF LoginAbandoned, Goes
  <1> QED
    BY <1>7, <1>8, <1>9, <1>10, <1>11, <1>12, <1>13, <1>14, <1>15, <1>16, <1>17, <1>18, Zenon DEF Next

-----------------------------------------------------------------------------
(* What the buffers hold.                                                  *)

\* What follows the message received.
LEMMA Behind ==
    ASSUME TypeOK, Linked, Received
    PROVE  /\ down[1].kind = "sync" =>
                /\ Len(down') > 0 /\ Follows(down[1], down'[1])
                /\ down[1].piece.role = down[1].role /\ down[1].piece.at = down[1].at
           /\ down[1].kind # "sync" /\ Len(down') > 0 => ~(Place(down'[1]) > 0)
  <1>1. /\ Len(down) \in Nat /\ Len(down) > 0 /\ Len(down') = Len(down) - 1
        /\ \A k \in Places(down') : k + 1 \in Places(down) /\ down'[k] = down[k + 1]
    BY Taken
  <1>2. Len(down') > 0 => 1 \in Places(down') /\ 2 \in Places(down) /\ down'[1] = down[2] /\ 2 > 1 /\ 2 - 1 = 1
    <2>1. Len(down') > 0 => 1 \in Places(down')
      BY <1>1 DEF Places
    <2> QED
      BY <1>1, <2>1
  <1>3. 1 \in Places(down) /\ 1 + 1 = 2 /\ (1 < Len(down) => Len(down') > 0)
    BY <1>1 DEF Places
  <1>4. down[1].kind = "sync" =>
           /\ down[1].piece.role = down[1].role /\ down[1].piece.at = down[1].at
           /\ 1 < Len(down) /\ Follows(down[1], down[1 + 1])
    BY <1>3, Zenon DEF Linked, Links
  <1>5. Len(down') > 0 /\ Place(down[2]) > 0 => down[2 - 1].kind = "sync"
    BY <1>2, Zenon DEF Linked, Links
  <1> QED
    BY <1>2, <1>3, <1>4, <1>5, Zenon

\* A stream that comes in begins behind what is there.
LEMMA BegunBefore ==
    ASSUME TypeOK, down' = down \/ \E s : Began(s), NEW b
    PROVE  (Begun(b)' <=> Begun(b)) /\ (Begun(b) => down'[1] = down[1])
  <1>1. CASE down' = down
    BY <1>1 DEF Begun
  <1>2. ASSUME NEW s, Began(s) PROVE (Begun(b)' <=> Begun(b)) /\ (Begun(b) => down'[1] = down[1])
    <2>1. /\ Len(down) \in Nat /\ Len(s) \in Nat /\ Len(down') = Len(down) + Len(s)
          /\ \A k \in Places(down) : down'[k] = down[k]
          /\ \A k \in Places(s) : down'[Len(down) + k] = s[k]
          /\ Len(s) > 0 /\ Place(s[1]) = 0
      BY <1>2, Zenon DEF Began, Joins
    <2>2. CASE Len(down) > 0
      <3>1. down'[1] = down[1] /\ Len(down') > 0
        BY <2>1, <2>2 DEF Places
      <3> QED
        BY <2>2, <3>1 DEF Begun, Place
    <2>3. CASE Len(down) = 0
      <3>1. down'[1] = s[1]
        BY <2>1, <2>3 DEF Places
      <3> QED
        BY <2>1, <2>3, <3>1 DEF Begun, Place
    <2> QED
      BY <2>1, <2>2, <2>3
  <1> QED
    BY <1>1, <1>2

LEMMA BuffersKept ==
    ASSUME TypeOK, Buffers, rx' = rx, down' = down \/ \E s : Began(s)
    PROVE  Buffers'
  <1>1. \A b \in Blobs : (Begun(b)' <=> Begun(b)) /\ (Begun(b) => down'[1] = down[1])
    BY BegunBefore
  <1>2. ASSUME NEW b \in Blobs PROVE Buffered(b)'
    BY <1>1 DEF Buffers, Buffered, Prefix, Place
  <1> QED
    BY <1>2 DEF Buffers

LEMMA BuffersEnter ==
    ASSUME TypeOK, Buffers, NEW r \in Roles, OnApplyEnterScene(r)
    PROVE  Buffers'
  <1>1. rx'["role"] = rx["role"] /\ rx'["account"] = [id |-> r, data |-> <<>>] /\ down' = down
    BY EnterSet DEF OnApplyEnterScene
  <1>2. Buffered("role")'
    BY <1>1 DEF Buffers, Buffered, Begun, Prefix, Place, Blobs
  <1>3. Buffered("account")'
    BY <1>1 DEF Buffered
  <1> QED
    BY <1>1, <1>2, <1>3 DEF Buffers, Blobs

\* A buffer into which nothing comes as another stream, or none, has begun.
LEMMA NotBegun ==
    ASSUME NEW b \in Blobs, rx'[b].data = <<>>, ~Begun(b)' PROVE Buffered(b)'
  BY DEF Buffered

LEMMA BuffersLogin ==
    ASSUME TypeOK, Linked, Buffers, OnPlayerLoginRequest
    PROVE  Buffers' /\ \A b \in Blobs : rx[b].data = <<>>
  <1>1. Received /\ down[1].kind = "login" /\ rx' = rx
    BY Taken DEF OnPlayerLoginRequest
  <1>2. ASSUME NEW b \in Blobs PROVE rx[b].data = <<>> /\ ~Begun(b)'
    <2>1. ~Begun(b)
      BY <1>1 DEF Begun, Place
    <2>2. rx[b].data = <<>>
      BY <2>1 DEF Buffers, Buffered
    <2>3. ~Begun(b)'
      BY <1>1, Behind DEF Begun, Place
    <2> QED
      BY <2>2, <2>3
  <1>3. \A b \in Blobs : Buffered(b)'
    BY <1>1, <1>2, NotBegun
  <1> QED
    BY <1>1, <1>2, <1>3 DEF Buffers

LEMMA BuffersLoad ==
    ASSUME TypeOK, Linked, Buffers, NEW b \in Blobs, IF b = "role" THEN OnLoadRoleData ELSE OnLoadAccountData
    PROVE  Buffers'
  <1>1. Closing(b) /\ rx'[b] = Empty /\ \A c \in Blobs \ {b} : rx'[c] = rx[c]
    BY LoadSet
  <1>2. Received /\ down[1].kind = "load" /\ down[1].blob = b
    BY <1>1 DEF Closing
  <1>3. ASSUME NEW c \in Blobs PROVE ~Begun(c)'
    BY <1>2, Behind DEF Begun, Place
  <1>4. ASSUME NEW c \in Blobs \ {b} PROVE rx'[c].data = <<>>
    <2>1. ~Begun(c)
      BY <1>2 DEF Begun
    <2> QED
      BY <1>1, <2>1 DEF Buffers, Buffered
  <1>5. rx'[b].data = <<>> /\ rx'[b].id = NoRole
    BY <1>1, EmptyTyped
  <1>6. \A c \in Blobs : Buffered(c)'
    BY <1>3, <1>4, <1>5, NotBegun
  <1>7. rx'["role"].data = <<>> => rx'["role"].id = NoRole
    BY <1>1, <1>5 DEF Buffers, Blobs
  <1> QED
    BY <1>6, <1>7 DEF Buffers

LEMMA BuffersSync ==
    ASSUME TypeOK, Linked, Buffers, NEW b \in Blobs, OnSyncData(b)
    PROVE  Buffers'
  <1> DEFINE p == down[1]
             y == down'[1]
             d == rx[b].data
  <1>1. /\ Received /\ p \in Down /\ p.kind = "sync" /\ p.blob = b /\ Len(down) > 0
    BY Taken DEF OnSyncData
  <1>2. /\ \A c \in Blobs \ {b} : rx'[c] = rx[c]
        /\ Added(b, p) \/ Refused(b, p)
    BY SyncSet
  <1>3. p.role \in Roles /\ p.at \in Nat /\ p.piece \in Piece
    BY <1>1, DownIs
  <1>4. Len(down') > 0 /\ p.piece.role = p.role /\ p.piece.at = p.at /\ Follows(p, y)
    BY <1>1, Behind
  <1>5. y.blob = b /\ y.role = p.role /\ Place(y) = p.at + 1 /\ Place(p) = p.at
    BY <1>1, <1>4 DEF Follows, Place
  <1>6. Begun(b)'
    BY <1>3, <1>4, <1>5 DEF Begun, Place
  <1>7. ASSUME NEW c \in Blobs \ {b} PROVE Buffered(c)' /\ rx'[c].data = <<>>
    <2>1. ~Begun(c) /\ ~Begun(c)'
      BY <1>1, <1>5 DEF Begun
    <2>2. rx'[c].data = <<>>
      BY <1>2, <2>1 DEF Buffers, Buffered
    <2> QED
      BY <2>1, <2>2 DEF Buffered
  <1>8. d \in Seq(Piece) /\ Len(d) \in Nat /\ Len(d) <= BufSize
    BY DEF TypeOK
  <1>9. \/ d = <<>> /\ (b = "role" => p.at = 0 \/ p.at > BufSize)
        \/ rx[b].id = p.role /\ Prefix(d, p.role, p.at)
    <2>1. Begun(b) => \/ d = <<>> /\ (b = "role" => Place(p) > BufSize)
                      \/ rx[b].id = p.role /\ Prefix(d, p.role, Place(p))
      BY DEF Buffers, Buffered
    <2>2. ~Begun(b) => d = <<>> /\ p.at = 0
      BY <1>1, <1>3, <1>5 DEF Buffers, Buffered, Begun
    <2> QED
      BY <1>5, <2>1, <2>2
  <1>10. ASSUME Buffered(b)', rx'[b].data = <<>> => rx'[b].id = NoRole PROVE Buffers'
    <2>1. \A c \in Blobs : Buffered(c)'
      BY <1>7, <1>10
    <2>2. rx'["role"].data = <<>> => rx'["role"].id = NoRole
      <3>1. CASE b = "role"
        BY <1>10, <3>1
      <3>2. CASE b # "role"
        <4>1. rx'["role"] = rx["role"]
          BY <1>2, <3>2 DEF Blobs
        <4> QED
          BY <4>1 DEF Buffers
      <3> QED
        BY <3>1, <3>2
    <2> QED
      BY <2>1, <2>2 DEF Buffers
  <1>11. CASE Added(b, p)
    <2>1. p.at = Len(d) /\ rx'[b] = [id |-> p.role, data |-> Append(d, p.piece)]
      BY <1>11 DEF Added
    <2>2. /\ Len(Append(d, p.piece)) = p.at + 1 /\ Append(d, p.piece)[p.at + 1] = p.piece
          /\ \A k \in 1 .. p.at : Append(d, p.piece)[k] = d[k]
      BY <1>3, <1>8, <2>1, AppendProperties
    <2>3. \A k \in 1 .. p.at : d[k].role = p.role /\ d[k].at = k - 1
      <3>1. CASE d = <<>>
        BY <2>1, <3>1
      <3>2. CASE Prefix(d, p.role, p.at)
        BY <3>2 DEF Prefix
      <3> QED
        BY <1>9, <3>1, <3>2
    <2>4. \A k \in 1 .. p.at + 1 : k \in 1 .. p.at \/ k = p.at + 1
      BY <1>3
    <2>5. (p.at + 1) - 1 = p.at
      BY <1>3
    <2>6. Prefix(Append(d, p.piece), p.role, p.at + 1)
      BY <1>4, <2>2, <2>3, <2>4, <2>5 DEF Prefix
    <2>7. rx'[b].id = p.role /\ rx'[b].data = Append(d, p.piece)
      BY <2>1
    <2>8. rx'[b].id = y.role /\ Prefix(rx'[b].data, y.role, Place(y))
      BY <1>5, <2>6, <2>7
    <2>9. Buffered(b)'
      BY <1>6, <2>8 DEF Buffered, Prefix, Place
    <2>10. rx'[b].data # <<>>
      <3>1. Len(Append(d, p.piece)) # 0 /\ Len(<<>>) = 0
        BY <1>3, <2>2
      <3> QED
        BY <2>7, <3>1
    <2> QED
      BY <1>10, <2>9, <2>10
  <1>12. CASE Refused(b, p)
    <2>1. rx'[b].data = <<>> /\ rx'[b].id = NoRole
      BY <1>12, EmptyTyped DEF Refused
    <2>2. b = "role" => Place(y) > BufSize
      <3> SUFFICES ASSUME b = "role" PROVE p.at + 1 > BufSize
        BY <1>5
      <3>1. CASE d = <<>> /\ p.at > BufSize
        BY <1>3, <3>1, RoleDataAssumption
      <3>2. CASE d = <<>> /\ p.at = 0
        BY <1>3, <1>12, <3>2, RoleDataAssumption DEF Refused
      <3>3. CASE rx[b].id = p.role /\ Prefix(d, p.role, p.at)
        BY <1>3, <1>12, <3>3, RoleDataAssumption DEF Refused, Prefix
      <3> QED
        BY <1>9, <3>1, <3>2, <3>3
    <2>3. Buffered(b)'
      BY <1>6, <2>1, <2>2 DEF Buffered, Place
    <2> QED
      BY <1>10, <2>1, <2>3
  <1> QED
    BY <1>2, <1>11, <1>12

\* Every step keeps what the buffers hold in step with the stream that has begun.
LEMMA BuffersStep ==
    ASSUME TypeOK, Linked, Buffers, [Next]_vars PROVE Buffers'
  <1>1. ASSUME NEW b \in Blobs, OnSyncData(b) PROVE Buffers'
    BY <1>1, BuffersSync
  <1>2. CASE OnLoadRoleData
    BY <1>2, BuffersLoad DEF Blobs
  <1>3. CASE OnLoadAccountData
    BY <1>3, BuffersLoad DEF Blobs
  <1>4. CASE OnPlayerLoginRequest
    BY <1>4, BuffersLogin
  <1>5. ASSUME NEW r \in Roles, OnApplyEnterScene(r) PROVE Buffers'
    BY <1>5, BuffersEnter
  <1>6. ASSUME rx' = rx, down' = down \/ \E s : Began(s) PROVE Buffers'
    BY <1>6, BuffersKept
  <1>7. CASE UNCHANGED vars
    BY <1>6, <1>7, Zenon DEF vars
  <1>8. CASE CenterReceives
    <2>1. rx' = rx
      BY <1>8 DEF CenterReceives
    <2>2. up # <<>> /\ up \in Seq(Up)
      BY <1>8 DEF CenterReceives, TypeOK
    <2>3. Head(up) \in Up
      BY <2>2, TailOf
    <2>4. CASE Head(up).kind = "load" /\ Sends(Head(up).role, Head(up).blob)
      BY <1>6, <2>1, <2>3, <2>4, UpIs, SendsBegan
    <2> QED
      BY <1>6, <1>8, <2>1, <2>4, Zenon DEF CenterReceives
  <1>9. ASSUME NEW r \in Roles, NEW b \in Blobs, CenterReads(r, b) PROVE Buffers'
    BY <1>6, <1>9, SendsBegan DEF CenterReads
  <1>10. ASSUME NEW r \in Roles, CenterAdmits(r) PROVE Buffers'
    <2>1. rx' = rx
      BY <1>10 DEF CenterAdmits
    <2> QED
      BY <1>6, <1>10, <2>1, AdmitsBegan, Zenon
  <1>11. ASSUME NEW r \in Roles, PeriodicSave(r) \/ LogoutSave(r) \/ LoginAbandoned(r) PROVE Buffers'
    BY <1>6, <1>11, Zenon DEF PeriodicSave, LogoutSave, LoginAbandoned
  <1> QED
    BY <1>1, <1>2, <1>3, <1>4, <1>5, <1>7, <1>8, <1>9, <1>10, <1>11, Zenon DEF Next

-----------------------------------------------------------------------------
(* The last save.                                                          *)

\* LastSaves for one blob of one role.
LastSave(r, b) ==
    /\ NoSave(up, r, b) => stored[r][b] = saved[r]
    /\ \A k \in Places(up) :
          /\ IsSave(up[k], r, b)
          /\ \A m \in (k + 1) .. Len(up) : ~IsSave(up[m], r, b)
          => up[k].ver = saved[r]

LEMMA LastSaveIs == LastSaves <=> \A r \in Roles, b \in Blobs : LastSave(r, b)
  BY Zenon DEF LastSaves, LastSave

\* Nothing is saved of the blob.
LEMMA KeptSave ==
    ASSUME NEW r, NEW b, NEW t, Joins(up, t, up'), NoSave(t, r, b), LastSave(r, b),
           saved'[r] = saved[r], stored' = stored
    PROVE  LastSave(r, b)'
  <1>1. /\ Len(up) \in Nat /\ Len(t) \in Nat /\ Len(up') = Len(up) + Len(t)
        /\ \A k \in Places(up) : up'[k] = up[k]
        /\ \A k \in Places(t) : up'[Len(up) + k] = t[k]
        /\ \A k \in Places(up') : k \in Places(up) \/ \E j \in Places(t) : k = Len(up) + j
    BY Zenon DEF Joins
  <1>2. \A k \in Places(t) : ~IsSave(t[k], r, b)
    BY DEF NoSave
  <1>3. \A k \in Places(up') : IsSave(up'[k], r, b) => k \in Places(up)
    BY <1>1, <1>2
  <1>4. \A k \in Places(up) : k \in Places(up') /\ \A m \in (k + 1) .. Len(up) : m \in (k + 1) .. Len(up')
    BY <1>1 DEF Places
  <1>5. NoSave(up', r, b) => stored'[r][b] = saved'[r]
    <2>1. NoSave(up', r, b) => NoSave(up, r, b)
      BY <1>1, <1>4 DEF NoSave
    <2> QED
      BY <2>1 DEF LastSave
  <1>6. ASSUME NEW k \in Places(up'), IsSave(up'[k], r, b),
               \A m \in (k + 1) .. Len(up') : ~IsSave(up'[m], r, b)
        PROVE  up'[k].ver = saved'[r]
    <2>1. k \in Places(up) /\ up'[k] = up[k]
      BY <1>1, <1>3, <1>6
    <2>2. \A m \in (k + 1) .. Len(up) : m \in Places(up)
      BY <1>1, <2>1 DEF Places
    <2>3. \A m \in (k + 1) .. Len(up) : ~IsSave(up[m], r, b)
      BY <1>1, <1>4, <1>6, <2>1, <2>2
    <2> QED
      BY <1>6, <2>1, <2>3 DEF LastSave
  <1> QED
    BY <1>5, <1>6 DEF LastSave, NoSave, IsSave, Places

\* The blob is saved once.
LEMMA NewSave ==
    ASSUME NEW r, NEW b, NEW t, Joins(up, t, up'),
           NEW j \in Places(t), IsSave(t[j], r, b), t[j].ver = saved'[r],
           \A k \in Places(t) : IsSave(t[k], r, b) => k = j
    PROVE  LastSave(r, b)'
  <1>1. /\ Len(up) \in Nat /\ Len(t) \in Nat /\ Len(up') = Len(up) + Len(t)
        /\ \A k \in Places(t) : up'[Len(up) + k] = t[k]
        /\ \A k \in Places(up') : k \in Places(up) \/ \E i \in Places(t) : k = Len(up) + i
    BY Zenon DEF Joins
  <1>2. j \in Nat /\ j >= 1 /\ j <= Len(t)
    BY <1>1 DEF Places
  <1>3. Len(up) + j \in Places(up') /\ IsSave(up'[Len(up) + j], r, b)
    BY <1>1, <1>2 DEF Places
  <1>4. ~NoSave(up', r, b)
    BY <1>3 DEF NoSave
  <1>5. ASSUME NEW k \in Places(up'), IsSave(up'[k], r, b),
               \A m \in (k + 1) .. Len(up') : ~IsSave(up'[m], r, b)
        PROVE  up'[k].ver = saved'[r]
    <2>1. k \notin Places(up)
      <3>1. k \in Places(up) => Len(up) + j \in (k + 1) .. Len(up')
        BY <1>1, <1>2 DEF Places
      <3> QED
        BY <1>3, <1>5, <3>1
    <2>2. PICK i \in Places(t) : k = Len(up) + i
      BY <1>1, <2>1
    <2>3. up'[k] = t[i]
      BY <1>1, <2>2
    <2> QED
      BY <1>5, <2>3
  <1> QED
    BY <1>4, <1>5 DEF LastSave, NoSave, IsSave, Places

LEMMA SaveIs ==
    ASSUME NEW r, NEW v, NEW q, NEW b, NEW c
    PROVE  /\ IsSave(Save(r, c, v), q, b) <=> (q = r /\ b = c)
           /\ Save(r, c, v).ver = v
  BY DEF IsSave, Save

LEMMA LoadIs == ASSUME NEW r, NEW q, NEW b, NEW c PROVE ~IsSave(Load(r, c), q, b)
  BY DEF IsSave, Load

LEMMA LeaveIs == ASSUME NEW r, NEW q, NEW b PROVE ~IsSave(Leave(r), q, b)
  BY DEF IsSave, Leave

\* What is sent up, message by message.
LEMMA SentUp ==
    ASSUME NEW r
    PROVE  /\ Places(Saves(r)) = {1, 2} /\ Places(Last(r)) = {1, 2, 3}
           /\ Places(LoadsOf(r)) = {1, 2} /\ Places(<<Leave(r)>>) = {1}
           /\ Saves(r)[1] = Save(r, "role", saved[r] + 1) /\ Saves(r)[2] = Save(r, "account", saved[r] + 1)
           /\ Last(r)[1] = Save(r, "role", saved[r] + 1) /\ Last(r)[2] = Save(r, "account", saved[r] + 1)
           /\ Last(r)[3] = Leave(r) /\ <<Leave(r)>>[1] = Leave(r)
           /\ LoadsOf(r)[1] = Load(r, "account") /\ LoadsOf(r)[2] = Load(r, "role")
           /\ Len(Last(r)) = 3 /\ Len(<<Leave(r)>>) = 1
  <1>1. /\ Len(Saves(r)) = 2 /\ Len(Last(r)) = 3 /\ Len(LoadsOf(r)) = 2 /\ Len(<<Leave(r)>>) = 1
        /\ Saves(r)[1] = Save(r, "role", saved[r] + 1) /\ Saves(r)[2] = Save(r, "account", saved[r] + 1)
        /\ Last(r)[1] = Save(r, "role", saved[r] + 1) /\ Last(r)[2] = Save(r, "account", saved[r] + 1)
        /\ Last(r)[3] = Leave(r) /\ <<Leave(r)>>[1] = Leave(r)
        /\ LoadsOf(r)[1] = Load(r, "account") /\ LoadsOf(r)[2] = Load(r, "role")
    BY DEF Saves, Last, LoadsOf
  <1>2. 1 .. 1 = {1} /\ 1 .. 2 = {1, 2} /\ 1 .. 3 = {1, 2, 3}
    OBVIOUS
  <1> HIDE DEF Saves, Last, LoadsOf
  <1> QED
    BY <1>1, <1>2 DEF Places

\* Which of them are saves.
LEMMA WhichSaves ==
    ASSUME NEW r, NEW q, NEW b \in Blobs
    PROVE  /\ NoSave(LoadsOf(r), q, b) /\ NoSave(<<Leave(r)>>, q, b)
           /\ q # r => NoSave(Saves(r), q, b) /\ NoSave(Last(r), q, b)
           /\ \E j \in Places(Saves(r)) :
                /\ IsSave(Saves(r)[j], r, b) /\ Saves(r)[j].ver = saved[r] + 1
                /\ \A k \in Places(Saves(r)) : IsSave(Saves(r)[k], r, b) => k = j
           /\ \E j \in Places(Last(r)) :
                /\ IsSave(Last(r)[j], r, b) /\ Last(r)[j].ver = saved[r] + 1
                /\ \A k \in Places(Last(r)) : IsSave(Last(r)[k], r, b) => k = j
  <1> DEFINE x == Save(r, "role", saved[r] + 1)
             y == Save(r, "account", saved[r] + 1)
             s == Saves(r)
             t == Last(r)
             P(u, j) == /\ j \in Places(u) /\ IsSave(u[j], r, b) /\ u[j].ver = saved[r] + 1
                        /\ \A k \in Places(u) : IsSave(u[k], r, b) => k = j
  <1>1. b = "role" \/ b = "account"
    BY DEF Blobs
  <1>2. NoSave(LoadsOf(r), q, b) /\ NoSave(<<Leave(r)>>, q, b)
    BY SentUp, LoadIs, LeaveIs DEF NoSave
  <1>3. /\ IsSave(x, q, b) <=> (q = r /\ b = "role")
        /\ IsSave(y, q, b) <=> (q = r /\ b = "account")
        /\ IsSave(x, r, b) <=> b = "role"
        /\ IsSave(y, r, b) <=> b = "account"
        /\ x.ver = saved[r] + 1 /\ y.ver = saved[r] + 1
    BY SaveIs
  <1>4. ~IsSave(Leave(r), q, b) /\ ~IsSave(Leave(r), r, b)
    BY LeaveIs
  <1>5. Places(s) = {1, 2} /\ Places(t) = {1, 2, 3} /\ s[1] = x /\ s[2] = y /\ t[1] = x /\ t[2] = y /\ t[3] = Leave(r)
    BY SentUp
  <1> HIDE DEF x, y, s, t
  <1>6. q # r => NoSave(s, q, b) /\ NoSave(t, q, b)
    BY <1>3, <1>4, <1>5 DEF NoSave
  <1>7. CASE b = "role"
    <2>1. P(s, 1) /\ P(t, 1)
      BY <1>3, <1>4, <1>5, <1>7
    <2> QED
      BY <1>2, <1>6, <2>1 DEF s, t
  <1>8. CASE b = "account"
    <2>1. P(s, 2) /\ P(t, 2)
      BY <1>3, <1>4, <1>5, <1>8
    <2> QED
      BY <1>2, <1>6, <2>1 DEF s, t
  <1> QED
    BY <1>1, <1>7, <1>8

\* A message reaches the center.
LEMMA SaveReceived ==
    ASSUME TypeOK, CenterReceives, NEW r \in Roles, NEW b \in Blobs, LastSave(r, b)
    PROVE  LastSave(r, b)'
  <1> DEFINE q == up
             z == up'
  <1>1. up \in Seq(Up) /\ up # <<>> /\ up' = Tail(up) /\ saved' = saved
    BY DEF CenterReceives, TypeOK
  <1>2. /\ Head(q) = q[1] /\ q[1] \in Up /\ Len(q) \in Nat /\ Len(q) > 0 /\ Len(z) = Len(q) - 1
        /\ \A k \in Places(z) : k + 1 \in Places(q) /\ z[k] = q[k + 1]
    BY <1>1, TailOf
  <1>3. \/ q[1].kind # "save" /\ stored' = stored
        \/ q[1].kind = "save" /\ stored' = [stored EXCEPT ![q[1].role][q[1].blob] = q[1].ver]
    <2>1. q[1].kind \in {"load", "save", "leave"}
      BY <1>2, UpIs
    <2> QED
      BY <1>2, <2>1 DEF CenterReceives
  <1>4. stored'[r][b] = IF IsSave(q[1], r, b) THEN q[1].ver ELSE stored[r][b]
    <2>1. CASE q[1].kind # "save" /\ stored' = stored
      BY <2>1 DEF IsSave
    <2>2. CASE q[1].kind = "save" /\ stored' = [stored EXCEPT ![q[1].role][q[1].blob] = q[1].ver]
      <3>1. q[1].role \in Roles /\ q[1].blob \in Blobs /\ stored \in [Roles -> [Blobs -> Nat]]
        BY <1>2, <2>2, UpIs DEF TypeOK
      <3> HIDE DEF q
      <3> QED
        BY <2>2, <3>1 DEF IsSave
    <2> QED
      BY <1>3, <2>1, <2>2
  <1>5. /\ NoSave(q, r, b) => stored[r][b] = saved[r]
        /\ \A k \in Places(q) :
              /\ IsSave(q[k], r, b)
              /\ \A m \in (k + 1) .. Len(q) : ~IsSave(q[m], r, b)
              => q[k].ver = saved[r]
    BY Zenon DEF LastSave
  <1> HIDE DEF q, z
  <1>6. \A m \in Places(q) : m > 1 => m - 1 \in Places(z) /\ z[m - 1] = q[m]
    <2> SUFFICES ASSUME NEW m \in Places(q), m > 1 PROVE m - 1 \in Places(z) /\ z[m - 1] = q[m]
      OBVIOUS
    <2>1. m - 1 \in Places(z) /\ (m - 1) + 1 = m
      BY <1>2 DEF Places
    <2> QED
      BY <1>2, <2>1
  <1>7. ASSUME NoSave(z, r, b) PROVE stored'[r][b] = saved[r]
    <2>1. \A m \in Places(q) : m > 1 => ~IsSave(q[m], r, b)
      BY <1>6, <1>7 DEF NoSave
    <2>2. 1 \in Places(q) /\ \A m \in Places(q) : m = 1 \/ m > 1
      BY <1>2 DEF Places
    <2>3. CASE IsSave(q[1], r, b)
      <3>1. \A m \in (1 + 1) .. Len(q) : m \in Places(q) /\ m > 1
        BY <1>2 DEF Places
      <3>2. \A m \in (1 + 1) .. Len(q) : ~IsSave(q[m], r, b)
        BY <2>1, <3>1
      <3>3. q[1].ver = saved[r]
        BY <1>5, <2>2, <2>3, <3>2
      <3> QED
        BY <1>4, <2>3, <3>3
    <2>4. CASE ~IsSave(q[1], r, b)
      <3>1. NoSave(q, r, b)
        BY <2>1, <2>2, <2>4 DEF NoSave
      <3> QED
        BY <1>4, <1>5, <2>4, <3>1
    <2> QED
      BY <2>3, <2>4
  <1>8. ASSUME NEW k \in Places(z), IsSave(z[k], r, b),
               \A m \in (k + 1) .. Len(z) : ~IsSave(z[m], r, b)
        PROVE  z[k].ver = saved[r]
    <2>1. k + 1 \in Places(q) /\ z[k] = q[k + 1]
      BY <1>2
    <2>2. \A m \in ((k + 1) + 1) .. Len(q) : m \in Places(q) /\ m > 1 /\ m - 1 \in (k + 1) .. Len(z)
      BY <1>2 DEF Places
    <2>3. \A m \in ((k + 1) + 1) .. Len(q) : ~IsSave(q[m], r, b)
      BY <1>6, <1>8, <2>2
    <2> QED
      BY <1>5, <1>8, <2>1, <2>3
  <1> QED
    BY <1>1, <1>7, <1>8 DEF LastSave, NoSave, IsSave, Places, z

\* Every step keeps the last version saved on its way to the center, or stored there.
LEMMA SavesStep ==
    ASSUME TypeOK, LastSaves, [Next]_vars PROVE LastSaves'
  <1> SUFFICES ASSUME NEW q \in Roles, NEW b \in Blobs PROVE LastSave(q, b)'
    BY Zenon DEF LastSaves, LastSave
  <1>1. LastSave(q, b)
    BY LastSaveIs
  <1>2. ASSUME UNCHANGED <<up, stored, saved>> PROVE LastSave(q, b)'
    BY <1>1, <1>2 DEF LastSave, NoSave
  <1>3. CASE CenterReceives
    BY <1>1, <1>3, SaveReceived
  <1>4. ASSUME NEW r \in Roles, OnApplyEnterScene(r) PROVE LastSave(q, b)'
    <2>1. Joins(up, LoadsOf(r), up') /\ saved' = saved /\ stored' = stored
      BY <1>4, SendsUp DEF Goes, OnApplyEnterScene
    <2> QED
      BY <1>1, <2>1, WhichSaves, KeptSave
  <1>5. ASSUME NEW r \in Roles, LoginAbandoned(r) PROVE LastSave(q, b)'
    <2>1. Joins(up, <<Leave(r)>>, up') /\ saved' = saved /\ stored' = stored
      BY <1>5, SendsUp DEF Goes, LoginAbandoned
    <2> QED
      BY <1>1, <2>1, WhichSaves, KeptSave
  <1>6. ASSUME NEW r \in Roles, PeriodicSave(r) \/ LogoutSave(r) PROVE LastSave(q, b)'
    <2>1. saved' = [saved EXCEPT ![r] = saved[r] + 1] /\ stored' = stored /\ saved \in [Roles -> Nat]
      BY <1>6 DEF PeriodicSave, LogoutSave, TypeOK
    <2>2. PICK t \in {Saves(r), Last(r)} : Joins(up, t, up')
      BY <1>6, SendsUp DEF Goes
    <2>3. CASE q = r
      <3>1. saved'[r] = saved[r] + 1
        BY <2>1
      <3>2. PICK j \in Places(t) : /\ IsSave(t[j], r, b) /\ t[j].ver = saved[r] + 1
                                   /\ \A k \in Places(t) : IsSave(t[k], r, b) => k = j
        BY <2>2, WhichSaves, Zenon
      <3>3. t[j].ver = saved'[r]
        BY <3>1, <3>2
      <3> QED
        BY <2>2, <2>3, <3>2, <3>3, NewSave
    <2>4. CASE q # r
      <3>1. saved'[q] = saved[q] /\ NoSave(t, q, b)
        BY <2>1, <2>2, <2>4, WhichSaves
      <3> QED
        BY <1>1, <2>1, <2>2, <3>1, KeptSave
    <2> QED
      BY <2>3, <2>4
  <1>7. CASE UNCHANGED vars
    BY <1>2, <1>7, Zenon DEF vars
  <1>8. CASE OnPlayerLoginRequest \/ OnLoadRoleData \/ OnLoadAccountData \/ \E c \in Blobs : OnSyncData(c)
    BY <1>2, <1>8, Zenon DEF OnPlayerLoginRequest, OnLoadRoleData, OnLoadAccountData, OnSyncData
  <1>9. ASSUME NEW r \in Roles, CenterAdmits(r) \/ \E c \in Blobs : CenterReads(r, c) PROVE LastSave(q, b)'
    BY <1>2, <1>9, Zenon DEF CenterAdmits, CenterReads
  <1> QED
    BY <1>3, <1>4, <1>5, <1>6, <1>7, <1>8, <1>9, Zenon DEF Next

-----------------------------------------------------------------------------
(* The order of saves and leave notices.                                   *)

\* Every save of the blob is followed by the end of the login.
LeftAfter(r, b) == \A k \in Places(up) :
    IsSave(up[k], r, b) => \E m \in (k + 1) .. Len(up) : up[m] = Leave(r)

LEMMA LeftAfterIs == SavedThenLeft <=> \A r \in Roles, b \in Blobs : status[r] = "absent" => LeftAfter(r, b)
  BY DEF SavedThenLeft, LeftAfter

LEMMA LeftKept ==
    ASSUME NEW r, NEW b, NEW t, Joins(up, t, up'), NoSave(t, r, b), LeftAfter(r, b)
    PROVE  LeftAfter(r, b)'
  <1>1. /\ Len(up) \in Nat /\ Len(t) \in Nat /\ Len(up') = Len(up) + Len(t)
        /\ \A k \in Places(up) : up'[k] = up[k]
        /\ \A k \in Places(t) : up'[Len(up) + k] = t[k]
        /\ \A k \in Places(up') : k \in Places(up) \/ \E j \in Places(t) : k = Len(up) + j
    BY Zenon DEF Joins
  <1>2. ASSUME NEW k \in Places(up'), IsSave(up'[k], r, b)
        PROVE  \E m \in (k + 1) .. Len(up') : up'[m] = Leave(r)
    <2>1. k \in Places(up) /\ up'[k] = up[k]
      BY <1>1, <1>2 DEF NoSave
    <2>2. PICK m \in (k + 1) .. Len(up) : up[m] = Leave(r)
      BY <1>2, <2>1 DEF LeftAfter
    <2>3. m \in Places(up) /\ m \in (k + 1) .. Len(up')
      BY <1>1, <2>1, <2>2 DEF Places
    <2> QED
      BY <1>1, <2>2, <2>3
  <1> QED
    BY <1>2 DEF LeftAfter, Places, IsSave, Leave

LEMMA LeftNow ==
    ASSUME NEW r, NEW b, NEW t, Joins(up, t, up'), NEW n \in Nat, n = Len(t), n > 0, t[n] = Leave(r)
    PROVE  LeftAfter(r, b)'
  <1>1. Len(up) \in Nat /\ Len(up') = Len(up) + n /\ n \in Places(t) /\ up'[Len(up) + n] = Leave(r)
    BY DEF Joins, Places
  <1>2. ASSUME NEW k \in Places(up'), IsSave(up'[k], r, b)
        PROVE  \E m \in (k + 1) .. Len(up') : up'[m] = Leave(r)
    <2>1. k # Len(up) + n
      BY <1>1, <1>2, LeaveIs
    <2>2. Len(up) + n \in (k + 1) .. Len(up')
      BY <1>1, <2>1 DEF Places
    <2> QED
      BY <1>1, <2>2
  <1> QED
    BY <1>2 DEF LeftAfter, Places, IsSave, Leave

LEMMA UpTaken ==
    ASSUME TypeOK, CenterReceives
    PROVE  /\ Len(up) \in Nat /\ Len(up) > 0 /\ Len(up') = Len(up) - 1
           /\ \A k \in Places(up') : k + 1 \in Places(up) /\ up'[k] = up[k + 1]
           /\ \A m \in Places(up) : m > 1 => m - 1 \in Places(up') /\ up'[m - 1] = up[m]
  <1>1. up \in Seq(Up) /\ up # <<>> /\ up' = Tail(up)
    BY DEF CenterReceives, TypeOK
  <1>2. /\ Len(up) \in Nat /\ Len(up) > 0 /\ Len(up') = Len(up) - 1
        /\ \A k \in Places(up') : k + 1 \in Places(up) /\ up'[k] = up[k + 1]
    BY <1>1, TailOf
  <1>3. ASSUME NEW m \in Places(up), m > 1 PROVE m - 1 \in Places(up') /\ up'[m - 1] = up[m]
    <2>1. m - 1 \in Places(up') /\ (m - 1) + 1 = m
      BY <1>2, <1>3 DEF Places
    <2> QED
      BY <1>2, <2>1
  <1> QED
    BY <1>2, <1>3

LEMMA LeftReceived ==
    ASSUME TypeOK, CenterReceives, NEW r, NEW b, LeftAfter(r, b)
    PROVE  LeftAfter(r, b)'
  <1>1. ASSUME NEW k \in Places(up'), IsSave(up'[k], r, b)
        PROVE  \E m \in (k + 1) .. Len(up') : up'[m] = Leave(r)
    <2>1. k + 1 \in Places(up) /\ up'[k] = up[k + 1] /\ Len(up) \in Nat /\ Len(up') = Len(up) - 1
      BY UpTaken
    <2>2. PICK m \in ((k + 1) + 1) .. Len(up) : up[m] = Leave(r)
      BY <1>1, <2>1 DEF LeftAfter
    <2>3. m \in Places(up) /\ m > 1 /\ m - 1 \in (k + 1) .. Len(up')
      BY <2>1, <2>2 DEF Places
    <2>4. up'[m - 1] = up[m]
      BY <2>3, UpTaken
    <2> QED
      BY <2>2, <2>3, <2>4
  <1> QED
    BY <1>1 DEF LeftAfter, Places, IsSave, Leave

\* What a step does to one role's status.
LEMMA StatusStep ==
    ASSUME TypeOK, [Next]_vars, NEW q \in Roles
    PROVE  \/ OnPlayerLoginRequest /\ IsLogin(down[1], q) /\ status[q] = "absent" /\ status'[q] = "entering"
           \/ (InLogin(q)' => InLogin(q)) /\ (status[q] = "absent" => status'[q] = "absent")
  <1> DEFINE Same == (InLogin(q)' => InLogin(q)) /\ (status[q] = "absent" => status'[q] = "absent")
  <1>1. status \in [Roles -> Status]
    BY DEF TypeOK
  <1>2. status' = status => Same
    BY DEF InLogin
  <1>3. ASSUME NEW r \in Roles, NEW s, status[r] # "absent", s = "waiting" => status[r] = "entering", s # "entering",
               status' = [status EXCEPT ![r] = s]
        PROVE  Same
    BY <1>1, <1>3 DEF InLogin
  <1>4. ASSUME NEW r \in Roles, status' = [status EXCEPT ![r] = "absent"] PROVE Same
    BY <1>1, <1>4 DEF InLogin
  <1> HIDE DEF Same
  <1>5. CASE OnPlayerLoginRequest
    <2>1. Head(down) = down[1] /\ down[1].role \in Roles /\ down[1].kind = "login"
      BY <1>5, Taken, DownIs DEF OnPlayerLoginRequest
    <2>2. status[down[1].role] = "absent" /\ status' = [status EXCEPT ![down[1].role] = "entering"]
      BY <1>5, <2>1, Zenon DEF OnPlayerLoginRequest
    <2>3. CASE down[1].role = q
      BY <1>1, <1>5, <2>1, <2>2, <2>3 DEF IsLogin
    <2>4. CASE down[1].role # q
      BY <1>1, <2>1, <2>2, <2>4 DEF Same, InLogin
    <2> QED
      BY <2>3, <2>4 DEF Same
  <1>6. CASE OnLoadRoleData
    <2>1. Head(down).role \in Roles
      BY <1>6, Taken, DownIs DEF OnLoadRoleData
    <2>2. \/ status' = status
          \/ status[Head(down).role] = "waiting" /\ status' = [status EXCEPT ![Head(down).role] = "loaded"]
      BY <1>6, Zenon DEF OnLoadRoleData
    <2>3. Same
      BY <1>2, <1>3, <2>1, <2>2
    <2> QED
      BY <2>3 DEF Same
  <1>7. ASSUME NEW r \in Roles, LogoutSave(r) \/ LoginAbandoned(r) PROVE Same
    BY <1>4, <1>7, Zenon DEF LogoutSave, LoginAbandoned, Deleted
  <1>8. ASSUME NEW r \in Roles, OnApplyEnterScene(r) PROVE Same
    <2>1. status[r] = "entering" /\ status' = [status EXCEPT ![r] = "waiting"]
      BY <1>8 DEF OnApplyEnterScene
    <2> QED
      BY <1>3, <2>1
  <1>9. CASE UNCHANGED vars \/ CenterReceives \/ OnLoadAccountData \/ \E b \in Blobs : OnSyncData(b)
    <2>1. status' = status
      BY <1>9, Zenon DEF vars, CenterReceives, OnLoadAccountData, OnSyncData
    <2> QED
      BY <1>2, <2>1 DEF Same
  <1>10. ASSUME NEW r \in Roles, CenterAdmits(r) \/ PeriodicSave(r) \/ \E b \in Blobs : CenterReads(r, b) PROVE Same
    <2>1. status' = status
      BY <1>10, Zenon DEF CenterAdmits, PeriodicSave, CenterReads
    <2> QED
      BY <1>2, <2>1
  <1>11. Same => (InLogin(q)' => InLogin(q)) /\ (status[q] = "absent" => status'[q] = "absent")
    BY DEF Same
  <1> QED
    BY <1>5, <1>6, <1>7, <1>8, <1>9, <1>10, <1>11, Zenon DEF Next

\* Only LogoutSave and LoginAbandoned end a role's login, and both tell the center.
LEMMA LeftStep ==
    ASSUME TypeOK, SavedThenLeft, [Next]_vars PROVE SavedThenLeft'
  <1> SUFFICES ASSUME NEW q \in Roles, NEW b \in Blobs, status'[q] = "absent" PROVE LeftAfter(q, b)'
    BY DEF SavedThenLeft, LeftAfter
  <1>1. status[q] = "absent" => LeftAfter(q, b)
    BY LeftAfterIs
  <1>2. status \in [Roles -> Status]
    BY DEF TypeOK
  <1>3. ASSUME UNCHANGED up, status[q] = "absent" PROVE LeftAfter(q, b)'
    BY <1>1, <1>3 DEF LeftAfter
  <1>4. CASE UNCHANGED vars
    BY <1>3, <1>4, Zenon DEF vars
  <1>5. CASE CenterReceives
    BY <1>1, <1>5, LeftReceived DEF CenterReceives
  <1>6. CASE OnPlayerLoginRequest
    <2>1. up' = up /\ status' = [status EXCEPT ![Head(down).role] = "entering"]
      BY <1>6 DEF OnPlayerLoginRequest
    <2>2. status[q] = "absent"
      BY <1>2, <2>1
    <2> QED
      BY <1>3, <2>1, <2>2
  <1>7. CASE OnLoadRoleData
    <2>1. up' = up /\ (status' = status \/ status' = [status EXCEPT ![Head(down).role] = "loaded"])
      BY <1>7, Zenon DEF OnLoadRoleData
    <2>2. status[q] = "absent"
      BY <1>2, <2>1
    <2> QED
      BY <1>3, <2>1, <2>2
  <1>8. CASE OnLoadAccountData \/ \E c \in Blobs : OnSyncData(c)
    BY <1>3, <1>8, Zenon DEF OnLoadAccountData, OnSyncData
  <1>9. ASSUME NEW r \in Roles, CenterAdmits(r) \/ \E c \in Blobs : CenterReads(r, c) PROVE LeftAfter(q, b)'
    BY <1>3, <1>9, Zenon DEF CenterAdmits, CenterReads
  <1>10. ASSUME NEW r \in Roles, OnApplyEnterScene(r) PROVE LeftAfter(q, b)'
    <2>1. status' = [status EXCEPT ![r] = "waiting"] /\ Joins(up, LoadsOf(r), up')
      BY <1>10, SendsUp DEF OnApplyEnterScene, Goes
    <2>2. status[q] = "absent"
      BY <1>2, <2>1
    <2> QED
      BY <1>1, <2>1, <2>2, WhichSaves, LeftKept
  <1>11. ASSUME NEW r \in Roles, PeriodicSave(r) PROVE LeftAfter(q, b)'
    <2>1. status' = status /\ status[r] = "loaded" /\ Joins(up, Saves(r), up')
      BY <1>11, SendsUp DEF PeriodicSave, Goes
    <2>2. q # r
      BY <2>1
    <2> QED
      BY <1>1, <2>1, <2>2, WhichSaves, LeftKept
  <1>12. ASSUME NEW r \in Roles, LogoutSave(r) PROVE LeftAfter(q, b)'
    <2>1. Joins(up, Last(r), up') /\ status' = [status EXCEPT ![r] = "absent"]
      BY <1>12, SendsUp DEF LogoutSave, Goes, Deleted
    <2>2. CASE q = r
      <3>1. 3 \in Nat /\ 3 = Len(Last(q)) /\ 3 > 0 /\ Last(q)[3] = Leave(q)
        <4>1. Len(Last(q)) = 3 /\ Last(q)[3] = Leave(q)
          BY SentUp, Zenon
        <4> QED
          BY <4>1
      <3>2. Joins(up, Last(q), up')
        BY <2>1, <2>2
      <3> QED
        BY <3>1, <3>2, LeftNow
    <2>3. CASE q # r
      <3>1. status[q] = "absent"
        BY <1>2, <2>1, <2>3
      <3> QED
        BY <1>1, <2>1, <2>3, <3>1, WhichSaves, LeftKept
    <2> QED
      BY <2>2, <2>3
  <1>13. ASSUME NEW r \in Roles, LoginAbandoned(r) PROVE LeftAfter(q, b)'
    <2>1. Joins(up, <<Leave(r)>>, up') /\ status' = [status EXCEPT ![r] = "absent"]
      BY <1>13, SendsUp DEF LoginAbandoned, Goes, Deleted
    <2>2. CASE q = r
      <3>1. 1 \in Nat /\ 1 = Len(<<Leave(q)>>) /\ 1 > 0 /\ <<Leave(q)>>[1] = Leave(q)
        BY SentUp
      <3>2. Joins(up, <<Leave(q)>>, up')
        BY <2>1, <2>2
      <3> QED
        BY <3>1, <3>2, LeftNow
    <2>3. CASE q # r
      <3>1. status[q] = "absent"
        BY <1>2, <2>1, <2>3
      <3> QED
        BY <1>1, <2>1, <3>1, WhichSaves, LeftKept
    <2> QED
      BY <2>2, <2>3
  <1> QED
    BY <1>4, <1>5, <1>6, <1>7, <1>8, <1>9, <1>10, <1>11, <1>12, <1>13, Zenon DEF Next

-----------------------------------------------------------------------------
(* Logins on their way.                                                    *)

HasLogin(q) == \E k \in Places(down) : IsLogin(down[k], q)

\* Logins for one role.
OneLogin(q) ==
    /\ \A k \in Places(down) : IsLogin(down[k], q) =>
          /\ status[q] = "absent"
          /\ \A m \in Places(down) : IsLogin(down[m], q) => m = k
    /\ InLogin(q) \/ HasLogin(q) => \A b \in Blobs : NoSave(up, q, b)

LEMMA OneLoginIs == Logins <=> \A q \in Roles : OneLogin(q)
  BY Zenon DEF Logins, OneLogin, Expected, HasLogin

\* What Sends adds, without logins.
Streamed(s) == \E r \in Roles, b \in Blobs : Sent(s, r, b) /\ down' = down \o s

LEMMA DownCases ==
    ASSUME TypeOK, [Next]_vars
    PROVE  \/ down' = down
           \/ Received /\ up' = up /\ saved' = saved
           \/ \E r \in Roles : CenterAdmits(r)
           \/ UNCHANGED <<status, rx, saved>> /\ \E s : Streamed(s)
  <1>1. ASSUME NEW r \in Roles, NEW b \in Blobs, Sends(r, b) PROVE \E s : Streamed(s)
    BY <1>1, SendsStream, Zenon DEF Streamed
  <1>2. ASSUME CenterReceives PROVE down' = down \/ (UNCHANGED <<status, rx, saved>> /\ \E s : Streamed(s))
    <2>1. up # <<>> /\ up \in Seq(Up)
      BY <1>2 DEF CenterReceives, TypeOK
    <2>2. Head(up) \in Up
      BY <2>1, TailOf
    <2>3. CASE Head(up).kind = "load" /\ Sends(Head(up).role, Head(up).blob)
      <3>1. \E s : Streamed(s)
        BY <1>1, <2>2, <2>3, UpIs
      <3> QED
        BY <1>2, <3>1, Zenon DEF CenterReceives
    <2> QED
      BY <1>2, <2>3, Zenon DEF CenterReceives
  <1>3. ASSUME NEW r \in Roles, NEW b \in Blobs, CenterReads(r, b)
        PROVE  UNCHANGED <<status, rx, saved>> /\ \E s : Streamed(s)
    BY <1>1, <1>3, Zenon DEF CenterReads
  <1>4. CASE UNCHANGED vars
    BY <1>4, Zenon DEF vars
  <1>5. CASE OnPlayerLoginRequest \/ OnLoadRoleData \/ OnLoadAccountData \/ \E b \in Blobs : OnSyncData(b)
    BY <1>5, Zenon DEF OnPlayerLoginRequest, OnLoadRoleData, OnLoadAccountData, OnSyncData
  <1>6. ASSUME NEW r \in Roles, OnApplyEnterScene(r) \/ PeriodicSave(r) \/ LogoutSave(r) \/ LoginAbandoned(r)
        PROVE  down' = down
    BY <1>6, Zenon DEF OnApplyEnterScene, PeriodicSave, LogoutSave, LoginAbandoned
  <1> QED
    BY <1>2, <1>3, <1>4, <1>5, <1>6, Zenon DEF Next

LEMMA StreamedFacts ==
    ASSUME TypeOK, NEW s, Streamed(s)
    PROVE  Joins(down, s, down') /\ \A j \in Places(s) : \A q : ~IsLogin(s[j], q)
  <1>1. PICK r \in Roles, b \in Blobs : Sent(s, r, b) /\ down' = down \o s
    BY Zenon DEF Streamed
  <1>2. Joins(down, s, down')
    BY <1>1, SentComes
  <1>3. \A j \in Places(s) : s[j].kind # "login"
    BY <1>1, SentFacts
  <1> QED
    BY <1>2, <1>3 DEF IsLogin

\* Where the logins of q are after s has come in.
LEMMA LoginsJoined ==
    ASSUME NEW q, NEW s, Joins(down, s, down'), \A j \in Places(s) : ~IsLogin(s[j], q)
    PROVE  \A k \in Places(down') : IsLogin(down'[k], q) => k \in Places(down) /\ IsLogin(down[k], q)
  <1>1. /\ \A k \in Places(down) : down'[k] = down[k]
        /\ \A k \in Places(s) : down'[Len(down) + k] = s[k]
        /\ \A k \in Places(down') : k \in Places(down) \/ \E j \in Places(s) : k = Len(down) + j
    BY Zenon DEF Joins
  <1> QED
    BY <1>1

\* Logins stay where they are, or move up, or the first of them is received.
LEMMA FirstPart ==
    ASSUME TypeOK, [Next]_vars, SavedThenLeft, NEW q \in Roles, OneLogin(q)
    PROVE  /\ \A k \in Places(down') : IsLogin(down'[k], q) =>
                 /\ status'[q] = "absent"
                 /\ \A m \in Places(down') : IsLogin(down'[m], q) => m = k
           /\ InLogin(q)' \/ HasLogin(q)' =>
                 InLogin(q) \/ HasLogin(q) \/ (UNCHANGED up /\ \A b \in Blobs : NoSave(up, q, b))
  <1> DEFINE A == \A k \in Places(down') : IsLogin(down'[k], q) =>
                     /\ status'[q] = "absent"
                     /\ \A m \in Places(down') : IsLogin(down'[m], q) => m = k
             B == InLogin(q)' \/ HasLogin(q)' =>
                     InLogin(q) \/ HasLogin(q) \/ (UNCHANGED up /\ \A b \in Blobs : NoSave(up, q, b))
  <1>1. \A k \in Places(down) : IsLogin(down[k], q) =>
          /\ status[q] = "absent"
          /\ \A m \in Places(down) : IsLogin(down[m], q) => m = k
    BY DEF OneLogin
  <1>2. CASE OnPlayerLoginRequest /\ IsLogin(down[1], q)
    <2>1. /\ Len(down) \in Nat /\ Len(down) > 0
          /\ \A k \in Places(down') : k + 1 \in Places(down) /\ down'[k] = down[k + 1]
      BY <1>2, Taken DEF OnPlayerLoginRequest
    <2>2. 1 \in Places(down) /\ \A k \in Places(down') : k + 1 # 1
      BY <2>1 DEF Places
    <2>3. \A k \in Places(down') : ~IsLogin(down'[k], q)
      BY <1>1, <1>2, <2>1, <2>2
    <2>4. HasLogin(q)
      BY <1>2, <2>2 DEF HasLogin
    <2> QED
      BY <2>3, <2>4
  <1>3. ASSUME InLogin(q)' => InLogin(q), status[q] = "absent" => status'[q] = "absent"
        PROVE  A /\ B
    <2>1. CASE \A k \in Places(down') : IsLogin(down'[k], q) => k \in Places(down) /\ IsLogin(down[k], q)
      <3>1. HasLogin(q)' => HasLogin(q)
        BY <2>1 DEF HasLogin, Places, IsLogin
      <3> QED
        BY <1>1, <1>3, <2>1, <3>1
    <2>2. CASE down' = down
      BY <2>1, <2>2
    <2>3. CASE Received
      <3>1. /\ Len(down) \in Nat
            /\ \A k \in Places(down') : k + 1 \in Places(down) /\ down'[k] = down[k + 1]
        BY <2>3, Taken
      <3>2. \A k, m \in Places(down') : k + 1 = m + 1 => k = m
        BY DEF Places
      <3>3. HasLogin(q)' => HasLogin(q)
        BY <3>1 DEF HasLogin, Places, IsLogin
      <3> QED
        BY <1>1, <1>3, <3>1, <3>2, <3>3
    <2>4. ASSUME NEW r \in Roles, CenterAdmits(r) PROVE A /\ B
      <3> DEFINE s == <<Login(r)>>
      <3>1. Joins(down, s, down') /\ Len(s) = 1 /\ s[1] = Login(r) /\ Places(s) = {1}
        BY <2>4, AdmitComes
      <3> HIDE DEF s
      <3>2. CASE q = r
        <4>1. /\ status[q] = "absent" /\ up' = up
              /\ \A k \in DOMAIN up : up[k] # Leave(q)
              /\ \A k \in DOMAIN down : down[k].kind = "login" => down[k].role # q
          BY <2>4, <3>2, Zenon DEF CenterAdmits
        <4>2. DOMAIN up = Places(up) /\ DOMAIN down = Places(down) /\ Len(up) \in Nat
          BY LenProperties DEF TypeOK, Places
        <4>3. \A k \in Places(down) : ~IsLogin(down[k], q)
          BY <4>1, <4>2 DEF IsLogin
        <4>4. \A b \in Blobs : NoSave(up, q, b)
          <5> SUFFICES ASSUME NEW b \in Blobs, NEW k \in Places(up), IsSave(up[k], q, b) PROVE FALSE
            BY DEF NoSave
          <5>1. PICK m \in (k + 1) .. Len(up) : up[m] = Leave(q)
            BY <4>1, LeftAfterIs DEF LeftAfter
          <5>2. m \in Places(up)
            BY <4>2 DEF Places
          <5> QED
            BY <4>1, <4>2, <5>1, <5>2
        <4>5. A
          <5>1. /\ \A k \in Places(down) : down'[k] = down[k]
                /\ \A k \in Places(down') : k \in Places(down) \/ \E j \in Places(s) : k = Len(down) + j
            BY <3>1, Zenon DEF Joins
          <5>2. \A k \in Places(down') : IsLogin(down'[k], q) => k = Len(down) + 1
            BY <3>1, <4>3, <5>1
          <5> QED
            BY <1>3, <4>1, <5>2
        <4> QED
          BY <4>1, <4>4, <4>5
      <3>3. CASE q # r
        <4>1. \A j \in Places(s) : ~IsLogin(s[j], q)
          BY <3>1, <3>3 DEF IsLogin, Login
        <4>2. \A k \in Places(down') : IsLogin(down'[k], q) => k \in Places(down) /\ IsLogin(down[k], q)
          BY <3>1, <4>1, LoginsJoined
        <4> QED
          BY <2>1, <4>2
      <3> QED
        BY <3>2, <3>3
    <2>5. ASSUME NEW s, Streamed(s) PROVE A /\ B
      <3>1. Joins(down, s, down') /\ \A j \in Places(s) : ~IsLogin(s[j], q)
        BY <2>5, StreamedFacts
      <3>2. \A k \in Places(down') : IsLogin(down'[k], q) => k \in Places(down) /\ IsLogin(down[k], q)
        BY <3>1, LoginsJoined
      <3> QED
        BY <2>1, <3>2
    <2> HIDE DEF A, B
    <2> QED
      BY <2>2, <2>3, <2>4, <2>5, DownCases
  <1> QED
    BY <1>2, <1>3, StatusStep

\* No save of a role comes after those of its last login.
LEMMA NoSaveStep ==
    ASSUME TypeOK, [Next]_vars, NEW q \in Roles, NEW b \in Blobs, status[q] # "loaded", NoSave(up, q, b)
    PROVE  NoSave(up', q, b)
  <1>1. ASSUME UNCHANGED up PROVE NoSave(up', q, b)
    BY <1>1
  <1>2. ASSUME NEW t, Joins(up, t, up'), NoSave(t, q, b) PROVE NoSave(up', q, b)
    <2>1. /\ \A k \in Places(up) : up'[k] = up[k]
          /\ \A k \in Places(t) : up'[Len(up) + k] = t[k]
          /\ \A k \in Places(up') : k \in Places(up) \/ \E j \in Places(t) : k = Len(up) + j
      BY <1>2, Zenon DEF Joins
    <2> QED
      BY <1>2, <2>1 DEF NoSave
  <1>3. CASE CenterReceives
    BY <1>3, UpTaken DEF NoSave
  <1>4. ASSUME NEW r \in Roles, OnApplyEnterScene(r) PROVE NoSave(up', q, b)
    BY <1>2, <1>4, SendsUp, WhichSaves DEF Goes
  <1>5. ASSUME NEW r \in Roles, LoginAbandoned(r) PROVE NoSave(up', q, b)
    BY <1>2, <1>5, SendsUp, WhichSaves DEF Goes
  <1>6. ASSUME NEW r \in Roles, PeriodicSave(r) \/ LogoutSave(r) PROVE NoSave(up', q, b)
    <2>1. status[r] = "loaded"
      BY <1>6 DEF PeriodicSave, LogoutSave
    <2>2. q # r
      BY <2>1
    <2>3. PICK t \in {Saves(r), Last(r)} : Joins(up, t, up')
      BY <1>6, SendsUp DEF Goes
    <2>4. NoSave(t, q, b)
      BY <2>2, <2>3, WhichSaves
    <2> QED
      BY <1>2, <2>3, <2>4
  <1>7. CASE UNCHANGED vars
    BY <1>1, <1>7, Zenon DEF vars
  <1>8. CASE OnPlayerLoginRequest \/ OnLoadRoleData \/ OnLoadAccountData \/ \E c \in Blobs : OnSyncData(c)
    BY <1>1, <1>8, Zenon DEF OnPlayerLoginRequest, OnLoadRoleData, OnLoadAccountData, OnSyncData
  <1>9. ASSUME NEW r \in Roles, CenterAdmits(r) \/ \E c \in Blobs : CenterReads(r, c) PROVE NoSave(up', q, b)
    BY <1>1, <1>9, Zenon DEF CenterAdmits, CenterReads
  <1> QED
    BY <1>3, <1>4, <1>5, <1>6, <1>7, <1>8, <1>9, Zenon DEF Next

\* Every step keeps a role's data stored before its login is on its way.
LEMMA LoginsStep ==
    ASSUME TypeOK, SavedThenLeft, Logins, [Next]_vars PROVE Logins'
  <1> SUFFICES ASSUME NEW q \in Roles PROVE OneLogin(q)'
    BY Zenon DEF Logins, OneLogin, Expected, HasLogin
  <1>1. OneLogin(q)
    BY OneLoginIs
  <1>2. /\ \A k \in Places(down') : IsLogin(down'[k], q) =>
              /\ status'[q] = "absent"
              /\ \A m \in Places(down') : IsLogin(down'[m], q) => m = k
        /\ InLogin(q)' \/ HasLogin(q)' =>
              InLogin(q) \/ HasLogin(q) \/ (UNCHANGED up /\ \A b \in Blobs : NoSave(up, q, b))
    BY <1>1, FirstPart
  <1>3. ASSUME InLogin(q) \/ HasLogin(q), NEW b \in Blobs PROVE NoSave(up', q, b)
    <2>1. status[q] # "loaded"
      <3>1. InLogin(q) => status[q] # "loaded"
        BY DEF InLogin
      <3>2. HasLogin(q) => status[q] = "absent"
        BY <1>1 DEF OneLogin, HasLogin
      <3> QED
        BY <1>3, <3>1, <3>2
    <2>2. NoSave(up, q, b)
      BY <1>1, <1>3 DEF OneLogin
    <2> QED
      BY <2>1, <2>2, NoSaveStep
  <1>4. InLogin(q)' \/ HasLogin(q)' => \A b \in Blobs : NoSave(up', q, b)
    BY <1>2, <1>3
  <1> QED
    BY <1>2, <1>4 DEF OneLogin, Places, NoSave, IsSave, IsLogin

-----------------------------------------------------------------------------
(* What comes after a login is new.                                        *)

FreshDown(q) == \A m \in Places(down) :
    InLogin(q) \/ (\E k \in 1 .. (m - 1) : IsLogin(down[k], q)) => Newest(down[m], q)

FreshRx(q) == InLogin(q) => \A b \in Blobs : \A k \in Places(rx[b].data) :
    rx[b].data[k].role = q => rx[b].data[k].ver = saved[q]

LEMMA FreshIs == Fresh <=> \A q \in Roles : FreshDown(q) /\ FreshRx(q)
  BY Zenon DEF Fresh, FreshDown, FreshRx

\* Versions change only of a role that is loaded, and so neither in a login nor coming.
LEMMA SavedStep ==
    ASSUME TypeOK, [Next]_vars, NEW q \in Roles
    PROVE  saved'[q] = saved[q] \/ (status[q] = "loaded" /\ down' = down /\ ~InLogin(q)')
  <1>1. saved \in [Roles -> Nat] /\ status \in [Roles -> Status]
    BY DEF TypeOK
  <1>2. ASSUME NEW r \in Roles, PeriodicSave(r)
        PROVE  saved'[q] = saved[q] \/ (status[q] = "loaded" /\ down' = down /\ ~InLogin(q)')
    BY <1>1, <1>2 DEF PeriodicSave, InLogin
  <1>3. ASSUME NEW r \in Roles, LogoutSave(r)
        PROVE  saved'[q] = saved[q] \/ (status[q] = "loaded" /\ down' = down /\ ~InLogin(q)')
    <2>1. /\ saved' = [saved EXCEPT ![r] = @ + 1] /\ status' = [status EXCEPT ![r] = "absent"]
          /\ status[r] = "loaded" /\ down' = down
      BY <1>3 DEF LogoutSave, Deleted
    <2> QED
      BY <1>1, <2>1 DEF InLogin
  <1>4. CASE UNCHANGED vars
    BY <1>4, Zenon DEF vars
  <1>5. CASE OnPlayerLoginRequest \/ OnLoadRoleData \/ OnLoadAccountData \/ CenterReceives \/ \E c \in Blobs : OnSyncData(c)
    BY <1>5, Zenon DEF OnPlayerLoginRequest, OnLoadRoleData, OnLoadAccountData, OnSyncData, CenterReceives
  <1>6. ASSUME NEW r \in Roles, OnApplyEnterScene(r) \/ LoginAbandoned(r) \/ CenterAdmits(r) \/ \E c \in Blobs : CenterReads(r, c)
        PROVE saved'[q] = saved[q]
    BY <1>6, Zenon DEF OnApplyEnterScene, LoginAbandoned, CenterAdmits, CenterReads
  <1> QED
    BY <1>2, <1>3, <1>4, <1>5, <1>6, Zenon DEF Next

\* What the center sends of a role that is in a login, or comes to be, is the newest.
LEMMA SentNewest ==
    ASSUME TypeOK, LastSaves, NEW s, Streamed(s), NEW q \in Roles, OneLogin(q), InLogin(q) \/ HasLogin(q)
    PROVE  \A j \in Places(s) : Newest(s[j], q)
  <1>1. PICK r \in Roles, b \in Blobs : Sent(s, r, b) /\ down' = down \o s
    BY Zenon DEF Streamed
  <1>2. \A j \in Places(s) : s[j].role = r /\ (stored[r][b] = saved[r] => Newest(s[j], r))
    BY <1>1, SentFacts
  <1>3. CASE q = r
    <2>1. NoSave(up, q, b)
      BY DEF OneLogin
    <2>2. stored[q][b] = saved[q]
      BY <2>1, LastSaveIs DEF LastSave
    <2> QED
      BY <1>2, <1>3, <2>2
  <1>4. CASE q # r
    BY <1>2, <1>4 DEF Newest
  <1> QED
    BY <1>3, <1>4

\* Nothing older than a role's last save comes behind its login.
LEMMA FreshDownStep ==
    ASSUME TypeOK, LastSaves, SavedThenLeft, [Next]_vars, NEW q \in Roles, OneLogin(q), FreshDown(q)
    PROVE  FreshDown(q)'
  <1>1. ASSUME saved'[q] # saved[q] PROVE FreshDown(q)'
    <2>1. status[q] = "loaded" /\ down' = down /\ ~InLogin(q)'
      BY <1>1, SavedStep
    <2>2. \A k \in Places(down) : ~IsLogin(down[k], q)
      BY <2>1 DEF OneLogin
    <2>3. \A m \in Places(down) : \A k \in 1 .. (m - 1) : k \in Places(down)
      <3>1. Len(down) \in Nat
        BY LenProperties DEF TypeOK
      <3> QED
        BY <3>1 DEF Places
    <2> QED
      BY <2>1, <2>2, <2>3 DEF FreshDown, Places, IsLogin
  <1>2. ASSUME saved'[q] = saved[q] PROVE \A x : Newest(x, q)' <=> Newest(x, q)
    BY <1>2 DEF Newest
  <1>3. Len(down) \in Nat
    BY LenProperties DEF TypeOK
  <1>4. ASSUME saved'[q] = saved[q],
               NEW m \in Places(down'), InLogin(q)' \/ (\E k \in 1 .. (m - 1) : IsLogin(down'[k], q))
        PROVE  Newest(down'[m], q)
    <2>1. CASE Received
      <3>1. /\ \A k \in Places(down') : k + 1 \in Places(down) /\ down'[k] = down[k + 1]
            /\ Len(down') = Len(down) - 1
        BY <2>1, Taken
      <3>2. m + 1 \in Places(down) /\ down'[m] = down[m + 1] /\ m \in Nat
        BY <1>3, <3>1 DEF Places
      <3>3. InLogin(q) \/ \E k \in 1 .. ((m + 1) - 1) : IsLogin(down[k], q)
        <4>1. CASE \E k \in 1 .. (m - 1) : IsLogin(down'[k], q)
          <5>1. PICK k \in 1 .. (m - 1) : IsLogin(down'[k], q)
            BY <4>1
          <5>2. k \in Places(down') /\ k + 1 \in 1 .. ((m + 1) - 1)
            BY <1>3, <3>1, <3>2, <5>1 DEF Places
          <5> QED
            BY <3>1, <5>1, <5>2
        <4>2. CASE InLogin(q)'
          <5>1. InLogin(q) \/ IsLogin(down[1], q)
            BY <4>2, StatusStep
          <5>2. 1 \in 1 .. ((m + 1) - 1)
            BY <1>3, <3>1 DEF Places
          <5> QED
            BY <5>1, <5>2
        <4> QED
          BY <1>4, <4>1, <4>2
      <3> QED
        BY <3>2, <3>3 DEF FreshDown
    <2>2. ASSUME ~Received PROVE InLogin(q)' => InLogin(q)
      BY <2>2, StatusStep DEF OnPlayerLoginRequest
    <2>3. CASE ~Received /\ down' = down
      BY <1>4, <2>2, <2>3 DEF FreshDown
    <2>4. ASSUME ~Received, NEW s, Joins(down, s, down'), \A j \in Places(s) : Newest(s[j], q)
          PROVE  Newest(down'[m], q)
      <3>1. /\ \A k \in Places(down) : down'[k] = down[k]
            /\ \A k \in Places(s) : down'[Len(down) + k] = s[k]
            /\ \A k \in Places(down') : k \in Places(down) \/ \E j \in Places(s) : k = Len(down) + j
        BY <2>4, Zenon DEF Joins
      <3>2. CASE m \in Places(down)
        <4>1. \A k \in 1 .. (m - 1) : k \in Places(down)
          BY <1>3, <3>2 DEF Places
        <4>2. InLogin(q) \/ \E k \in 1 .. (m - 1) : IsLogin(down[k], q)
          BY <1>4, <2>2, <2>4, <3>1, <4>1
        <4> QED
          BY <3>1, <3>2, <4>2 DEF FreshDown
      <3>3. CASE \E j \in Places(s) : m = Len(down) + j
        BY <2>4, <3>1, <3>3
      <3> QED
        BY <3>1, <3>2, <3>3
    <2>5. ASSUME ~Received, NEW r \in Roles, CenterAdmits(r) PROVE Newest(down'[m], q)
      <3>1. /\ Joins(down, <<Login(r)>>, down') /\ <<Login(r)>>[1] = Login(r) /\ Places(<<Login(r)>>) = {1}
        BY <2>5, AdmitComes
      <3>2. Newest(Login(r), q)
        BY DEF Login, Newest
      <3> QED
        BY <2>4, <2>5, <3>1, <3>2
    <2>6. ASSUME ~Received, NEW s, Streamed(s) PROVE Newest(down'[m], q)
      <3>1. Joins(down, s, down') /\ \A j \in Places(s) : ~IsLogin(s[j], q)
        BY <2>6, StreamedFacts
      <3>2. InLogin(q) \/ HasLogin(q)
        <4>1. ASSUME NEW k \in 1 .. (m - 1), IsLogin(down'[k], q) PROVE HasLogin(q)
          <5>1. Len(down') \in Nat
            BY <1>3, <3>1 DEF Joins
          <5>2. k \in Places(down')
            BY <5>1 DEF Places
          <5> QED
            BY <3>1, <4>1, <5>2, LoginsJoined DEF HasLogin
        <4> QED
          BY <1>4, <2>2, <2>6, <4>1
      <3> QED
        BY <2>4, <2>6, <3>1, <3>2, SentNewest
    <2> QED
      BY <2>1, <2>3, <2>5, <2>6, DownCases
  <1> QED
    BY <1>1, <1>2, <1>4 DEF FreshDown, Places, IsLogin

\* Nothing of a role in a login that is older than its last save is in a buffer.
LEMMA FreshRxStep ==
    ASSUME TypeOK, Linked, Buffers, [Next]_vars, NEW q \in Roles, FreshDown(q), FreshRx(q)
    PROVE  FreshRx(q)'
  <1> SUFFICES ASSUME InLogin(q)', NEW b \in Blobs, NEW k \in Places(rx'[b].data), rx'[b].data[k].role = q
               PROVE  rx'[b].data[k].ver = saved'[q]
    BY DEF FreshRx, InLogin, Places
  <1>1. saved'[q] = saved[q]
    BY SavedStep
  <1>2. InLogin(q) => \A j \in Places(rx[b].data) : rx[b].data[j].role = q => rx[b].data[j].ver = saved[q]
    BY DEF FreshRx
  <1>3. Empty.data = <<>> /\ Places(<<>>) = {}
    BY EmptyTyped DEF Places
  <1>4. CASE rx'[b].data = <<>>
    BY <1>3, <1>4
  <1>5. CASE OnPlayerLoginRequest
    <2>1. rx'[b].data = <<>>
      BY <1>5, BuffersLogin DEF OnPlayerLoginRequest
    <2> QED
      BY <1>4, <2>1
  <1>6. ASSUME ~OnPlayerLoginRequest PROVE InLogin(q)
    BY <1>6, StatusStep
  <1>7. CASE ~OnPlayerLoginRequest /\ rx'[b] = rx[b]
    BY <1>1, <1>2, <1>6, <1>7
  <1>8. ASSUME NEW c \in Blobs, OnSyncData(c), ~OnPlayerLoginRequest PROVE rx'[b].data[k].ver = saved'[q]
    <2>1. /\ \A x \in Blobs \ {c} : rx'[x] = rx[x]
          /\ Added(c, down[1]) \/ Refused(c, down[1])
      BY <1>8, SyncSet
    <2>2. CASE Added(c, down[1]) /\ b = c
      <3> DEFINE p == down[1]
                 d == rx[b].data
      <3>1. rx'[b].data = Append(d, p.piece)
        BY <2>2 DEF Added
      <3>2. d \in Seq(Piece) /\ Len(d) \in Nat
        BY DEF TypeOK
      <3>3. Received /\ p \in Down /\ p.kind = "sync" /\ Len(down) \in Nat /\ Len(down) > 0
        BY <1>8, Taken DEF OnSyncData
      <3>4. p.piece \in Piece /\ p.piece.role = p.role
        BY <3>3, DownIs, Behind
      <3>5. /\ Len(Append(d, p.piece)) = Len(d) + 1 /\ Append(d, p.piece)[Len(d) + 1] = p.piece
            /\ \A j \in 1 .. Len(d) : Append(d, p.piece)[j] = d[j]
        BY <3>2, <3>4, AppendProperties
      <3>6. Newest(p, q)
        <4>1. 1 \in Places(down)
          BY <3>3 DEF Places
        <4> QED
          BY <1>6, <1>8, <4>1 DEF FreshDown
      <3>7. p.piece.role = q => p.piece.ver = saved[q]
        BY <3>3, <3>4, <3>6 DEF Newest
      <3> HIDE DEF p, d
      <3>8. k \in 1 .. Len(d) \/ k = Len(d) + 1
        BY <3>1, <3>2, <3>5 DEF Places
      <3>9. CASE k \in 1 .. Len(d)
        <4>1. rx'[b].data[k] = d[k] /\ k \in Places(d)
          BY <3>1, <3>5, <3>9 DEF Places
        <4> QED
          BY <1>1, <1>2, <1>6, <1>8, <4>1 DEF d
      <3>10. CASE k = Len(d) + 1
        BY <1>1, <3>1, <3>5, <3>7, <3>10
      <3> QED
        BY <3>8, <3>9, <3>10
    <2>3. CASE Refused(c, down[1]) /\ b = c
      BY <1>3, <1>4, <2>3 DEF Refused
    <2>4. CASE b # c
      BY <1>7, <1>8, <2>1, <2>4
    <2> QED
      BY <2>1, <2>2, <2>3, <2>4
  <1>9. ASSUME NEW c \in Blobs, IF c = "role" THEN OnLoadRoleData ELSE OnLoadAccountData, ~OnPlayerLoginRequest
        PROVE  rx'[b].data[k].ver = saved'[q]
    <2>1. rx'[c] = Empty /\ \A x \in Blobs \ {c} : rx'[x] = rx[x]
      BY <1>9, LoadSet
    <2> QED
      BY <1>3, <1>4, <1>7, <1>9, <2>1
  <1>10. ASSUME NEW r \in Roles, OnApplyEnterScene(r), ~OnPlayerLoginRequest PROVE rx'[b].data[k].ver = saved'[q]
    <2>1. rx'["role"] = rx["role"] /\ rx'["account"] = [id |-> r, data |-> <<>>]
      BY <1>10, EnterSet
    <2> QED
      BY <1>4, <1>7, <1>10, <2>1 DEF Blobs
  <1>11. CASE UNCHANGED rx /\ ~OnPlayerLoginRequest
    BY <1>7, <1>11
  <1>12. CASE OnLoadRoleData /\ ~OnPlayerLoginRequest
    BY <1>9, <1>12 DEF Blobs
  <1>13. CASE OnLoadAccountData /\ ~OnPlayerLoginRequest
    BY <1>9, <1>13 DEF Blobs
  <1>14. UNCHANGED vars \/ CenterReceives => UNCHANGED rx
    BY Zenon DEF vars, CenterReceives
  <1>15. ASSUME NEW r \in Roles, CenterAdmits(r) \/ (\E c \in Blobs : CenterReads(r, c)) \/ PeriodicSave(r)
                                \/ LogoutSave(r) \/ LoginAbandoned(r)
         PROVE UNCHANGED rx
    BY <1>15, Zenon DEF CenterAdmits, CenterReads, PeriodicSave, LogoutSave, LoginAbandoned
  <1> QED
    BY <1>5, <1>8, <1>10, <1>11, <1>12, <1>13, <1>14, <1>15, Zenon DEF Next

\* Every step keeps what comes in a login new.
LEMMA FreshStep ==
    ASSUME IInv, [Next]_vars PROVE Fresh'
  <1> SUFFICES ASSUME NEW q \in Roles PROVE FreshDown(q)' /\ FreshRx(q)'
    BY Zenon DEF Fresh, FreshDown, FreshRx
  <1>1. TypeOK /\ Linked /\ Buffers /\ LastSaves /\ SavedThenLeft
    BY DEF IInv
  <1>2. FreshDown(q) /\ FreshRx(q)
    BY FreshIs DEF IInv
  <1>3. OneLogin(q)
    BY OneLoginIs DEF IInv
  <1> QED
    BY <1>1, <1>2, <1>3, FreshDownStep, FreshRxStep

\* The invariant holds when the server has started.
LEMMA Started == Init => IInv
  <1> SUFFICES ASSUME Init PROVE IInv
    OBVIOUS
  <1>1. /\ Len(down) = 0 /\ Places(down) = {} /\ Len(up) = 0 /\ Places(up) = {}
        /\ \A r \in Roles : ~InLogin(r)
        /\ \A b \in Blobs : rx[b] = Empty
    BY DEF Init, Places, InLogin
  <1>2. TypeOK
    <2>1. RolesTyped
      BY DEF Init, RolesTyped, Status, Nothing
    <2>2. RxTyped
      <3>1. Empty \in [id : Roles \cup {NoRole}, data : Seq(Piece)] /\ Len(Empty.data) = 0
        BY EmptyTyped
      <3> QED
        BY <3>1, RoleDataAssumption DEF Init, RxTyped
    <2>3. CenterTyped
      BY DEF Init, CenterTyped
    <2>4. up \in Seq(Up) /\ down \in Seq(Down)
      BY DEF Init
    <2> QED
      BY <2>1, <2>2, <2>3, <2>4, TypesAre
  <1>3. Linked
    BY <1>1 DEF Linked, Links
  <1>4. Buffers
    BY <1>1, EmptyTyped DEF Buffers, Buffered, Begun, Blobs
  <1>5. LastSaves
    BY <1>1 DEF Init, LastSaves
  <1>6. SavedThenLeft
    BY <1>1 DEF SavedThenLeft
  <1>7. Logins
    BY <1>1 DEF Logins, Expected
  <1>8. Fresh
    BY <1>1 DEF Fresh
  <1> QED
    BY <1>2, <1>3, <1>4, <1>5, <1>6, <1>7, <1>8 DEF IInv

\* The two queues to and from the center, the buffers the streams share and the versions saved
\* and stored fit together in every state KRelayClient reaches.
THEOREM RoleDataInvariant == Spec => []IInv
  <1>1. ASSUME IInv, [Next]_vars PROVE IInv'
    BY <1>1, TypeStep, LinkedStep, BuffersStep, SavesStep, LeftStep, LoginsStep, FreshStep DEF IInv
  <1> QED
    BY <1>1, Started, PTL DEF Spec

\* Neither buffer is written past its end, however long a stream the center sends
\* (OnSyncRoleData and OnSyncAccountData check the space left), and every message is well formed.
THEOREM RoleDataTyped == Spec => []TypeOK
  <1>1. IInv => TypeOK
    BY DEF IInv
  <1> QED
    BY <1>1, RoleDataInvariant, PTL

-----------------------------------------------------------------------------
(* What is loaded.                                                         *)

\* A step that loads a blob is the end of its stream, whole in its buffer.
LEMMA LoadedFrom ==
    ASSUME TypeOK, [Next]_vars, NEW r \in Roles, NEW b \in got'[r] \ got[r]
    PROVE  /\ b \in Blobs /\ Closing(b) /\ down[1].role = r /\ Whole(b, down[1])
           /\ status[r] = "waiting" /\ content'[r][b] = rx[b].data
  <1>1. got \in [Roles -> SUBSET Blobs] /\ content \in [Roles -> [Blobs -> Seq(Piece)]]
    BY DEF TypeOK
  <1>2. ASSUME NEW c \in Blobs, IF c = "role" THEN OnLoadRoleData ELSE OnLoadAccountData
        PROVE  /\ b \in Blobs /\ Closing(b) /\ down[1].role = r /\ Whole(b, down[1])
               /\ status[r] = "waiting" /\ content'[r][b] = rx[b].data
    <2>1. Closing(c) /\ Head(down) = down[1] /\ down[1].role \in Roles
      BY <1>2, LoadSet, DownIs DEF Closing
    <2>2. c = "role" \/ c = "account"
      BY DEF Blobs
    <2>3. Whole(c, down[1]) /\ status[down[1].role] = "waiting" /\ Takes(down[1].role, c)
      BY <1>2, <2>1, <2>2 DEF OnLoadRoleData, OnLoadAccountData
    <2>4. got' = [got EXCEPT ![down[1].role] = @ \cup {c}]
      BY <2>3, Zenon DEF Takes
    <2>5. r = down[1].role /\ b = c
      BY <1>1, <2>1, <2>4
    <2>6. content' = [content EXCEPT ![r][b] = rx[b].data]
      BY <2>3, <2>5, Zenon DEF Takes
    <2>7. content'[r][b] = rx[b].data
      BY <1>1, <1>2, <2>5, <2>6
    <2> QED
      BY <1>2, <2>1, <2>3, <2>5, <2>7
  <1>3. got' # got
    OBVIOUS
  <1>4. ASSUME NEW q \in Roles, Deleted(q) PROVE FALSE
    BY <1>1, <1>4 DEF Deleted
  <1>5. ~UNCHANGED vars /\ ~CenterReceives /\ ~OnPlayerLoginRequest /\ \A c \in Blobs : ~OnSyncData(c)
    BY <1>3, Zenon DEF vars, CenterReceives, OnPlayerLoginRequest, OnSyncData
  <1>6. ASSUME NEW q \in Roles
        PROVE  /\ ~CenterAdmits(q) /\ \A c \in Blobs : ~CenterReads(q, c)
               /\ ~OnApplyEnterScene(q) /\ ~PeriodicSave(q) /\ ~LogoutSave(q) /\ ~LoginAbandoned(q)
    BY <1>3, <1>4, Zenon DEF CenterAdmits, CenterReads, OnApplyEnterScene, PeriodicSave, LogoutSave, LoginAbandoned
  <1>7. OnLoadRoleData \/ OnLoadAccountData
    BY <1>5, <1>6, Zenon DEF Next
  <1> QED
    BY <1>2, <1>7 DEF Blobs

\* Such a stream is one of its role, and of the newest version.
LEMMA WholeIsNewest ==
    ASSUME IInv, NEW r \in Roles, NEW b \in Blobs, Closing(b), down[1].role = r, Whole(b, down[1]),
           status[r] = "waiting"
    PROVE  LET c == rx[b].data IN
           /\ saved[r] > 0 => c # <<>>
           /\ \A k \in DOMAIN c : c[k] = [role |-> r, ver |-> saved[r], at |-> k - 1]
  <1> DEFINE p == down[1]
             d == rx[b].data
  <1>1. p.kind = "load" /\ p.blob = b /\ p.n \in Nat /\ Len(down) \in Nat /\ Len(down) > 0 /\ Place(p) = p.n
    BY Taken, DownIs DEF Closing, IInv, Place
  <1>2. p.n = Len(d) /\ p.ok
    BY DEF Whole
  <1>3. d \in Seq(Piece) /\ saved[r] \in Nat
    BY DEF IInv, TypeOK
  <1>4. InLogin(r) /\ 1 \in Places(down)
    BY <1>1 DEF InLogin, Places
  <1>5. saved[r] > 0 => p.n > 0
    <2>1. Newest(p, r)
      BY <1>4 DEF IInv, Fresh
    <2> QED
      BY <1>1, <1>2, <2>1 DEF Newest
  <1>6. ASSUME NEW k \in Places(d), p.n > 0 PROVE d[k] = [role |-> r, ver |-> saved[r], at |-> k - 1]
    <2>1. Begun(b)
      BY <1>1, <1>6 DEF Begun
    <2>2. d # <<>>
      BY <1>2, <1>6
    <2>3. Prefix(d, r, p.n)
      BY <1>1, <2>1, <2>2 DEF IInv, Buffers, Buffered
    <2>4. d[k] \in Piece
      BY <1>3, <1>6 DEF Places
    <2>5. d[k].role = r /\ d[k].at = k - 1
      BY <1>2, <1>6, <2>3 DEF Prefix, Places
    <2>6. d[k].ver = saved[r]
      BY <1>4, <1>6, <2>5 DEF IInv, Fresh
    <2> QED
      BY <2>4, <2>5, <2>6 DEF Piece
  <1>7. DOMAIN d = Places(d)
    BY <1>3 DEF Places
  <1>8. Len(<<>>) = 0
    OBVIOUS
  <1>9. \A k \in DOMAIN d : d[k] = [role |-> r, ver |-> saved[r], at |-> k - 1]
    <2>1. Places(d) # {} => p.n > 0
      BY <1>1, <1>2 DEF Places
    <2> QED
      BY <1>6, <1>7, <2>1
  <1> QED
    BY <1>1, <1>2, <1>5, <1>8, <1>9

\* What OnLoadRoleData and OnLoadAccountData load is one whole stream of this role, of the version
\* its last save sent: a relogin rolls nobody back, and nobody gets another role's data, although
\* all roles share the buffers and an answer may meet a later login than the one that asked.
THEOREM NewestDataLoaded == Spec => LoadedFresh
  <1> DEFINE New == \A r \in Roles : \A b \in got'[r] \ got[r] :
                 LET c == content'[r][b] IN
                 /\ saved[r] > 0 => c # <<>>
                 /\ \A k \in DOMAIN c : c[k] = [role |-> r, ver |-> saved[r], at |-> k - 1]
  <1>1. ASSUME IInv, [Next]_vars PROVE New
    <2> TAKE r \in Roles
    <2> TAKE b \in got'[r] \ got[r]
    <2>1. TypeOK
      BY <1>1 DEF IInv
    <2>2. /\ b \in Blobs /\ Closing(b) /\ down[1].role = r /\ Whole(b, down[1])
          /\ status[r] = "waiting" /\ content'[r][b] = rx[b].data
      BY <1>1, <2>1, LoadedFrom
    <2>3. /\ saved[r] > 0 => rx[b].data # <<>>
          /\ \A k \in DOMAIN rx[b].data : rx[b].data[k] = [role |-> r, ver |-> saved[r], at |-> k - 1]
      BY <1>1, <2>2, WholeIsNewest
    <2> QED
      BY <2>2, <2>3
  <1> QED
    BY <1>1, RoleDataInvariant, PTL DEF Spec, LoadedFresh

\* A stream that fits its buffer is in it, whole.
LEMMA WholeIfFits ==
    ASSUME IInv, Received, NEW r \in Roles, NEW n \in 0 .. BufSize,
           Head(down) = [kind |-> "load", blob |-> "role", role |-> r, n |-> n, ok |-> TRUE]
    PROVE  Whole("role", Head(down))
  <1> DEFINE p == down[1]
             d == rx["role"].data
  <1>1. Head(down) = p /\ Len(down) \in Nat /\ Len(down) > 0
    BY Taken DEF IInv
  <1>2. p.kind = "load" /\ p.blob = "role" /\ p.role = r /\ p.n = n /\ p.ok /\ Place(p) = n
    BY <1>1 DEF Place
  <1>3. BufSize \in Nat /\ n \in Nat /\ n <= BufSize
    BY RoleDataAssumption
  <1>4. Buffered("role") /\ (d = <<>> => rx["role"].id = NoRole)
    BY DEF IInv, Buffers, Blobs
  <1>5. CASE n > 0
    <2>1. rx["role"].id = r /\ Prefix(d, r, n)
      <3>1. Begun("role")
        BY <1>1, <1>2, <1>5 DEF Begun
      <3> HIDE DEF p, d
      <3>2. ~(Place(p) > BufSize)
        BY <1>2, <1>3
      <3> QED
        BY <1>2, <1>4, <3>1, <3>2 DEF Buffered, p, d
    <2> QED
      BY <1>1, <1>2, <2>1 DEF Whole, Prefix
  <1>6. CASE n = 0
    <2>1. d = <<>>
      BY <1>2, <1>4, <1>6 DEF Buffered, Begun
    <2>2. Len(d) = 0
      BY <2>1
    <2> QED
      BY <1>1, <1>2, <1>4, <1>6, <2>1, <2>2 DEF Whole
  <1> QED
    BY <1>3, <1>5, <1>6

\* OnLoadRoleData loads a stream that fits the buffer if its player still waits for it, although
\* DoLoadRoleDataRequest leaves the buffer as the last stream left it.
THEOREM WholeStreamLoaded == Spec => RoleArrives
  <1> DEFINE Came(r) ==
                 /\ down # <<>> /\ down' = Tail(down) /\ status[r] = "waiting"
                 /\ \E n \in 0 .. BufSize :
                       Head(down) = [kind |-> "load", blob |-> "role", role |-> r, n |-> n, ok |-> TRUE]
  <1>1. ASSUME IInv, [Next]_vars, NEW r \in Roles, Came(r) PROVE status'[r] = "loaded"
    <2>1. TypeOK /\ Received /\ status \in [Roles -> Status]
      BY <1>1 DEF Received, IInv, TypeOK
    <2>2. Head(down).kind = "load" /\ Head(down).blob = "role" /\ Head(down).role = r
      BY <1>1
    <2>3. Len(down') = Len(down) - 1 /\ Len(down) \in Nat
      BY <2>1, Taken
    <2>4. down' # down /\ ~\E s : Began(s)
      BY <2>3 DEF Began, Joins
    <2>5. OnLoadRoleData
      <3>1. ~UNCHANGED vars /\ ~OnPlayerLoginRequest /\ ~OnLoadAccountData /\ \A c \in Blobs : ~OnSyncData(c)
        BY <2>2, <2>4 DEF vars, OnPlayerLoginRequest, OnLoadAccountData, OnSyncData
      <3>2. ~CenterReceives
        <4>1. ASSUME CenterReceives PROVE FALSE
          <5>1. up # <<>> /\ up \in Seq(Up)
            BY <2>1, <4>1 DEF CenterReceives, TypeOK
          <5>2. Head(up) \in Up
            BY <5>1, TailOf
          <5>3. ~(Head(up).kind = "load" /\ Sends(Head(up).role, Head(up).blob))
            BY <2>1, <2>4, <5>2, UpIs, SendsBegan
          <5> QED
            BY <2>4, <4>1, <5>3, Zenon DEF CenterReceives
        <4> QED
          BY <4>1
      <3>3. ASSUME NEW q \in Roles
            PROVE  ~CenterAdmits(q) /\ \A c \in Blobs : ~CenterReads(q, c)
        BY <2>1, <2>4, AdmitsBegan, SendsBegan DEF CenterReads
      <3>4. ASSUME NEW q \in Roles
            PROVE  ~OnApplyEnterScene(q) /\ ~PeriodicSave(q) /\ ~LogoutSave(q) /\ ~LoginAbandoned(q)
        BY <2>4, Zenon DEF OnApplyEnterScene, PeriodicSave, LogoutSave, LoginAbandoned
      <3> QED
        BY <1>1, <2>4, <3>1, <3>2, <3>3, <3>4, Zenon DEF Next
    <2>6. Whole("role", Head(down))
      BY <1>1, <2>1, WholeIfFits
    <2>7. status' = [status EXCEPT ![r] = "loaded"]
      BY <1>1, <2>2, <2>5, <2>6 DEF OnLoadRoleData
    <2> QED
      BY <2>1, <2>7
  <1>2. ASSUME IInv, [Next]_vars PROVE \A r \in Roles : Came(r) => status'[r] = "loaded"
    BY <1>1, <1>2
  <1> QED
    BY <1>2, RoleDataInvariant, PTL DEF Spec, RoleArrives

=============================================================================
