----------------------------- MODULE DuelProofs -----------------------------
(* The two sides of a duel stay together (Partners) and share one flag       *)
(* (OneFlag), for any number of players.  The helpers of Duel take the       *)
(* players' records as an argument, and so do the lemmas about them.         *)
EXTENDS Duel, TLAPS

Typed(s) == s \in [Players -> Record]

\* What a player that has not lost its partner q shares with it.
Shared(s, p, q) ==
    /\ q \in Players /\ s[q].place # "gone"
    /\ s[q].stage \in Paired /\ s[q].target = p /\ ~s[q].alone
    /\ Fits(s[p].stage, s[q].stage)
    /\ s[p].flag <=> ~s[q].flag

\* The one who asks plants the flag, so that who is asked has none.
Sound(s, p) ==
    /\ s[p].stage \in Paired <=> s[p].target # NoPlayer
    /\ s[p].flag => s[p].stage \in Paired
    /\ s[p].stage = "pksWaitForDuelRespond" => s[p].flag
    /\ s[p].stage = "pksConfirmDuel" => ~s[p].flag
    /\ s[p].stage \in Paired /\ ~s[p].alone => Shared(s, p, s[p].target)

Good(s) == Typed(s) /\ \A p \in Players : Sound(s, p)

-----------------------------------------------------------------------------
(* Records.                                                                 *)

LEMMA StageFacts ==
    /\ Paired \subseteq Stages /\ Asking \subseteq Paired /\ Fighting \subseteq Paired
    /\ "pksIdle" \in Stages \ Paired
  BY DEF Stages, Paired, Asking, Fighting

LEMMA IdleFacts ==
    ASSUME NEW r \in Record
    PROVE  /\ Idle(r) \in Record
           /\ Idle(r).stage = "pksIdle" /\ Idle(r).target = NoPlayer
           /\ ~Idle(r).flag /\ ~Idle(r).alone
           /\ Idle(r).place = r.place /\ Idle(r).fate = r.fate
  BY DEF Idle, Record, Stages

\* A record in which only whether the partner was lost has changed.
LEMMA AloneFacts ==
    ASSUME NEW r \in Record, NEW b \in BOOLEAN
    PROVE  /\ [r EXCEPT !.alone = b] \in Record
           /\ [r EXCEPT !.alone = b].alone = b
           /\ [r EXCEPT !.alone = b].stage = r.stage
           /\ [r EXCEPT !.alone = b].target = r.target
           /\ [r EXCEPT !.alone = b].flag = r.flag
           /\ [r EXCEPT !.alone = b].place = r.place
           /\ [r EXCEPT !.alone = b].fate = r.fate
  BY DEF Record

\* r and n are in the same duel, or in none.
Same(r, n) ==
    /\ n.target = r.target /\ n.flag = r.flag
    /\ n.place = "gone" => r.place = "gone"
    /\ n.stage \in Paired <=> r.stage \in Paired
    /\ n.stage \in Asking \/ r.stage \in Asking => n.stage = r.stage

\* n is in no duel.
Out(n) == n.stage \notin Paired /\ n.target = NoPlayer /\ ~n.flag

-----------------------------------------------------------------------------
(* The three ways a step changes duels.                                     *)

\* Nobody's duel begins or ends.
LEMMA KeepGood ==
    ASSUME NEW s, NEW t, Good(s), Typed(t),
           \A x \in Players : Same(s[x], t[x]) /\ t[x].alone = s[x].alone
    PROVE  Good(t)
  <1>1. ASSUME NEW p \in Players PROVE Sound(t, p)
    <2>1. Sound(s, p) /\ Same(s[p], t[p]) /\ t[p].alone = s[p].alone
      BY DEF Good
    <2>2. ASSUME t[p].stage \in Paired, ~t[p].alone PROVE Shared(t, p, t[p].target)
      <3>1. Shared(s, p, t[p].target)
        BY <2>1, <2>2 DEF Sound, Same
      <3> DEFINE q == t[p].target
      <3>2. q \in Players /\ Same(s[q], t[q]) /\ t[q].alone = s[q].alone
        BY <3>1 DEF Shared
      <3> HIDE DEF q
      <3>3. Fits(t[p].stage, t[q].stage)
        BY <2>1, <3>1, <3>2 DEF Shared, Same, Fits, q, Asking
      <3>4. t[q].place # "gone" /\ t[q].stage \in Paired /\ t[q].target = p /\ ~t[q].alone
        BY <3>1, <3>2 DEF Shared, Same, q
      <3>5. t[p].flag <=> ~t[q].flag
        BY <2>1, <3>1, <3>2 DEF Shared, Same, q
      <3> QED
        BY <3>2, <3>3, <3>4, <3>5 DEF Shared, q
    <2>3. t[p].stage \in Paired <=> t[p].target # NoPlayer
      BY <2>1 DEF Sound, Same
    <2>4. t[p].flag => t[p].stage \in Paired
      BY <2>1 DEF Sound, Same
    <2>5. /\ t[p].stage = "pksWaitForDuelRespond" => t[p].flag
          /\ t[p].stage = "pksConfirmDuel" => ~t[p].flag
      BY <2>1 DEF Sound, Same, Asking
    <2> QED
      BY <2>2, <2>3, <2>4, <2>5 DEF Sound
  <1> QED
    BY <1>1 DEF Good

\* Those in E leave their duels, and their partners are told or marked.
LEMMA LeaveGood ==
    ASSUME NEW s, NEW t, Good(s), Typed(t), NEW E,
           \A x \in Players \cap E : Out(t[x]),
           \A x \in Players \ E :
              /\ Same(s[x], t[x]) /\ t[x].stage = s[x].stage
              /\ t[x].alone <=> s[x].alone \/ (s[x].stage \in Paired /\ s[x].target \in E)
    PROVE  Good(t)
  <1>1. ASSUME NEW p \in Players \cap E PROVE Sound(t, p)
    <2>1. Out(t[p])
      OBVIOUS
    <2> QED
      BY <2>1 DEF Sound, Out, Paired, Asking
  <1>2. ASSUME NEW p \in Players \ E PROVE Sound(t, p)
    <2>1. Sound(s, p) /\ Same(s[p], t[p]) /\ t[p].stage = s[p].stage
      BY DEF Good
    <2>2. ASSUME t[p].stage \in Paired, ~t[p].alone PROVE Shared(t, p, t[p].target)
      <3> DEFINE q == t[p].target
      <3>1. Shared(s, p, q) /\ q \notin E
        BY <1>2, <2>1, <2>2 DEF Sound, Same
      <3>2. q \in Players /\ s[q].target = p /\ ~s[q].alone
        BY <3>1 DEF Shared
      <3>3. Same(s[q], t[q]) /\ t[q].stage = s[q].stage /\ ~t[q].alone
        BY <1>2, <3>1, <3>2
      <3> HIDE DEF q
      <3>4. Fits(t[p].stage, t[q].stage)
        BY <2>1, <3>1, <3>3 DEF Shared
      <3>5. t[q].place # "gone" /\ t[q].stage \in Paired /\ t[q].target = p
        BY <3>1, <3>3 DEF Shared, Same
      <3>6. t[p].flag <=> ~t[q].flag
        BY <2>1, <3>1, <3>3 DEF Shared, Same
      <3> QED
        BY <3>2, <3>3, <3>4, <3>5, <3>6 DEF Shared, q
    <2> QED
      BY <2>1, <2>2 DEF Sound, Same
  <1> QED
    BY <1>1, <1>2 DEF Good

\* Two players begin a duel, or its next stage, together; those who were in a
\* duel with one of them are marked.
LEMMA EngageGood ==
    ASSUME NEW s, NEW t, Good(s), Typed(t), NEW p \in Players, NEW q \in Players, p # q,
           t[p].target = q, t[q].target = p, ~t[p].alone, ~t[q].alone,
           t[p].place # "gone", t[q].place # "gone",
           \/ /\ t[p].stage = "pksWaitForDuelRespond" /\ t[q].stage = "pksConfirmDuel"
              /\ t[p].flag /\ ~t[q].flag
           \/ /\ t[p].stage = "pksPrepareDuel" /\ t[q].stage = "pksPrepareDuel"
              /\ ~t[p].flag /\ t[q].flag,
           \A x \in Players \ {p, q} :
              /\ Same(s[x], t[x]) /\ t[x].stage = s[x].stage
              /\ t[x].alone <=> s[x].alone \/ (s[x].stage \in Paired /\ s[x].target \in {p, q})
    PROVE  Good(t)
  <1>1. Fits(t[p].stage, t[q].stage) /\ Fits(t[q].stage, t[p].stage)
    BY DEF Fits, Asking
  <1>2. t[p].stage \in Paired /\ t[q].stage \in Paired
    BY DEF Paired, Asking
  <1>3. p # NoPlayer /\ q # NoPlayer
    BY DuelAssumption
  <1>4. Sound(t, p)
    BY <1>1, <1>2, <1>3 DEF Sound, Shared
  <1>5. Sound(t, q)
    BY <1>1, <1>2, <1>3 DEF Sound, Shared
  <1>6. ASSUME NEW x \in Players \ {p, q} PROVE Sound(t, x)
    <2>1. Sound(s, x) /\ Same(s[x], t[x]) /\ t[x].stage = s[x].stage
      BY DEF Good
    <2>2. ASSUME t[x].stage \in Paired, ~t[x].alone PROVE Shared(t, x, t[x].target)
      <3> DEFINE y == t[x].target
      <3>1. Shared(s, x, y) /\ y \notin {p, q}
        BY <1>6, <2>1, <2>2 DEF Sound, Same
      <3>2. y \in Players /\ s[y].target = x /\ ~s[y].alone
        BY <3>1 DEF Shared
      <3>3. Same(s[y], t[y]) /\ t[y].stage = s[y].stage /\ ~t[y].alone
        BY <1>6, <3>1, <3>2
      <3> HIDE DEF y
      <3>4. Fits(t[x].stage, t[y].stage)
        BY <2>1, <3>1, <3>3 DEF Shared
      <3>5. t[y].place # "gone" /\ t[y].stage \in Paired /\ t[y].target = x
        BY <3>1, <3>3 DEF Shared, Same
      <3>6. t[x].flag <=> ~t[y].flag
        BY <2>1, <3>1, <3>3 DEF Shared, Same
      <3> QED
        BY <3>2, <3>3, <3>4, <3>5, <3>6 DEF Shared, y
    <2> QED
      BY <2>1, <2>2 DEF Sound, Same
  <1> QED
    BY <1>4, <1>5, <1>6 DEF Good

-----------------------------------------------------------------------------
(* The helpers of Duel.                                                     *)

\* Marked changes no duel, and says whose partner was lost to E.
LEMMA MarkedFacts ==
    ASSUME NEW r \in Record, NEW E
    PROVE  /\ Marked(r, E) \in Record
           /\ Same(r, Marked(r, E)) /\ Marked(r, E).stage = r.stage
           /\ Marked(r, E).alone <=> r.alone \/ (r.stage \in Paired /\ r.target \in E)
  <1> DEFINE b == r.alone \/ (r.stage \in Paired /\ r.target \in E)
             m == [r EXCEPT !.alone = b]
  <1>1. Marked(r, E) = m /\ b \in BOOLEAN
    BY DEF Marked
  <1> HIDE DEF b
  <1>2. m \in Record /\ m.alone = b /\ m.stage = r.stage /\ m.target = r.target
        /\ m.flag = r.flag /\ m.place = r.place
    BY <1>1, AloneFacts
  <1> HIDE DEF m
  <1>3. m \in Record /\ Same(r, m) /\ m.stage = r.stage /\ m.alone = b
    BY <1>2 DEF Same
  <1> QED
    BY <1>1, <1>3 DEF b

LEMMA CancelFacts ==
    ASSUME NEW s, Typed(s), NEW p \in Players, NEW ended, ended = {p} \cup TargetPlayer(s, p)
    PROVE  /\ Typed(CancelDuel(s, p))
           /\ \A x \in Players : CancelDuel(s, p)[x] =
                 IF x \in ended THEN Idle(s[x]) ELSE Marked(s[x], ended)
  <1>1. ASSUME NEW x \in Players
        PROVE  Idle(s[x]) \in Record /\ Marked(s[x], ended) \in Record
    <2>1. s[x] \in Record
      BY DEF Typed
    <2> QED
      BY <2>1, IdleFacts, MarkedFacts
  <1>2. CancelDuel(s, p) = [x \in Players |->
            IF x \in ended THEN Idle(s[x]) ELSE Marked(s[x], ended)]
    BY DEF CancelDuel
  <1> QED
    BY <1>1, <1>2 DEF Typed

\* Cancelling frees both sides, whoever the target is in a duel with by now.
LEMMA CancelGood ==
    ASSUME NEW s, Good(s), NEW p \in Players
    PROVE  /\ Good(CancelDuel(s, p))
           /\ CancelDuel(s, p)[p].stage = "pksIdle"
           /\ \A x \in TargetPlayer(s, p) : CancelDuel(s, p)[x].stage = "pksIdle"
  <1> DEFINE c == CancelDuel(s, p)
             ended == {p} \cup TargetPlayer(s, p)
  <1>1. Typed(s) /\ \A x \in Players : s[x] \in Record
    BY DEF Good, Typed
  <1>2. /\ Typed(c)
        /\ \A x \in Players : c[x] = IF x \in ended THEN Idle(s[x]) ELSE Marked(s[x], ended)
    BY <1>1, CancelFacts
  <1>3. p \in ended /\ TargetPlayer(s, p) \subseteq Players \cap ended
    BY DEF TargetPlayer
  <1> HIDE DEF c, ended
  <1>4. \A x \in Players \cap ended : Out(c[x]) /\ c[x].stage = "pksIdle"
    BY <1>1, <1>2, IdleFacts, StageFacts DEF Out
  <1>5. \A x \in Players \ ended :
           /\ Same(s[x], c[x]) /\ c[x].stage = s[x].stage
           /\ c[x].alone <=> s[x].alone \/ (s[x].stage \in Paired /\ s[x].target \in ended)
    BY <1>1, <1>2, MarkedFacts
  <1>6. Good(c)
    BY <1>2, <1>4, <1>5, LeaveGood
  <1> QED
    BY <1>3, <1>4, <1>6 DEF c

\* Falling and rising change no duel.
LEMMA FateFacts ==
    ASSUME NEW r \in Record, NEW n,
           \/ n = Risen(r)
           \/ n = [Risen(r) EXCEPT !.loser = FALSE]
           \/ n = [r EXCEPT !.fate = "dead"]
           \/ \E k \in Players \cup {NoPlayer}, b \in BOOLEAN :
                 n = [r EXCEPT !.fate = "falling", !.killer = k, !.loser = b]
    PROVE  n \in Record /\ Same(r, n) /\ n.alone = r.alone /\ n.stage = r.stage
  <1>1. Risen(r) \in Record /\ Same(r, Risen(r)) /\ Risen(r).alone = r.alone /\ Risen(r).stage = r.stage
    BY DEF Record, Risen, Same
  <1>2. CASE n = Risen(r)
    BY <1>1, <1>2
  <1>3. CASE n = [Risen(r) EXCEPT !.loser = FALSE]
    <2> DEFINE m == Risen(r)
    <2> HIDE DEF m
    <2>1. m \in Record /\ Same(r, m) /\ m.alone = r.alone /\ m.stage = r.stage /\ n = [m EXCEPT !.loser = FALSE]
      BY <1>1, <1>3 DEF m
    <2>2. n \in Record /\ Same(m, n) /\ n.alone = m.alone /\ n.stage = m.stage
      BY <2>1 DEF Record, Same
    <2> QED
      BY <2>1, <2>2 DEF Same
  <1>4. CASE n = [r EXCEPT !.fate = "dead"]
    BY <1>4 DEF Record, Same
  <1>5. ASSUME NEW k \in Players \cup {NoPlayer}, NEW b \in BOOLEAN,
               n = [r EXCEPT !.fate = "falling", !.killer = k, !.loser = b]
        PROVE  n \in Record /\ Same(r, n) /\ n.alone = r.alone /\ n.stage = r.stage
    BY <1>5 DEF Record, Same
  <1> QED
    BY <1>2, <1>3, <1>4, <1>5

LEMMA StruckGood ==
    ASSUME NEW s, Good(s), NEW p \in Players, NEW k \in Players \cup {NoPlayer}
    PROVE  Good(Struck(s, p, k))
  <1>1. CASE s[p].fate # "up"
    BY <1>1 DEF Struck
  <1>2. CASE s[p].fate = "up"
    <2> DEFINE b == s[p].loser \/ s[p].stage \in Fighting
               n == [s[p] EXCEPT !.fate = "falling", !.killer = k, !.loser = b]
               t == Struck(s, p, k)
    <2>1. Typed(s) /\ s[p] \in Record /\ b \in BOOLEAN
      BY DEF Good, Typed
    <2>2. t = [s EXCEPT ![p] = n]
      BY <1>2, <2>1 DEF Struck, Typed
    <2> HIDE DEF b
    <2>3. n \in Record /\ Same(s[p], n) /\ n.alone = s[p].alone
      BY <2>1, FateFacts
    <2> HIDE DEF n, t
    <2>4. Typed(t) /\ \A x \in Players : Same(s[x], t[x]) /\ t[x].alone = s[x].alone
      BY <2>1, <2>2, <2>3 DEF Typed, Same
    <2> QED
      BY <2>4, KeepGood DEF t
  <1> QED
    BY <1>1, <1>2

LEMMA OneKept ==
    ASSUME NEW s, Good(s), NEW p \in Players, NEW n \in Record, Same(s[p], n),
           n.alone = s[p].alone
    PROVE  Good([s EXCEPT ![p] = n])
  <1> DEFINE t == [s EXCEPT ![p] = n]
  <1>1. Typed(s) /\ \A x \in Players : s[x] \in Record
    BY DEF Good, Typed
  <1>2. Typed(t) /\ t[p] = n /\ \A x \in Players \ {p} : t[x] = s[x]
    BY <1>1 DEF Typed
  <1> HIDE DEF t
  <1>3. \A x \in Players : Same(s[x], t[x]) /\ t[x].alone = s[x].alone
    BY <1>2 DEF Same
  <1> QED
    BY <1>2, <1>3, KeepGood DEF t

\* Defeat ends the duel for both; any other end of a fall leaves it as it is.
LEMMA DiedGood ==
    ASSUME NEW s, Good(s), NEW p \in Players, NEW spared \in BOOLEAN
    PROVE  Good(Died(s, p, spared))
  <1> DEFINE c == CancelDuel(s, p)
             n(x) == IF x = p THEN [Risen(c[x]) EXCEPT !.loser = FALSE]
                     ELSE IF x \in TargetPlayer(s, p) /\ s[x].fate = "falling"
                     THEN Risen(c[x]) ELSE c[x]
             lost == [x \in Players |-> n(x)]
  <1>1. s[p] \in Record
    BY DEF Good, Typed
  <1>2. Good(lost)
    <2>1. Good(c) /\ \A x \in Players : c[x] \in Record
      BY CancelGood DEF Good, Typed
    <2> HIDE DEF c
    <2>2. ASSUME NEW x \in Players
          PROVE  n(x) \in Record /\ Same(c[x], n(x)) /\ n(x).alone = c[x].alone
      <3>1. Same(c[x], c[x])
        BY DEF Same
      <3> QED
        BY <2>1, <3>1, FateFacts
    <2> HIDE DEF n
    <2>3. Typed(lost) /\ \A x \in Players : lost[x] = n(x)
      BY <2>2 DEF Typed
    <2> HIDE DEF lost
    <2> QED
      BY <2>1, <2>2, <2>3, KeepGood
  <1>3. Good([s EXCEPT ![p] = Risen(@)])
    BY <1>1, FateFacts, OneKept
  <1>4. Good([s EXCEPT ![p].fate = "dead"])
    BY <1>1, FateFacts, OneKept
  <1>5. Died(s, p, spared) \in {s, lost, [s EXCEPT ![p] = Risen(@)], [s EXCEPT ![p].fate = "dead"]}
    BY DEF Died
  <1> QED
    BY <1>2, <1>3, <1>4, <1>5

LEMMA NextStageFacts ==
    ASSUME NEW p \in Players, pk[p] \in Record
    PROVE  /\ NextStage(p) \in Stages
           /\ NextStage(p) \in Paired <=> pk[p].stage \in Paired
           /\ NextStage(p) \in Asking \/ pk[p].stage \in Asking => NextStage(p) = pk[p].stage
  BY DEF NextStage, Record, Stages, Paired, Asking, Fighting

LEMMA ActivatedGood ==
    ASSUME Good(pk), NEW p \in Players, NEW barred \in BOOLEAN PROVE Good(Activated(p, barred))
  <1>1. pk[p] \in Record
    BY DEF Good, Typed
  <1> DEFINE b == pk[p].due /\ NextStage(p) = pk[p].stage
             n == [pk[p] EXCEPT !.stage = NextStage(p), !.due = b]
  <1>2. b \in BOOLEAN
    BY <1>1
  <1>3. Activated(p, barred) \in {CancelDuel(pk, p), [pk EXCEPT ![p] = n]}
    BY DEF Activated
  <1> HIDE DEF b
  <1>4. n \in Record /\ n.stage = NextStage(p) /\ n.target = pk[p].target
        /\ n.flag = pk[p].flag /\ n.place = pk[p].place /\ n.alone = pk[p].alone
    BY <1>1, <1>2, NextStageFacts DEF Record
  <1> HIDE DEF n
  <1>5. Same(pk[p], n)
    BY <1>1, <1>4, NextStageFacts DEF Same
  <1> QED
    BY <1>3, <1>4, <1>5, OneKept, CancelGood

-----------------------------------------------------------------------------
(* The actions.                                                             *)

\* t differs from s in that p and q are at the stages a and b of a duel.
Begun(s, t, p, q, a, b) ==
    /\ Typed(t)
    /\ t[p].stage = a /\ t[p].target = q /\ ~t[p].alone
    /\ t[p].flag = s[p].flag /\ t[p].place = s[p].place
    /\ t[q].stage = b /\ t[q].target = p /\ ~t[q].alone
    /\ t[q].flag = s[q].flag /\ t[q].place = s[q].place
    /\ \A x \in Players \ {p, q} : t[x] = Marked(s[x], {p, q})

\* Engaged begins a duel of p and q, or takes it on, in a state that differs from
\* pk in p's flag or loser only.
LEMMA EngagedFacts ==
    ASSUME NEW s, Typed(s), NEW p \in Players, NEW q \in Players, p # q,
           NEW a \in Stages, NEW b \in Stages, NEW t, t = Engaged(s, p, q, a, b)
    PROVE  Begun(s, t, p, q, a, b)
  <1> DEFINE mine == [s[p] EXCEPT !.stage = a, !.target = q, !.due = FALSE, !.alone = FALSE]
             yours == [s[q] EXCEPT !.stage = b, !.target = p, !.due = FALSE, !.alone = FALSE]
  <1>1. \A x \in Players : s[x] \in Record
    BY DEF Typed
  <1>2. mine \in Record /\ mine.stage = a /\ mine.target = q /\ ~mine.alone
        /\ mine.flag = s[p].flag /\ mine.place = s[p].place
    BY <1>1 DEF Record
  <1>3. yours \in Record /\ yours.stage = b /\ yours.target = p /\ ~yours.alone
        /\ yours.flag = s[q].flag /\ yours.place = s[q].place
    BY <1>1 DEF Record
  <1>4. t = [x \in Players |-> CASE x = p -> mine [] x = q -> yours
                                 [] OTHER -> Marked(s[x], {p, q})]
    BY DEF Engaged
  <1> HIDE DEF mine, yours
  <1>5. /\ t[p] = mine /\ t[q] = yours
        /\ \A x \in Players \ {p, q} : t[x] = Marked(s[x], {p, q})
    BY <1>4
  <1>6. \A x \in Players : t[x] \in Record
    BY <1>1, <1>2, <1>3, <1>5, MarkedFacts
  <1>7. Typed(t)
    BY <1>4, <1>6 DEF Typed
  <1> QED
    BY <1>2, <1>3, <1>5, <1>7 DEF Begun

LEMMA ApplyDuelGood ==
    ASSUME Good(pk), NEW p \in Players, NEW q \in Players, ApplyDuel(p, q) PROVE Good(pk')
  <1> DEFINE s == [pk EXCEPT ![p].flag = TRUE]
  <1>1. Typed(pk) /\ \A x \in Players : pk[x] \in Record
    BY DEF Good, Typed
  <1>2. /\ s[p] \in Record /\ s[p].flag /\ s[p].place = pk[p].place
        /\ \A x \in Players \ {p} : s[x] = pk[x]
    <2> DEFINE n == [pk[p] EXCEPT !.flag = TRUE]
    <2>1. s[p] = n /\ \A x \in Players \ {p} : s[x] = pk[x]
      BY <1>1 DEF Typed
    <2> HIDE DEF s
    <2>2. n \in Record /\ n.flag = TRUE /\ n.place = pk[p].place
      BY <1>1 DEF Record
    <2> HIDE DEF n
    <2> QED
      BY <2>1, <2>2
  <1>3. Typed(s)
    BY <1>1, <1>2 DEF Typed
  <1>4. /\ p # q /\ pk[p].place = "near" /\ pk[q].place = "near" /\ ~pk[q].flag
        /\ pk' = Engaged(s, p, q, "pksWaitForDuelRespond", "pksConfirmDuel")
    BY StageFacts DEF ApplyDuel, Good, Sound
  <1> HIDE DEF s
  <1>5. "pksWaitForDuelRespond" \in Stages /\ "pksConfirmDuel" \in Stages
    BY DEF Stages, Paired, Asking
  <1>6. /\ Typed(pk')
        /\ pk'[p].stage = "pksWaitForDuelRespond" /\ pk'[p].target = q /\ ~pk'[p].alone
        /\ pk'[p].flag = s[p].flag /\ pk'[p].place = s[p].place
        /\ pk'[q].stage = "pksConfirmDuel" /\ pk'[q].target = p /\ ~pk'[q].alone
        /\ pk'[q].flag = s[q].flag /\ pk'[q].place = s[q].place
        /\ \A x \in Players \ {p, q} : pk'[x] = Marked(s[x], {p, q})
    <2>1. Begun(s, pk', p, q, "pksWaitForDuelRespond", "pksConfirmDuel")
      BY <1>3, <1>4, <1>5, EngagedFacts
    <2> QED
      BY <2>1 DEF Begun
  <1>7. \A x \in Players \ {p, q} :
           /\ Same(pk[x], pk'[x]) /\ pk'[x].stage = pk[x].stage
           /\ pk'[x].alone <=> pk[x].alone \/ (pk[x].stage \in Paired /\ pk[x].target \in {p, q})
    BY <1>1, <1>2, <1>6, MarkedFacts
  <1>8. pk'[p].flag /\ pk'[p].place # "gone" /\ ~pk'[q].flag /\ pk'[q].place # "gone"
    BY <1>2, <1>4, <1>6
  <1> QED
    BY <1>4, <1>6, <1>7, <1>8, EngageGood

LEMMA AcceptDuelGood ==
    ASSUME Good(pk), NEW p \in Players, AcceptDuel(p) PROVE Good(pk')
  <1> DEFINE q == pk[p].target
             s == [pk EXCEPT ![p].loser = FALSE]
  <1>1. Typed(pk) /\ \A x \in Players : pk[x] \in Record
    BY DEF Good, Typed
  <1>2. CASE MayAccept(p, q) /\ pk' = Engaged(s, p, q, "pksPrepareDuel", "pksPrepareDuel")
    <2>1. /\ s[p] \in Record /\ s[p].flag = pk[p].flag /\ s[p].place = pk[p].place
          /\ \A x \in Players \ {p} : s[x] = pk[x]
      <3> DEFINE n == [pk[p] EXCEPT !.loser = FALSE]
      <3>1. s[p] = n /\ \A x \in Players \ {p} : s[x] = pk[x]
        BY <1>1 DEF Typed
      <3> HIDE DEF s, q
      <3>2. n \in Record /\ n.flag = pk[p].flag /\ n.place = pk[p].place
        BY <1>1 DEF Record
      <3> HIDE DEF n
      <3> QED
        BY <3>1, <3>2
    <2>2. Typed(s)
      BY <1>1, <2>1 DEF Typed
    <2>3. /\ q \in Players /\ p # q /\ pk[p].place # "gone" /\ pk[q].place # "gone"
          /\ ~pk[p].flag /\ pk[q].flag
      BY <1>2 DEF MayAccept, TargetPlayer, Good, Sound, AcceptDuel, InScene
    <2> HIDE DEF s, q
    <2>4. "pksPrepareDuel" \in Stages
      BY DEF Stages, Paired
    <2>5. /\ Typed(pk')
          /\ pk'[p].stage = "pksPrepareDuel" /\ pk'[p].target = q /\ ~pk'[p].alone
          /\ pk'[p].flag = s[p].flag /\ pk'[p].place = s[p].place
          /\ pk'[q].stage = "pksPrepareDuel" /\ pk'[q].target = p /\ ~pk'[q].alone
          /\ pk'[q].flag = s[q].flag /\ pk'[q].place = s[q].place
          /\ \A x \in Players \ {p, q} : pk'[x] = Marked(s[x], {p, q})
      <3>1. Begun(s, pk', p, q, "pksPrepareDuel", "pksPrepareDuel")
        BY <1>2, <2>2, <2>3, <2>4, EngagedFacts
      <3> QED
        BY <3>1 DEF Begun
    <2>6. \A x \in Players \ {p, q} :
             /\ Same(pk[x], pk'[x]) /\ pk'[x].stage = pk[x].stage
             /\ pk'[x].alone <=> pk[x].alone \/ (pk[x].stage \in Paired /\ pk[x].target \in {p, q})
      BY <1>1, <2>1, <2>5, MarkedFacts
    <2> QED
      BY <2>1, <2>3, <2>5, <2>6, EngageGood
  <1>3. CASE pk' = CancelDuel(pk, p)
    BY <1>3, CancelGood
  <1> QED
    BY <1>2, <1>3 DEF AcceptDuel

LEMMA SlayGood ==
    ASSUME Good(pk), NEW p \in Players, ApplySlay(p) \/ CloseSlay(p) PROVE Good(pk')
  <1> DEFINE stage == IF ApplySlay(p) THEN "pksStartSlay" ELSE "pksExitSlay"
             n == [pk[p] EXCEPT !.stage = stage, !.due = FALSE]
  <1>1. pk[p] \in Record /\ Typed(pk)
    BY DEF Good, Typed
  <1>2. pk' = [pk EXCEPT ![p] = n]
    BY <1>1 DEF ApplySlay, CloseSlay, Typed
  <1>3. stage \in Stages /\ stage \notin Paired /\ pk[p].stage \notin Paired
    BY DEF ApplySlay, CloseSlay, Stages, Paired, Asking, Fighting
  <1>4. n \in Record /\ n.stage = stage /\ n.target = pk[p].target
        /\ n.flag = pk[p].flag /\ n.place = pk[p].place /\ n.alone = pk[p].alone
    BY <1>1, <1>3 DEF Record
  <1> HIDE DEF n, stage
  <1>5. Same(pk[p], n)
    BY <1>3, <1>4, StageFacts DEF Same
  <1> QED
    BY <1>2, <1>4, <1>5, OneKept

LEMMA FrameGood ==
    ASSUME Good(pk), NEW p \in Players, NEW turn \in BOOLEAN, Frame(p, turn) PROVE Good(pk')
  <1>1. PICK barred \in BOOLEAN, spared \in BOOLEAN :
           LET s == IF turn THEN Activated(p, barred) ELSE pk
           IN \/ pk' = Died(s, p, spared)
              \/ \E k \in Blows(p) : pk' = Died(Struck(s, p, k), p, spared)
    BY DEF Frame
  <1> DEFINE s == IF turn THEN Activated(p, barred) ELSE pk
  <1>2. Good(s)
    BY ActivatedGood
  <1> HIDE DEF s
  <1>3. Blows(p) \subseteq Players \cup {NoPlayer}
    BY DEF Blows
  <1>4. CASE pk' = Died(s, p, spared)
    BY <1>2, <1>4, DiedGood
  <1>5. ASSUME NEW k \in Blows(p), pk' = Died(Struck(s, p, k), p, spared) PROVE Good(pk')
    <2>1. Good(Struck(s, p, k))
      BY <1>2, <1>3, StruckGood
    <2> QED
      BY <1>5, <2>1, DiedGood
  <1> QED
    BY <1>1, <1>4, <1>5 DEF s

LEMMA StrikeReviveGood ==
    ASSUME Good(pk), NEW p \in Players, Strike(p) \/ Revive(p) PROVE Good(pk')
  <1>1. CASE Strike(p)
    <2>1. Blows(p) \subseteq Players \cup {NoPlayer}
      BY DEF Blows
    <2> QED
      BY <1>1, <2>1, StruckGood DEF Strike
  <1>2. CASE Revive(p)
    <2>1. pk[p] \in Record /\ pk' = [pk EXCEPT ![p] = Risen(@)]
      BY <1>2 DEF Revive, Good, Typed
    <2> QED
      BY <2>1, FateFacts, OneKept
  <1> QED
    BY <1>1, <1>2

LEMMA TimeUpGood ==
    ASSUME Good(pk), NEW p \in Players, TimeUp(p) PROVE Good(pk')
  <1> DEFINE n(x) == [pk[x] EXCEPT !.due = TRUE]
  <1>1. Typed(pk) /\ \A x \in Players : pk[x] \in Record
    BY DEF Good, Typed
  <1>2. PICK due : pk' = [x \in Players |-> IF x \in due THEN n(x) ELSE pk[x]]
    BY DEF TimeUp
  <1>3. ASSUME NEW x \in Players
        PROVE  n(x) \in Record /\ Same(pk[x], n(x)) /\ n(x).alone = pk[x].alone
    BY <1>1 DEF Record, Same
  <1> HIDE DEF n
  <1>4. Typed(pk') /\ \A x \in Players : Same(pk[x], pk'[x]) /\ pk'[x].alone = pk[x].alone
    BY <1>1, <1>2, <1>3 DEF Typed, Same
  <1> QED
    BY <1>4, KeepGood

\* Walking, changing the map and coming back.
LEMMA PlaceGood ==
    ASSUME Good(pk), NEW p \in Players,
           Walk(p) \/ LeaveScene(p) \/ EnterScene(p) \/ NewPlayer(p)
    PROVE  Good(pk')
  <1>1. pk[p] \in Record /\ Typed(pk)
    BY DEF Good, Typed
  <1>2. PICK place \in Places \ {"gone"} : pk' = [pk EXCEPT ![p].place = place]
    BY DEF Walk, LeaveScene, EnterScene, NewPlayer, Places, Ground
  <1> DEFINE n == [pk[p] EXCEPT !.place = place]
  <1>3. pk' = [pk EXCEPT ![p] = n]
    BY <1>1, <1>2 DEF Typed
  <1>4. n \in Record /\ Same(pk[p], n) /\ n.alone = pk[p].alone
    BY <1>1, <1>2 DEF Record, Same
  <1> HIDE DEF n
  <1> QED
    BY <1>3, <1>4, OneKept

LEMMA DelPlayerGood ==
    ASSUME Good(pk), NEW p \in Players, DelPlayer(p) PROVE Good(pk')
  <1>1. Typed(pk) /\ \A x \in Players : pk[x] \in Record
    BY DEF Good, Typed
  <1>2. pk' = [x \in Players |-> IF x = p THEN Saved(pk[p]) ELSE Marked(pk[x], {p})]
    BY DEF DelPlayer
  <1>3. Saved(pk[p]) \in Record /\ Out(Saved(pk[p]))
    <2>1. Idle(pk[p]) \in Record /\ Idle(pk[p]).target = NoPlayer /\ ~Idle(pk[p]).flag
      BY <1>1, IdleFacts
    <2> DEFINE stage == IF pk[p].stage \in {"pksSlaying", "pksExitSlay"} THEN pk[p].stage ELSE "pksIdle"
               fate == IF pk[p].fate = "dead" THEN "dead" ELSE "up"
               killer == IF pk[p].fate = "dead" THEN pk[p].killer ELSE NoPlayer
               i == Idle(pk[p])
               n == [i EXCEPT !.place = "gone", !.loser = FALSE, !.stage = stage,
                              !.fate = fate, !.killer = killer]
    <2>2. stage \in Stages \ Paired
      BY DEF Stages, Paired, Asking, Fighting
    <2>3. fate \in {"up", "falling", "dead"} /\ killer \in Players \cup {NoPlayer}
      BY <1>1 DEF Record
    <2>4. Saved(pk[p]) = n
      BY DEF Saved
    <2> HIDE DEF stage, fate, killer, i
    <2>5. n \in Record /\ n.stage = stage /\ n.target = i.target /\ n.flag = i.flag
      BY <2>1, <2>2, <2>3 DEF Record, Places, i
    <2> QED
      BY <2>1, <2>2, <2>4, <2>5 DEF Out, i
  <1>4. \A x \in Players \ {p} : pk'[x] = Marked(pk[x], {p})
    BY <1>2
  <1>5. Typed(pk')
    BY <1>1, <1>2, <1>3, MarkedFacts DEF Typed
  <1>6. \A x \in Players \ {p} :
           /\ Same(pk[x], pk'[x]) /\ pk'[x].stage = pk[x].stage
           /\ pk'[x].alone <=> pk[x].alone \/ (pk[x].stage \in Paired /\ pk[x].target \in {p})
    BY <1>1, <1>4, MarkedFacts
  <1>7. \A x \in Players \cap {p} : Out(pk'[x])
    BY <1>2, <1>3
  <1> QED
    BY <1>5, <1>6, <1>7, LeaveGood

LEMMA NextGood == Good(pk) /\ Next => Good(pk')
  <1> SUFFICES ASSUME Good(pk), Next PROVE Good(pk')
    OBVIOUS
  <1>1. PICK p \in Players :
          \/ \E q \in Players : ApplyDuel(p, q)
          \/ RefuseDuel(p) \/ AcceptDuel(p) \/ LossDuel(p)
          \/ ApplySlay(p) \/ CloseSlay(p)
          \/ \E turn \in BOOLEAN : Frame(p, turn)
          \/ Strike(p) \/ Revive(p) \/ TimeUp(p)
          \/ Walk(p) \/ LeaveScene(p) \/ EnterScene(p) \/ DelPlayer(p) \/ NewPlayer(p)
    BY DEF Next
  <1>2. ASSUME NEW q \in Players, ApplyDuel(p, q) PROVE Good(pk')
    BY <1>2, ApplyDuelGood
  <1>3. CASE RefuseDuel(p) \/ LossDuel(p)
    BY <1>3, CancelGood DEF RefuseDuel, LossDuel
  <1>4. CASE AcceptDuel(p)
    BY <1>4, AcceptDuelGood
  <1>5. CASE ApplySlay(p) \/ CloseSlay(p)
    BY <1>5, SlayGood
  <1>6. ASSUME NEW turn \in BOOLEAN, Frame(p, turn) PROVE Good(pk')
    BY <1>6, FrameGood
  <1>7. CASE Strike(p) \/ Revive(p)
    BY <1>7, StrikeReviveGood
  <1>8. CASE TimeUp(p)
    BY <1>8, TimeUpGood
  <1>9. CASE Walk(p) \/ LeaveScene(p) \/ EnterScene(p) \/ NewPlayer(p)
    BY <1>9, PlaceGood
  <1>10. CASE DelPlayer(p)
    BY <1>10, DelPlayerGood
  <1> QED
    BY <1>1, <1>2, <1>3, <1>4, <1>5, <1>6, <1>7, <1>8, <1>9, <1>10

LEMMA InitGood == Init => Good(pk)
  BY DuelAssumption DEF Init, Good, Typed, Sound, Record, Places, Ground, Stages, Paired, Asking, Fighting

DuelInv == Good(pk)

LEMMA DuelInvariant == Spec => []DuelInv
  <1>1. Init => DuelInv
    BY InitGood DEF DuelInv
  <1>2. DuelInv /\ [Next]_vars => DuelInv'
    BY NextGood DEF DuelInv, vars, Good, Typed, Sound, Shared
  <1> QED
    BY <1>1, <1>2, PTL DEF Spec

-----------------------------------------------------------------------------
(* What follows for every reachable state.                                  *)

\* Nobody but a player in a duel has a target, whoever cancels what.
THEOREM DuelTyped == Spec => []TypeOK
  <1>1. DuelInv => TypeOK
    BY DEF DuelInv, Good, Typed, Sound, TypeOK
  <1> QED
    BY <1>1, DuelInvariant, PTL

\* The two sides of a duel end it together, unless one has left the server or was
\* drawn into a duel with a third player.
THEOREM PartnersTogether == Spec => []Partners
  <1>1. DuelInv => Partners
    BY DEF DuelInv, Good, Sound, Shared, Partners
  <1> QED
    BY <1>1, DuelInvariant, PTL

\* No flag outlives its duel, and no duel has two flags or none.
THEOREM FlagOfDuel == Spec => []OneFlag
  <1>1. DuelInv => OneFlag
    BY DEF DuelInv, Good, Sound, Shared, OneFlag
  <1> QED
    BY <1>1, DuelInvariant, PTL

=============================================================================
