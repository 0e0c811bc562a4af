-------------------------- MODULE SceneLoaderProofs --------------------------
(* Theorems about SceneLoader, for any maps and copies, any number of requests *)
(* and any length of the two lists.                                           *)
EXTENDS SceneLoader, SetInduction, SequenceTheorems

USE LoaderAssumption

-----------------------------------------------------------------------------
(* How often a scene is on a list.                                          *)

LEMMA TimesNat == ASSUME NEW q \in Seq(IDs), NEW i PROVE Times(q, i) \in Nat
  <1>1. IsFiniteSet(1 .. Len(q))
    BY FS_Interval, LenProperties
  <1>2. IsFiniteSet({n \in 1 .. Len(q) : q[n] = i})
    BY <1>1, FS_Subset
  <1> QED
    BY <1>2, FS_CardinalityType DEF Times

LEMMA TimesAppend ==
    ASSUME NEW q \in Seq(IDs), NEW x \in IDs, NEW i
    PROVE  Times(Append(q, x), i) = Times(q, i) + (IF x = i THEN 1 ELSE 0)
  <1> DEFINE At(s) == {n \in 1 .. Len(s) : s[n] = i}
  <1>1. Len(q) \in Nat /\ IsFiniteSet(1 .. Len(q))
    BY FS_Interval, LenProperties
  <1>2. IsFiniteSet(At(q)) /\ Len(q) + 1 \notin At(q)
    BY <1>1, FS_Subset
  <1>3. At(Append(q, x)) = IF x = i THEN At(q) \cup {Len(q) + 1} ELSE At(q)
    BY <1>1, AppendProperties
  <1>4. Cardinality(At(q) \cup {Len(q) + 1}) = Cardinality(At(q)) + 1
    BY <1>2, FS_AddElement
  <1>5. Cardinality(At(q)) \in Nat
    BY <1>2, FS_CardinalityType
  <1> HIDE DEF At
  <1>6. Cardinality(At(Append(q, x))) = Cardinality(At(q)) + (IF x = i THEN 1 ELSE 0)
    BY <1>3, <1>4, <1>5
  <1> QED
    BY <1>6 DEF Times, At

LEMMA TimesTail ==
    ASSUME NEW q \in Seq(IDs), q # <<>>, NEW i
    PROVE  Times(q, i) = Times(Tail(q), i) + (IF Head(q) = i THEN 1 ELSE 0)
  <1> DEFINE At(s) == {n \in 1 .. Len(s) : s[n] = i}
             f == [n \in At(q) \ {1} |-> n - 1]
  <1>1. /\ Len(q) \in Nat \ {0} /\ IsFiniteSet(1 .. Len(q)) /\ q[1] = Head(q)
        /\ Tail(q) \in Seq(IDs) /\ Len(Tail(q)) = Len(q) - 1
        /\ \A n \in 1 .. Len(q) - 1 : Tail(q)[n] = q[n + 1]
    BY FS_Interval, LenProperties, EmptySeq, HeadTailProperties
  <1>2. IsFiniteSet(At(q)) /\ IsFiniteSet(At(q) \ {1})
    BY <1>1, FS_Subset
  <1>3. f \in Bijection(At(q) \ {1}, At(Tail(q)))
    <2>1. f \in [At(q) \ {1} -> At(Tail(q))]
      BY <1>1
    <2>2. \A m, n \in At(q) \ {1} : f[m] = f[n] => m = n
      OBVIOUS
    <2>3. \A t \in At(Tail(q)) : t + 1 \in At(q) \ {1} /\ f[t + 1] = t
      BY <1>1
    <2> QED
      BY <2>1, <2>2, <2>3 DEF Bijection, Injection, Surjection, IsInjective
  <1>4. Cardinality(At(Tail(q))) = Cardinality(At(q) \ {1})
    <2>1. ExistsBijection(At(q) \ {1}, At(Tail(q)))
      BY <1>3, Zenon DEF ExistsBijection
    <2> HIDE DEF At, f
    <2> QED
      BY <1>2, <2>1, FS_Bijection
  <1>5. 1 \in At(q) <=> Head(q) = i
    BY <1>1
  <1>6. Cardinality(At(q) \ {1}) = IF 1 \in At(q) THEN Cardinality(At(q)) - 1 ELSE Cardinality(At(q))
    BY <1>2, FS_RemoveElement
  <1>7. Cardinality(At(q)) \in Nat
    BY <1>2, FS_CardinalityType
  <1> HIDE DEF At
  <1>8. Cardinality(At(q)) = Cardinality(At(Tail(q))) + (IF Head(q) = i THEN 1 ELSE 0)
    BY <1>4, <1>5, <1>6, <1>7
  <1> QED
    BY <1>8 DEF Times, At

-----------------------------------------------------------------------------
(* The inductive invariant.                                                 *)

Busy == {"lookup", "check", "terrain", "regions", "post"}

Standing(g) == {i \in IDs : Registered(i) /\ scene[i].ground = g}

\* The scenes and the terrains, which hold to the end of the server.
Grounds ==
    /\ \A i \in IDs : i >= nextID => scene[i].state = "unknown"
    /\ \A i \in IDs : Registered(i) => scene[i].ground \in IDs
    /\ \A g \in IDs : terrain[g].refs = Cardinality(Standing(g))
    /\ \A i \in IDs : scene[i].state \in {"ssCompleteLoading", "ssNormal"} =>
          terrain[scene[i].ground].m_bLoadFlag
    /\ worker.at \in Busy => worker.id \in IDs
    /\ worker.at = "regions" /\ Registered(worker.id) =>
          terrain[scene[worker.id].ground].m_bLoadFlag

Stations(i) == Times(loading, i) + Held(i) + Times(loaded, i) + answers[i]

\* A scene is on one station at most, and in the state that goes with it.
Station(i) ==
    /\ Times(loading, i) > 0 => scene[i].state = "ssLoading"
    /\ Held(i) > 0 => IF worker.at = "post"
                      THEN scene[i].state \in {"ssCompleteLoading", "ssFailedLoading"}
                      ELSE scene[i].state = "ssLoading"
    /\ Times(loaded, i) > 0 => scene[i].state \in {"ssCompleteLoading", "ssFailedLoading"}
    /\ scene[i].state = "ssNormal" => answers[i] > 0
    /\ Stations(i) <= 1
    /\ i >= nextID => Stations(i) = 0
    /\ i < nextID => overrun \/ RacyIndex \/ Stations(i) = 1

Running == ~exiting =>
    /\ ~quit
    /\ RacyIndex \/ worker.at # "ended"
    /\ \A i \in IDs : Station(i)

IInv == TypeOK /\ Grounds /\ Running
-----------------------------------------------------------------------------
(* Lemmas about the operators of the main loop.                              *)

LEMMA StandingFinite == ASSUME NEW g PROVE IsFiniteSet(Standing(g))
  <1>1. IsFiniteSet(IDs)
    BY FS_Interval DEF IDs
  <1> QED
    BY <1>1, FS_Subset DEF Standing

\* The first scene of a map is one of its scenes.
LEMMA GetSceneFacts ==
    ASSUME NEW m, NEW k, GetScene(m, k) # 0
    PROVE  /\ GetScene(m, k) \in IDs
           /\ Registered(GetScene(m, k))
  <1> DEFINE matches == {i \in IDs : Registered(i) /\ scene[i].map = m /\ k \in {0, scene[i].copy}}
  <1>1. matches # {} /\ GetScene(m, k) = CHOOSE i \in matches : \A j \in matches : i <= j
    BY DEF GetScene
  <1>2. matches \subseteq Nat
    BY DEF IDs
  <1>3. \E i \in matches : \A j \in matches : i <= j
    <2> HIDE DEF matches
    <2> QED
      BY <1>1, <1>2, LeastElement
  <1>4. GetScene(m, k) \in matches
    BY <1>1, <1>3, Zenon
  <1> QED
    BY <1>4

LEMMA GroundOfType ==
    ASSUME Grounds, NEW i \in IDs, NEW m
    PROVE  GroundOf(i, m) \in IDs
  BY GetSceneFacts DEF GroundOf, Grounds

SceneRec == [map : Maps \cup {0}, copy : Copies \cup {0}, state : SceneState,
             ground : IDs \cup {0}]

TerrainRec == [refs : Nat, m_bLoadFlag : BOOLEAN]

\* Deleting a registered scene, and what that leaves alone.
LEMMA DeleteFacts ==
    ASSUME TypeOK, Grounds, NEW i \in IDs, Registered(i), DeleteScene(i)
    PROVE  /\ scene' \in [IDs -> SceneRec] /\ terrain' \in [IDs -> TerrainRec] /\ raced'
           /\ scene'[i].state = "deleted" /\ \A j \in IDs \ {i} : scene'[j] = scene[j]
           /\ \A g \in IDs : /\ terrain'[g].refs = Cardinality(Standing(g)')
                             /\ terrain'[g].m_bLoadFlag = terrain[g].m_bLoadFlag
  <1> DEFINE h == scene[i].ground
  <1>1. h \in IDs /\ scene \in [IDs -> SceneRec] /\ terrain \in [IDs -> TerrainRec]
    BY DEF TypeOK, Grounds, SceneRec, TerrainRec
  <1>2. /\ scene' = [scene EXCEPT ![i].state = "deleted"]
        /\ terrain' = [terrain EXCEPT ![h].refs = terrain[h].refs - 1]
        /\ raced'
    BY DEF DeleteScene, Release
  <1>3. i \in Standing(h) /\ \A g \in IDs \ {h} : i \notin Standing(g)
    BY DEF Standing
  <1> HIDE DEF h
  <1>4. /\ DOMAIN scene' = IDs
        /\ scene'[i] = [scene[i] EXCEPT !.state = "deleted"]
        /\ \A j \in IDs \ {i} : scene'[j] = scene[j]
    BY <1>1, <1>2
  <1>5. scene'[i] \in SceneRec /\ scene'[i].state = "deleted"
    <2>1. scene[i] \in SceneRec /\ "deleted" \in SceneState
      BY <1>1 DEF SceneState
    <2> QED
      BY <1>4, <2>1 DEF SceneRec
  <1>6. scene' \in [IDs -> SceneRec]
    <2>1. \A j \in IDs : scene'[j] \in SceneRec
      BY <1>1, <1>4, <1>5
    <2>2. scene' = [j \in IDs |-> scene'[j]]
      BY <1>1, <1>2
    <2> QED
      BY <2>1, <2>2
  <1>7. \A g \in IDs : Standing(g)' = Standing(g) \ {i}
    BY <1>4, <1>5 DEF Standing, Registered
  <1>8. Cardinality(Standing(h) \ {i}) = Cardinality(Standing(h)) - 1
    BY <1>3, StandingFinite, FS_RemoveElement
  <1>9. Cardinality(Standing(h) \ {i}) \in Nat
    BY <1>3, StandingFinite, FS_RemoveElement, FS_CardinalityType
  <1>10. \A g \in IDs \ {h} : Standing(g) \ {i} = Standing(g)
    BY <1>3
  <1>11. \A g \in IDs : terrain[g].refs = Cardinality(Standing(g))
    BY DEF Grounds
  <1>12. /\ DOMAIN terrain' = IDs
         /\ terrain'[h] = [terrain[h] EXCEPT !.refs = terrain[h].refs - 1]
         /\ \A g \in IDs \ {h} : terrain'[g] = terrain[g]
    BY <1>1, <1>2
  <1>13. /\ terrain'[h] \in TerrainRec
         /\ terrain'[h].refs = Cardinality(Standing(h) \ {i})
         /\ terrain'[h].m_bLoadFlag = terrain[h].m_bLoadFlag
    BY <1>1, <1>8, <1>9, <1>11, <1>12 DEF TerrainRec
  <1>14. terrain' \in [IDs -> TerrainRec]
    <2>1. \A g \in IDs : terrain'[g] \in TerrainRec
      BY <1>1, <1>12, <1>13
    <2>2. terrain' = [g \in IDs |-> terrain'[g]]
      BY <1>1, <1>2
    <2> QED
      BY <2>1, <2>2
  <1>15. \A g \in IDs : /\ terrain'[g].refs = Cardinality(Standing(g)')
                        /\ terrain'[g].m_bLoadFlag = terrain[g].m_bLoadFlag
    <2> SUFFICES ASSUME NEW g \in IDs
                 PROVE  /\ terrain'[g].refs = Cardinality(Standing(g)')
                        /\ terrain'[g].m_bLoadFlag = terrain[g].m_bLoadFlag
      OBVIOUS
    <2>1. Standing(g)' = Standing(g) \ {i}
      BY <1>7
    <2>2. CASE g = h
      BY <1>13, <2>1, <2>2
    <2>3. CASE g # h
      BY <1>10, <1>11, <1>12, <2>1, <2>3
    <2> QED
      BY <2>2, <2>3
  <1> QED
    BY <1>2, <1>4, <1>5, <1>6, <1>14, <1>15

-----------------------------------------------------------------------------
(* Types, references and flags.                                             *)

\* Scenes and terrains stay; the thread may move on.
LEMMA SameGrounds ==
    ASSUME Grounds, UNCHANGED <<scene, terrain, nextID>>,
           worker'.at \in Busy => worker'.id \in IDs,
           worker'.at # "regions" \/ worker' = worker
    PROVE  Grounds'
  <1>1. \A g : Standing(g)' = Standing(g)
    BY DEF Standing, Registered
  <1>2. \A i : Registered(i)' <=> Registered(i)
    BY DEF Registered
  <1> QED
    BY <1>1, <1>2 DEF Grounds

\* A registered scene comes into another state.
LEMMA Restated ==
    ASSUME TypeOK, Grounds, NEW i \in IDs, Registered(i),
           NEW st \in {"ssCompleteLoading", "ssFailedLoading", "ssNormal"},
           scene' = [scene EXCEPT ![i].state = st], UNCHANGED <<terrain, nextID>>,
           st = "ssFailedLoading" \/ terrain[scene[i].ground].m_bLoadFlag,
           worker'.at \in Busy => worker'.id \in IDs,
           worker'.at # "regions" \/ worker' = worker
    PROVE  scene' \in [IDs -> SceneRec] /\ Grounds'
  <1>1. scene \in [IDs -> SceneRec] /\ st \in SceneState
    BY DEF TypeOK, SceneRec, SceneState
  <1>2. scene'[i] = [scene[i] EXCEPT !.state = st] /\ \A j \in IDs \ {i} : scene'[j] = scene[j]
    BY <1>1
  <1>3. scene'[i] \in SceneRec /\ scene'[i].state = st /\ scene'[i].ground = scene[i].ground
    BY <1>1, <1>2 DEF SceneRec
  <1>4. scene' \in [IDs -> SceneRec]
    <2>1. \A j \in IDs : scene'[j] \in SceneRec
      BY <1>1, <1>2, <1>3
    <2>2. scene' = [j \in IDs |-> scene'[j]]
      BY <1>1
    <2> QED
      BY <2>1, <2>2
  <1>5. \A j \in IDs : (Registered(j)' <=> Registered(j)) /\ scene'[j].ground = scene[j].ground
    BY <1>2, <1>3 DEF Registered
  <1>6. \A g : Standing(g)' = Standing(g)
    BY <1>5 DEF Standing
  <1>7. \A j \in IDs : scene'[j].state \in {"ssCompleteLoading", "ssNormal"} =>
            terrain[scene[j].ground].m_bLoadFlag
    BY <1>2, <1>3 DEF Grounds
  <1>8. i < nextID
    BY DEF Grounds, Registered, IDs, TypeOK
  <1>9. \A j \in IDs : j >= nextID => scene'[j].state = "unknown"
    BY <1>2, <1>8 DEF Grounds, IDs, TypeOK
  <1>10. worker'.at = "regions" /\ Registered(worker.id)' =>
            terrain[scene'[worker'.id].ground].m_bLoadFlag
    <2> SUFFICES ASSUME worker'.at = "regions", Registered(worker.id)'
                 PROVE  terrain[scene'[worker'.id].ground].m_bLoadFlag
      OBVIOUS
    <2>1. worker' = worker /\ worker.at = "regions" /\ worker.id \in IDs
      BY DEF Grounds, Busy
    <2>2. Registered(worker.id)
      BY <1>5, <2>1 DEF Registered
    <2>3. scene'[worker'.id].ground = scene[worker.id].ground
      BY <1>5, <2>1
    <2> QED
      BY <2>1, <2>2, <2>3 DEF Grounds
  <1>11. \A g \in IDs : terrain[g].refs = Cardinality(Standing(g)')
    BY <1>6 DEF Grounds
  <1>12. \A j \in IDs : Registered(j)' => scene'[j].ground \in IDs
    BY <1>5 DEF Grounds
  <1>13. UNCHANGED terrain /\ UNCHANGED nextID
    OBVIOUS
  <1>14. Grounds'
    BY <1>7, <1>9, <1>10, <1>11, <1>12, <1>13 DEF Grounds
  <1> QED
    BY <1>4, <1>14

\* A scene is deleted.
LEMMA Deleted ==
    ASSUME TypeOK, Grounds, NEW i \in IDs, Registered(i), DeleteScene(i),
           UNCHANGED <<nextID, worker>>
    PROVE  /\ scene' \in [IDs -> SceneRec] /\ terrain' \in [IDs -> TerrainRec] /\ raced'
           /\ Grounds'
  <1>1. /\ scene' \in [IDs -> SceneRec] /\ terrain' \in [IDs -> TerrainRec] /\ raced'
        /\ scene'[i].state = "deleted" /\ \A j \in IDs \ {i} : scene'[j] = scene[j]
        /\ \A g \in IDs : /\ terrain'[g].refs = Cardinality(Standing(g)')
                          /\ terrain'[g].m_bLoadFlag = terrain[g].m_bLoadFlag
    BY DeleteFacts
  <1>2. ~Registered(i)' /\ \A j \in IDs \ {i} : Registered(j)' <=> Registered(j)
    BY <1>1 DEF Registered
  <1>3. i < nextID
    BY DEF Grounds, Registered, IDs, TypeOK
  <1>4. \A j \in IDs : j >= nextID => scene'[j].state = "unknown"
    BY <1>1, <1>3 DEF Grounds, IDs, TypeOK
  <1>5. \A j \in IDs : Registered(j)' => scene'[j].ground \in IDs
    BY <1>1, <1>2 DEF Grounds
  <1>6. \A j \in IDs : scene'[j].state \in {"ssCompleteLoading", "ssNormal"} =>
            terrain'[scene'[j].ground].m_bLoadFlag
    <2> SUFFICES ASSUME NEW j \in IDs, scene'[j].state \in {"ssCompleteLoading", "ssNormal"}
                 PROVE  terrain'[scene'[j].ground].m_bLoadFlag
      OBVIOUS
    <2>1. j # i /\ scene'[j] = scene[j] /\ Registered(j)
      BY <1>1 DEF Registered
    <2> QED
      BY <1>1, <2>1 DEF Grounds
  <1>7. worker.at = "regions" /\ Registered(worker.id)' =>
            terrain'[scene'[worker.id].ground].m_bLoadFlag
    <2> SUFFICES ASSUME worker.at = "regions", Registered(worker.id)'
                 PROVE  terrain'[scene'[worker.id].ground].m_bLoadFlag
      OBVIOUS
    <2>1. worker.id \in IDs \ {i}
      BY <1>2 DEF Grounds, Busy
    <2>2. scene'[worker.id] = scene[worker.id] /\ Registered(worker.id)
      BY <1>1, <1>2, <2>1
    <2> QED
      BY <1>1, <2>1, <2>2 DEF Grounds
  <1> QED
    BY <1>1, <1>4, <1>5, <1>6, <1>7 DEF Grounds

\* A scene is made, on its own terrain or another copy's.
LEMMA Created ==
    ASSUME TypeOK, Grounds, NEW m \in Maps, NEW k \in Copies, NEW i \in IDs, i = nextID,
           NEW g \in IDs, worker.at \in Busy => worker.id # i,
           scene' = [scene EXCEPT ![i] = [map |-> m, copy |-> k, state |-> "ssLoading",
                                          ground |-> g]],
           terrain' = AddRef(terrain, g), nextID' = nextID + 1, UNCHANGED worker
    PROVE  scene' \in [IDs -> SceneRec] /\ terrain' \in [IDs -> TerrainRec] /\ Grounds'
  <1> DEFINE new == [map |-> m, copy |-> k, state |-> "ssLoading", ground |-> g]
  <1>1. new \in SceneRec /\ new.state = "ssLoading" /\ new.ground = g
    BY DEF SceneRec, SceneState
  <1>2. scene \in [IDs -> SceneRec] /\ terrain \in [IDs -> TerrainRec] /\ nextID \in Nat
    BY DEF TypeOK, SceneRec, TerrainRec
  <1>3. scene' = [scene EXCEPT ![i] = new]
    OBVIOUS
  <1> HIDE DEF new
  <1>4. scene' \in [IDs -> SceneRec] /\ scene'[i] = new /\ \A j \in IDs \ {i} : scene'[j] = scene[j]
    BY <1>1, <1>2, <1>3
  <1>5. Registered(i)' /\ ~Registered(i) /\ \A j \in IDs \ {i} : Registered(j)' <=> Registered(j)
    BY <1>1, <1>2, <1>4 DEF Registered, Grounds
  <1>6. terrain' = [terrain EXCEPT ![g].refs = terrain[g].refs + 1]
    BY DEF AddRef
  <1>7. /\ terrain'[g] = [terrain[g] EXCEPT !.refs = terrain[g].refs + 1]
        /\ \A h \in IDs \ {g} : terrain'[h] = terrain[h]
    BY <1>2, <1>6
  <1>8. /\ terrain'[g] \in TerrainRec /\ terrain'[g].refs = terrain[g].refs + 1
        /\ terrain'[g].m_bLoadFlag = terrain[g].m_bLoadFlag
    BY <1>2, <1>7 DEF TerrainRec
  <1>9. terrain' \in [IDs -> TerrainRec]
    <2>1. \A h \in IDs : terrain'[h] \in TerrainRec
      BY <1>2, <1>7, <1>8
    <2>2. terrain' = [h \in IDs |-> terrain'[h]]
      BY <1>2, <1>6
    <2> QED
      BY <2>1, <2>2
  <1>10. \A h \in IDs : terrain'[h].refs = Cardinality(Standing(h)')
    <2> SUFFICES ASSUME NEW h \in IDs PROVE terrain'[h].refs = Cardinality(Standing(h)')
      OBVIOUS
    <2>1. terrain[h].refs = Cardinality(Standing(h))
      BY DEF Grounds
    <2>2. CASE h = g
      <3>1. Standing(g)' = Standing(g) \cup {i} /\ i \notin Standing(g)
        BY <1>1, <1>4, <1>5 DEF Standing
      <3>2. Cardinality(Standing(g) \cup {i}) = Cardinality(Standing(g)) + 1
        BY <3>1, StandingFinite, FS_AddElement
      <3> QED
        BY <1>8, <2>1, <2>2, <3>1, <3>2
    <2>3. CASE h # g
      <3>1. Standing(h)' = Standing(h)
        BY <1>1, <1>4, <1>5, <2>3 DEF Standing
      <3> QED
        BY <1>7, <2>1, <2>3, <3>1
    <2> QED
      BY <2>2, <2>3
  <1>11. \A j \in IDs : j >= nextID' => scene'[j].state = "unknown"
    BY <1>2, <1>4 DEF Grounds, IDs
  <1>12. \A j \in IDs : Registered(j)' => scene'[j].ground \in IDs
    BY <1>1, <1>4, <1>5 DEF Grounds
  <1>13. \A h \in IDs : terrain'[h].m_bLoadFlag = terrain[h].m_bLoadFlag
    BY <1>7, <1>8
  <1>14. \A j \in IDs : scene'[j].state \in {"ssCompleteLoading", "ssNormal"} =>
            terrain'[scene'[j].ground].m_bLoadFlag
    <2> SUFFICES ASSUME NEW j \in IDs, scene'[j].state \in {"ssCompleteLoading", "ssNormal"}
                 PROVE  terrain'[scene'[j].ground].m_bLoadFlag
      OBVIOUS
    <2>1. j # i /\ scene'[j] = scene[j] /\ Registered(j)
      BY <1>1, <1>4 DEF Registered
    <2> QED
      BY <1>13, <2>1 DEF Grounds
  <1>15. worker.at = "regions" /\ Registered(worker.id)' =>
            terrain'[scene'[worker.id].ground].m_bLoadFlag
    <2> SUFFICES ASSUME worker.at = "regions", Registered(worker.id)'
                 PROVE  terrain'[scene'[worker.id].ground].m_bLoadFlag
      OBVIOUS
    <2>1. worker.id \in IDs /\ worker.id # i
      BY DEF Grounds, Busy
    <2> QED
      BY <1>4, <1>5, <1>13, <2>1 DEF Grounds
  <1> QED
    BY <1>4, <1>9, <1>10, <1>11, <1>12, <1>14, <1>15 DEF Grounds

\* The ID of a map that cannot be made is used up.
LEMMA Refused ==
    ASSUME TypeOK, Grounds, NEW i \in IDs, i = nextID,
           scene' = [scene EXCEPT ![i].state = "deleted"],
           UNCHANGED <<terrain, worker>>, nextID' = nextID + 1
    PROVE  scene' \in [IDs -> SceneRec] /\ Grounds'
  <1>1. scene \in [IDs -> SceneRec] /\ nextID \in Nat /\ "deleted" \in SceneState
    BY DEF TypeOK, SceneRec, SceneState
  <1>2. scene'[i] = [scene[i] EXCEPT !.state = "deleted"] /\ \A j \in IDs \ {i} : scene'[j] = scene[j]
    BY <1>1
  <1>3. scene'[i] \in SceneRec /\ scene'[i].state = "deleted"
    BY <1>1, <1>2 DEF SceneRec
  <1>4. scene' \in [IDs -> SceneRec]
    <2>1. \A j \in IDs : scene'[j] \in SceneRec
      BY <1>1, <1>2, <1>3
    <2>2. scene' = [j \in IDs |-> scene'[j]]
      BY <1>1
    <2> QED
      BY <2>1, <2>2
  <1>5. ~Registered(i) /\ ~Registered(i)' /\ \A j \in IDs \ {i} : Registered(j)' <=> Registered(j)
    BY <1>1, <1>2, <1>3 DEF Registered, Grounds
  <1>6. \A h : Standing(h)' = Standing(h)
    BY <1>2, <1>5 DEF Standing
  <1>7. \A j \in IDs : j >= nextID' => scene'[j].state = "unknown"
    BY <1>1, <1>2 DEF Grounds, IDs
  <1>8. \A j \in IDs : Registered(j)' => scene'[j].ground \in IDs
    BY <1>2, <1>5 DEF Grounds
  <1>9. \A j \in IDs : scene'[j].state \in {"ssCompleteLoading", "ssNormal"} =>
            terrain[scene'[j].ground].m_bLoadFlag
    BY <1>2, <1>3 DEF Grounds
  <1>10. worker.at = "regions" /\ Registered(worker.id)' =>
            terrain[scene'[worker.id].ground].m_bLoadFlag
    <2> SUFFICES ASSUME worker.at = "regions", Registered(worker.id)'
                 PROVE  terrain[scene'[worker.id].ground].m_bLoadFlag
      OBVIOUS
    <2>1. worker.id \in IDs /\ worker.id # i
      BY <1>5 DEF Grounds, Busy
    <2> QED
      BY <1>2, <1>5, <2>1 DEF Grounds
  <1>11. \A h \in IDs : terrain[h].refs = Cardinality(Standing(h)')
    BY <1>6 DEF Grounds
  <1>12. UNCHANGED terrain /\ UNCHANGED worker
    OBVIOUS
  <1>13. Grounds'
    BY <1>7, <1>8, <1>9, <1>10, <1>11, <1>12 DEF Grounds
  <1> QED
    BY <1>4, <1>13

\* The terrain the thread works on is loaded.
LEMMA TerrainLoaded ==
    ASSUME TypeOK, Grounds, worker.at = "terrain",
           terrain' = [terrain EXCEPT ![scene[worker.id].ground].m_bLoadFlag = TRUE],
           WorkerAt("terrain", "regions"), UNCHANGED <<scene, nextID>>
    PROVE  terrain' \in [IDs -> TerrainRec] /\ Grounds'
  <1> DEFINE g == scene[worker.id].ground
  <1>1. worker.id \in IDs
    BY DEF Grounds, Busy
  <1>2. terrain \in [IDs -> TerrainRec]
    BY DEF TypeOK, TerrainRec
  <1>3. terrain' = [terrain EXCEPT ![g].m_bLoadFlag = TRUE]
    OBVIOUS
  <1>4. worker'.at = "regions" /\ worker'.id = worker.id
    BY DEF WorkerAt, TypeOK
  <1>5. Registered(worker.id) => g \in IDs
    BY <1>1 DEF Grounds
  <1> HIDE DEF g
  <1>6. \A h \in IDs : terrain'[h] \in TerrainRec /\ terrain'[h].refs = terrain[h].refs
    <2> SUFFICES ASSUME NEW h \in IDs
                 PROVE  terrain'[h] \in TerrainRec /\ terrain'[h].refs = terrain[h].refs
      OBVIOUS
    <2>1. terrain'[h] = IF h = g THEN [terrain[h] EXCEPT !.m_bLoadFlag = TRUE] ELSE terrain[h]
      BY <1>2, <1>3
    <2>2. [terrain[h] EXCEPT !.m_bLoadFlag = TRUE] \in TerrainRec
      BY <1>2 DEF TerrainRec
    <2>3. [terrain[h] EXCEPT !.m_bLoadFlag = TRUE].refs = terrain[h].refs
      BY <1>2 DEF TerrainRec
    <2> QED
      BY <1>2, <2>1, <2>2, <2>3
  <1>7. terrain' \in [IDs -> TerrainRec]
    <2>1. terrain' = [h \in IDs |-> terrain'[h]]
      BY <1>2, <1>3
    <2> QED
      BY <1>6, <2>1
  <1>8. \A h \in IDs : terrain[h].m_bLoadFlag => terrain'[h].m_bLoadFlag
    BY <1>2, <1>3 DEF TerrainRec
  <1>9. g \in IDs => terrain'[g].m_bLoadFlag
    BY <1>2, <1>3 DEF TerrainRec
  <1>10. \A h : Standing(h)' = Standing(h)
    BY DEF Standing, Registered
  <1>11. \A j \in IDs : Registered(j)' <=> Registered(j)
    BY DEF Registered
  <1>12. \A h \in IDs : terrain'[h].refs = Cardinality(Standing(h)')
    BY <1>6, <1>10 DEF Grounds
  <1>13. \A j \in IDs : scene[j].state \in {"ssCompleteLoading", "ssNormal"} =>
             terrain'[scene[j].ground].m_bLoadFlag
    <2> SUFFICES ASSUME NEW j \in IDs, scene[j].state \in {"ssCompleteLoading", "ssNormal"}
                 PROVE  terrain'[scene[j].ground].m_bLoadFlag
      OBVIOUS
    <2>1. Registered(j)
      BY DEF Registered
    <2> QED
      BY <1>8, <2>1 DEF Grounds
  <1>14. Registered(worker.id)' => terrain'[scene[worker.id].ground].m_bLoadFlag
    BY <1>4, <1>5, <1>9 DEF g, Registered
  <1>15. Grounds'
    BY <1>1, <1>4, <1>11, <1>12, <1>13, <1>14 DEF Grounds
  <1> QED
    BY <1>7, <1>15

\* Posted by the main loop, taken by the thread: lists keep their type and limit.
LEMMA ListFacts ==
    ASSUME NEW q \in Seq(IDs), Len(q) <= Capacity
    PROVE  /\ \A i \in IDs : Len(q) < Capacity =>
                 Append(q, i) \in Seq(IDs) /\ Len(Append(q, i)) <= Capacity
           /\ q # <<>> => Tail(q) \in Seq(IDs) /\ Len(Tail(q)) <= Capacity /\ Head(q) \in IDs
  BY AppendProperties, HeadTailProperties, LenProperties

Typed(s, t) == s \in [IDs -> SceneRec] /\ t \in [IDs -> TerrainRec]

LEMMA SameTyped == ASSUME TypeOK PROVE Typed(scene, terrain)
  BY DEF TypeOK, Typed, SceneRec, TerrainRec

LEMMA AnswerType == ASSUME TypeOK, NEW i \in IDs, Answer(i) PROVE answers' \in [IDs -> Nat]
  BY DEF TypeOK, Answer

LEMMA CreateStep ==
    ASSUME TypeOK, Grounds, NEW m \in Maps, NEW k \in Copies, OnCreateMapNotify(m, k),
           worker.at \in Busy => worker.id # nextID
    PROVE  TypeOK' /\ Grounds'
  <1> DEFINE i == nextID
             g == GroundOf(i, m)
  <1>1. i \in IDs /\ nextID' = i + 1 /\ nextID' \in 1 .. MaxScenes + 1 /\ raced'
    <2>1. i <= MaxScenes /\ nextID' = i + 1 /\ raced' = TRUE
      BY Zenon DEF OnCreateMapNotify
    <2> QED
      BY <2>1 DEF TypeOK, IDs
  <1>2. g \in IDs
    BY <1>1, GroundOfType
  <1>3. CASE /\ Len(loading) < Capacity
             /\ scene' = [scene EXCEPT ![i] = [map |-> m, copy |-> k, state |-> "ssLoading",
                                               ground |-> g]]
             /\ terrain' = AddRef(terrain, g)
             /\ loading' = Append(loading, i)
             /\ UNCHANGED answers
    <2>1. UNCHANGED worker
      BY DEF OnCreateMapNotify
    <2> HIDE DEF g
    <2>2. Typed(scene', terrain') /\ Grounds'
      BY <1>1, <1>2, <1>3, <2>1, Created DEF Typed
    <2>3. loading' \in Seq(IDs) /\ Len(loading') <= Capacity
      BY <1>1, <1>3, ListFacts DEF TypeOK
    <2>4. TypeOK'
      BY <1>1, <1>3, <2>2, <2>3 DEF OnCreateMapNotify, TypeOK, Typed, SceneRec, TerrainRec
    <2> QED
      BY <2>2, <2>4
  <1>4. CASE /\ scene' = [scene EXCEPT ![i].state = "deleted"]
             /\ Answer(i)
             /\ UNCHANGED <<terrain, loading>>
    <2>1. UNCHANGED worker
      BY DEF OnCreateMapNotify
    <2>2. Typed(scene', terrain') /\ Grounds'
      BY <1>1, <1>4, <2>1, Refused, SameTyped DEF Typed
    <2>3. answers' \in [IDs -> Nat]
      BY <1>1, <1>4, AnswerType
    <2>4. TypeOK'
      BY <1>1, <1>4, <2>2, <2>3 DEF OnCreateMapNotify, TypeOK, Typed, SceneRec, TerrainRec
    <2> QED
      BY <2>2, <2>4
  <1> QED
    BY <1>3, <1>4 DEF OnCreateMapNotify

LEMMA ProcessStep ==
    ASSUME TypeOK, Grounds, ProcessLoadedScene
    PROVE  TypeOK' /\ Grounds'
  <1> DEFINE i == Head(loaded)
  <1>1. i \in IDs /\ loaded' \in Seq(IDs) /\ Len(loaded') <= Capacity
    BY ListFacts DEF ProcessLoadedScene, TypeOK
  <1>2. /\ UNCHANGED <<nextID, loading, worker, ignored, exiting, quit, overrun>>
        /\ worker.at \in Busy => worker.id \in IDs
    BY DEF ProcessLoadedScene, Grounds
  <1>3. CASE UNCHANGED <<scene, terrain, raced, answers>>
    <2>1. Grounds'
      BY <1>2, <1>3, SameGrounds
    <2> QED
      BY <1>1, <1>2, <1>3, <2>1 DEF TypeOK
  <1>4. CASE Registered(i) /\ Answer(i)
    <2>1. answers' \in [IDs -> Nat]
      BY <1>1, <1>4, AnswerType
    <2>2. Typed(scene', terrain') /\ Grounds' /\ raced' \in BOOLEAN
      <3>1. CASE DeleteScene(i)
        BY <1>1, <1>2, <1>4, <3>1, Deleted DEF Typed
      <3>2. CASE /\ scene[i].state = "ssCompleteLoading"
                 /\ scene' = [scene EXCEPT ![i].state = "ssNormal"]
                 /\ UNCHANGED <<terrain, raced>>
        <4>1. terrain[scene[i].ground].m_bLoadFlag
          BY <1>1, <3>2 DEF Grounds
        <4>2. scene' \in [IDs -> SceneRec] /\ Grounds'
          BY <1>1, <1>2, <1>4, <3>2, <4>1, Restated
        <4> QED
          BY <3>2, <4>2, SameTyped DEF Typed, TypeOK
      <3> QED
        BY <1>4, <3>1, <3>2 DEF ProcessLoadedScene
    <2> QED
      BY <1>1, <1>2, <2>1, <2>2 DEF TypeOK, Typed, SceneRec, TerrainRec
  <1> QED
    BY <1>3, <1>4 DEF ProcessLoadedScene

\* Deletions, one by one at the stop of the server.
LEMMA DeleteStep ==
    ASSUME TypeOK, Grounds, NEW i \in IDs, Registered(i), DeleteScene(i),
           UNCHANGED <<nextID, loading, loaded, worker, answers, ignored, exiting, quit, overrun>>
    PROVE  TypeOK' /\ Grounds'
  <1>1. Typed(scene', terrain') /\ Grounds' /\ raced'
    BY Deleted DEF Typed
  <1> QED
    BY <1>1 DEF TypeOK, Typed, SceneRec, TerrainRec

LEMMA UnInitStep == ASSUME TypeOK, Grounds, UnInit PROVE TypeOK' /\ Grounds'
  <1>1. UNCHANGED <<nextID, loading, loaded, worker, answers, ignored, overrun>>
    BY DEF UnInit
  <1>2. CASE UNCHANGED <<scene, terrain, raced>> /\ exiting' \in BOOLEAN /\ quit' \in BOOLEAN
    <2>1. Grounds'
      BY <1>1, <1>2, SameGrounds DEF Grounds
    <2> QED
      BY <1>1, <1>2, <2>1 DEF TypeOK
  <1>3. ASSUME NEW i \in IDs, Registered(i), DeleteScene(i), UNCHANGED <<exiting, quit>>
        PROVE  TypeOK' /\ Grounds'
    BY <1>1, <1>3, DeleteStep
  <1> QED
    BY <1>2, <1>3 DEF UnInit, TypeOK

WorkerRec == [at : {"asleep", "lookup", "check", "terrain", "regions", "post", "ended"},
              id : IDs \cup {0}]

LEMMA WorkerMoves ==
    ASSUME TypeOK, NEW here, NEW there, WorkerAt(here, there)
    PROVE  worker.at = here /\ worker'.at = there /\ worker'.id = worker.id
  BY DEF WorkerAt, TypeOK

LEMMA WorkerType ==
    ASSUME TypeOK, NEW here,
           NEW there \in {"asleep", "check", "terrain", "regions", "post", "ended"},
           WorkerAt(here, there)
    PROVE  worker' \in WorkerRec
  BY DEF WorkerAt, TypeOK, WorkerRec

\* The end of ServerLoad.
LEMMA FinishStep ==
    ASSUME TypeOK, Grounds, NEW st \in {"ssCompleteLoading", "ssFailedLoading"}, Finish(st),
           worker.at \in Busy, st = "ssFailedLoading" \/ worker.at = "regions",
           UNCHANGED <<terrain, nextID, loading, loaded, raced, answers, ignored, exiting, quit, overrun>>
    PROVE  TypeOK' /\ Grounds'
  <1>1. worker.id \in IDs /\ WorkerAt(worker.at, "post")
    BY DEF Grounds, Finish, WorkerAt
  <1>2. worker'.at = "post" /\ worker'.id = worker.id
    BY <1>1, WorkerMoves
  <1>3. worker' \in WorkerRec
    BY <1>1, WorkerType
  <1>4. Typed(scene', terrain') /\ Grounds'
    <2>1. CASE Registered(worker.id)
      <3>1. scene' = [scene EXCEPT ![worker.id].state = st]
        BY <2>1 DEF Finish
      <3>2. st = "ssFailedLoading" \/ terrain[scene[worker.id].ground].m_bLoadFlag
        BY <2>1 DEF Grounds
      <3>3. scene' \in [IDs -> SceneRec] /\ Grounds'
        BY <1>1, <1>2, <2>1, <3>1, <3>2, Restated
      <3> QED
        BY <3>3, SameTyped DEF Typed
    <2>2. CASE ~Registered(worker.id)
      <3>1. UNCHANGED <<scene, terrain, nextID>>
        BY <2>2 DEF Finish
      <3> QED
        BY <1>1, <1>2, <3>1, SameGrounds, SameTyped DEF Typed
    <2> QED
      BY <2>1, <2>2
  <1> QED
    BY <1>3, <1>4 DEF TypeOK, Typed, SceneRec, TerrainRec, WorkerRec

\* The steps of the thread that touch neither scene nor terrain.
LEMMA QuietStep ==
    ASSUME TypeOK, Grounds, UNCHANGED <<scene, terrain, nextID, answers, ignored, exiting, quit>>,
           worker' \in WorkerRec,
           worker'.at \in Busy => worker'.id \in IDs, worker'.at # "regions",
           loading' \in Seq(IDs), Len(loading') <= Capacity,
           loaded' \in Seq(IDs), Len(loaded') <= Capacity,
           raced' \in BOOLEAN, overrun' \in BOOLEAN
    PROVE  TypeOK' /\ Grounds'
  <1>1. Grounds'
    BY SameGrounds
  <1> QED
    BY <1>1 DEF TypeOK, WorkerRec

LEMMA WorkerGrounds ==
    ASSUME TypeOK, Grounds, WorkerStep
    PROVE  TypeOK' /\ Grounds'
  <1>1. CASE WorkerPop
    <2>1. Head(loading) \in IDs /\ loading' \in Seq(IDs) /\ Len(loading') <= Capacity
      BY <1>1, ListFacts DEF WorkerPop, TypeOK
    <2>2. worker' = [at |-> "lookup", id |-> Head(loading)]
      BY <1>1 DEF WorkerPop
    <2>3. worker' \in WorkerRec /\ worker'.id \in IDs /\ worker'.at = "lookup"
      BY <2>1, <2>2 DEF WorkerRec
    <2> QED
      BY <1>1, <2>1, <2>3, QuietStep DEF WorkerPop, TypeOK
  <1>2. ASSUME NEW here \in {"asleep", "lookup", "check"}, NEW there \in {"ended", "check", "terrain"},
               WorkerAt(here, there), here = "asleep" => there = "ended",
               UNCHANGED <<scene, terrain, nextID, loading, loaded, raced, answers, ignored, exiting,
                           quit, overrun>>
        PROVE  TypeOK' /\ Grounds'
    <2>1. worker.at = here /\ worker'.at = there /\ worker'.id = worker.id
      BY <1>2, WorkerMoves
    <2>2. worker' \in WorkerRec
      BY <1>2, WorkerType
    <2>3. worker'.at \in Busy => worker'.id \in IDs
      BY <1>2, <2>1 DEF Grounds, Busy
    <2> QED
      BY <1>2, <2>1, <2>2, <2>3, QuietStep DEF TypeOK
  <1>3. CASE WorkerQuit
    BY <1>2, <1>3 DEF WorkerQuit
  <1>4. CASE WorkerLookup
    BY <1>2, <1>4 DEF WorkerLookup
  <1>5. CASE WorkerCheck
    BY <1>2, <1>5 DEF WorkerCheck
  <1>6. CASE WorkerCrash
    <2>1. WorkerAt(worker.at, "ended")
      BY <1>6 DEF WorkerCrash, WorkerAt
    <2>2. worker'.at = "ended"
      BY <2>1, WorkerMoves
    <2>3. worker' \in WorkerRec
      BY <2>1, WorkerType
    <2> QED
      BY <1>6, <2>2, <2>3, QuietStep DEF WorkerCrash, TypeOK, Busy
  <1>7. CASE WorkerTerrain
    <2>1. CASE UNCHANGED terrain /\ Finish("ssFailedLoading")
      BY <1>7, <2>1, FinishStep DEF WorkerTerrain, Busy
    <2>2. CASE /\ terrain' = [terrain EXCEPT ![scene[worker.id].ground].m_bLoadFlag = TRUE]
               /\ WorkerAt("terrain", "regions")
               /\ UNCHANGED scene
      <3>1. worker.at = "terrain" /\ UNCHANGED nextID
        BY <1>7 DEF WorkerTerrain
      <3>2. terrain' \in [IDs -> TerrainRec] /\ Grounds'
        BY <2>2, <3>1, TerrainLoaded
      <3>3. worker' \in WorkerRec
        BY <2>2, WorkerType
      <3> QED
        BY <1>7, <2>2, <3>2, <3>3 DEF WorkerTerrain, TypeOK, TerrainRec, WorkerRec
    <2> QED
      BY <1>7, <2>1, <2>2 DEF WorkerTerrain
  <1>8. CASE WorkerRegions
    BY <1>8, FinishStep DEF WorkerRegions, Busy
  <1>9. CASE WorkerPost
    <2>1. PICK there \in {"ended", "asleep"} : WorkerAt("post", there)
      BY <1>9 DEF WorkerPost
    <2>2. worker.at = "post" /\ worker'.at = there
      BY <2>1, WorkerMoves
    <2>3. worker' \in WorkerRec
      BY <2>1, WorkerType
    <2>4. worker.id \in IDs
      BY <2>2 DEF Grounds, Busy
    <2>5. loaded' \in Seq(IDs) /\ Len(loaded') <= Capacity
      BY <1>9, <2>4, ListFacts DEF WorkerPost, TypeOK
    <2>6. overrun' \in BOOLEAN
      BY <1>9, Zenon DEF WorkerPost, TypeOK
    <2> QED
      BY <1>9, <2>2, <2>3, <2>5, <2>6, QuietStep DEF WorkerPost, TypeOK, Busy
  <1> QED
    BY <1>1, <1>3, <1>4, <1>5, <1>6, <1>7, <1>8, <1>9 DEF WorkerStep

-----------------------------------------------------------------------------
(* One scene, one station.                                                   *)

LEMMA CountsNat ==
    ASSUME TypeOK, NEW i \in IDs
    PROVE  /\ Times(loading, i) \in Nat /\ Times(loaded, i) \in Nat
           /\ Held(i) \in {0, 1} /\ answers[i] \in Nat
  BY TimesNat DEF TypeOK, Held

\* Which station of scene i changes, and how.
Same(i) == /\ Times(loading', i) = Times(loading, i) /\ Held(i)' = Held(i)
           /\ Times(loaded', i) = Times(loaded, i) /\ answers'[i] = answers[i]

\* A step that keeps the scene's stations and state.
LEMMA SameStation ==
    ASSUME NEW i \in IDs, Station(i), Same(i), scene'[i].state = scene[i].state,
           i < nextID' <=> i < nextID, i >= nextID' <=> i >= nextID, overrun' = overrun,
           Held(i) > 0 => (worker'.at = "post" <=> worker.at = "post")
    PROVE  Station(i)'
  BY DEF Station, Stations, Same

LEMMA CreateRunning ==
    ASSUME TypeOK, Running, ~exiting, NEW m \in Maps, NEW k \in Copies, OnCreateMapNotify(m, k)
    PROVE  Running'
  <1>1. /\ nextID \in IDs /\ nextID' = nextID + 1
        /\ UNCHANGED <<loaded, worker, exiting, quit, overrun>>
    <2>1. /\ nextID <= MaxScenes /\ nextID' = nextID + 1
          /\ UNCHANGED <<loaded, worker, exiting, quit, overrun>>
      BY Zenon DEF OnCreateMapNotify
    <2> QED
      BY <2>1 DEF TypeOK, IDs
  <1>2. ASSUME NEW i \in IDs PROVE Station(i)'
    <2>1. Station(i) /\ Held(i)' = Held(i)
      BY <1>1 DEF Running, Held
    <2>2. nextID \in Nat /\ i \in Nat
      BY <1>1 DEF IDs
    <2>3. CASE i # nextID
      <3>1. Times(loading', i) = Times(loading, i)
        <4>1. loading' = loading \/ loading' = Append(loading, nextID)
          BY DEF OnCreateMapNotify
        <4>2. loading \in Seq(IDs)
          BY DEF TypeOK
        <4>3. Times(Append(loading, nextID), i) = Times(loading, i) + 0
          BY <1>1, <2>3, <4>2, TimesAppend
        <4>4. Times(loading, i) + 0 = Times(loading, i)
          BY CountsNat
        <4> QED
          BY <4>1, <4>3, <4>4, Zenon
      <3>2. scene'[i] = scene[i] /\ answers'[i] = answers[i]
        <4>1. CASE /\ scene' = [scene EXCEPT ![nextID] = [map |-> m, copy |-> k,
                                                         state |-> "ssLoading",
                                                         ground |-> GroundOf(nextID, m)]]
                   /\ UNCHANGED answers
          BY <2>3, <4>1 DEF TypeOK
        <4>2. CASE scene' = [scene EXCEPT ![nextID].state = "deleted"] /\ Answer(nextID)
          BY <2>3, <4>2 DEF TypeOK, Answer
        <4> QED
          BY <4>1, <4>2 DEF OnCreateMapNotify
      <3>3. (i < nextID' <=> i < nextID) /\ (i >= nextID' <=> i >= nextID)
        BY <1>1, <2>2, <2>3
      <3> QED
        BY <1>1, <2>1, <3>1, <3>2, <3>3, SameStation DEF Same
    <2>4. CASE i = nextID
      <3>1. /\ Times(loading, i) = 0 /\ Held(i) = 0 /\ Times(loaded, i) = 0 /\ answers[i] = 0
        BY <2>1, <2>2, <2>4, CountsNat DEF Station, Stations
      <3>2. \/ scene'[i].state = "ssLoading" /\ Times(loading', i) = 1 /\ answers'[i] = 0
            \/ scene'[i].state = "deleted" /\ Times(loading', i) = 0 /\ answers'[i] = 1
        <4>1. CASE /\ scene' = [scene EXCEPT ![i] = [map |-> m, copy |-> k, state |-> "ssLoading",
                                                     ground |-> GroundOf(i, m)]]
                   /\ loading' = Append(loading, i)
                   /\ UNCHANGED answers
          BY <3>1, <4>1, TimesAppend DEF TypeOK
        <4>2. CASE /\ scene' = [scene EXCEPT ![i].state = "deleted"]
                   /\ Answer(i)
                   /\ UNCHANGED <<terrain, loading>>
          BY <3>1, <4>2 DEF TypeOK, Answer
        <4> QED
          BY <2>4, <4>1, <4>2 DEF OnCreateMapNotify
      <3>3. i < nextID' /\ ~(i >= nextID')
        BY <1>1, <2>2, <2>4
      <3> QED
        BY <1>1, <2>1, <3>1, <3>2, <3>3 DEF Station, Stations
    <2> QED
      BY <2>3, <2>4
  <1> QED
    BY <1>1, <1>2 DEF Running

LEMMA DeleteRunning ==
    ASSUME TypeOK, Running, ~exiting, NEW m \in Maps, NEW k \in Copies, OnDeleteMapNotify(m, k)
    PROVE  Running'
  <1> DEFINE d == GetScene(m, k)
  <1>1. /\ d # 0 /\ scene[d].state = "ssNormal" /\ scene' = [scene EXCEPT ![d].state = "deleted"]
        /\ UNCHANGED <<nextID, loading, loaded, worker, answers, ignored, exiting, quit, overrun>>
    BY Zenon DEF OnDeleteMapNotify, DeleteScene
  <1>2. d \in IDs
    BY <1>1, GetSceneFacts
  <1> HIDE DEF d
  <1>3. ASSUME NEW i \in IDs PROVE Station(i)'
    <2>1. Station(i) /\ Same(i)
      BY <1>1 DEF Running, Held, Same
    <2>2. CASE i # d
      <3>1. scene'[i] = scene[i]
        BY <1>1, <1>2, <2>2 DEF TypeOK
      <3> QED
        BY <1>1, <2>1, <3>1, SameStation
    <2>3. CASE i = d
      <3>1. scene'[i].state = "deleted" /\ scene[i].state = "ssNormal"
        BY <1>1, <1>2, <2>3 DEF TypeOK
      <3>2. Times(loading, i) = 0 /\ Held(i) = 0 /\ Times(loaded, i) = 0
        BY <2>1, <3>1, CountsNat DEF Station, Stations
      <3> QED
        BY <1>1, <2>1, <3>1, <3>2 DEF Station, Stations, Same
    <2> QED
      BY <2>2, <2>3
  <1> QED
    BY <1>1, <1>3 DEF Running

LEMMA ProcessRunning ==
    ASSUME TypeOK, Running, ~exiting, ProcessLoadedScene
    PROVE  Running'
  <1> DEFINE d == Head(loaded)
  <1>1. /\ loaded # <<>> /\ loaded' = Tail(loaded)
        /\ UNCHANGED <<nextID, loading, worker, exiting, quit, overrun>>
    BY DEF ProcessLoadedScene
  <1>2. d \in IDs /\ \A i : Times(loaded, i) = Times(loaded', i) + (IF d = i THEN 1 ELSE 0)
    BY <1>1, ListFacts, TimesTail DEF TypeOK
  <1>3. loaded' \in Seq(IDs)
    BY <1>1, ListFacts DEF TypeOK
  <1>4. \A i \in IDs : Times(loaded', i) \in Nat
    BY <1>3, TimesNat
  <1>5. scene[d].state \in {"ssCompleteLoading", "ssFailedLoading"} /\ Registered(d)
    <2>1. Times(loaded, d) > 0
      BY <1>2, <1>4
    <2> QED
      BY <1>2, <2>1 DEF Running, Station, Registered
  <1>6. Answer(d) /\ \E st \in {"ssNormal", "deleted"} : scene' = [scene EXCEPT ![d].state = st]
    BY <1>5 DEF ProcessLoadedScene, DeleteScene
  <1> HIDE DEF d
  <1>7. ASSUME NEW i \in IDs PROVE Station(i)'
    <2>1. Station(i) /\ Held(i)' = Held(i)
      BY <1>1 DEF Running, Held
    <2>2. CASE i # d
      <3>1. scene'[i] = scene[i] /\ answers'[i] = answers[i] /\ Times(loaded', i) = Times(loaded, i)
        BY <1>2, <1>4, <1>6, <2>2 DEF TypeOK, Answer
      <3> QED
        BY <1>1, <2>1, <3>1, SameStation DEF Same
    <2>3. CASE i = d
      <3>1. scene'[i].state \in {"ssNormal", "deleted"} /\ answers'[i] = answers[i] + 1
        BY <1>2, <1>6, <2>3 DEF TypeOK, Answer
      <3>2. /\ Times(loaded, i) = 1 /\ Times(loading, i) = 0 /\ Held(i) = 0 /\ answers[i] = 0
            /\ Times(loaded', i) = 0 /\ ~(i >= nextID)
        BY <1>2, <1>4, <2>1, <2>3, CountsNat DEF Station, Stations
      <3> QED
        BY <1>1, <2>1, <3>1, <3>2 DEF Station, Stations
    <2> QED
      BY <2>2, <2>3
  <1> QED
    BY <1>1, <1>7 DEF Running

\* The thread goes on with the scene it holds.
LEMMA WorkerGoesOn ==
    ASSUME TypeOK, Running, ~exiting, worker.at \in Busy \ {"post"},
           worker'.at \in Busy, worker'.id = worker.id, worker.id \in IDs,
           UNCHANGED <<nextID, loading, loaded, answers, exiting, quit, overrun>>,
           \A i \in IDs \ {worker.id} : scene'[i].state = scene[i].state,
           IF worker'.at = "post"
           THEN scene'[worker.id].state \in {"ssCompleteLoading", "ssFailedLoading"}
           ELSE scene'[worker.id].state = scene[worker.id].state
    PROVE  Running'
  <1>1. ASSUME NEW i \in IDs PROVE Station(i)'
    <2>1. Station(i) /\ Same(i)
      BY DEF Running, Same, Held, Busy
    <2>2. CASE i # worker.id
      <3>1. Held(i) = 0
        BY <2>2 DEF Held
      <3> QED
        BY <2>1, <2>2, <3>1, SameStation
    <2>3. CASE i = worker.id
      <3>1. Held(i) = 1
        BY <2>3 DEF Held, Busy
      <3>2. Times(loading, i) = 0 /\ Times(loaded, i) = 0 /\ answers[i] = 0 /\ scene[i].state = "ssLoading"
        BY <2>1, <3>1, CountsNat DEF Station, Stations
      <3>3. worker'.at = "post" \/ scene'[i].state = "ssLoading"
        BY <2>3, <3>2
      <3>4. /\ Times(loading', i) = 0 /\ Held(i)' = 1 /\ Times(loaded', i) = 0 /\ answers'[i] = 0
            /\ i < nextID' /\ (~(i >= nextID') \/ overrun')
        BY <2>1, <3>1, <3>2, CountsNat DEF Station, Stations, Same, IDs, TypeOK
      <3> QED
        BY <2>1, <2>3, <3>1, <3>2, <3>3, <3>4 DEF Station, Stations
    <2> QED
      BY <2>2, <2>3
  <1>2. worker'.at # "ended"
    BY DEF Busy
  <1> QED
    BY <1>1, <1>2 DEF Running

\* The scene the thread holds is the one it expects.
LEMMA HeldLoads ==
    ASSUME TypeOK, Grounds, Running, ~exiting, worker.at \in Busy \ {"post"}
    PROVE  worker.id \in IDs /\ scene[worker.id].state = "ssLoading" /\ Registered(worker.id)
  <1>1. worker.id \in IDs /\ Held(worker.id) = 1
    BY DEF Grounds, Held, Busy
  <1>2. scene[worker.id].state = "ssLoading"
    BY <1>1 DEF Running, Station
  <1> QED
    BY <1>1, <1>2 DEF Registered

LEMMA PopRunning == ASSUME TypeOK, Running, ~exiting, WorkerPop PROVE Running'
  <1> DEFINE d == Head(loading)
  <1>1. /\ worker.at = "asleep" /\ loading # <<>> /\ loading' = Tail(loading)
        /\ worker' = [at |-> "lookup", id |-> d]
        /\ UNCHANGED <<scene, terrain, nextID, loaded, answers, exiting, quit, overrun>>
    BY DEF WorkerPop
  <1>2. \A i : Times(loading, i) = Times(loading', i) + (IF d = i THEN 1 ELSE 0)
    BY <1>1, TimesTail DEF TypeOK
  <1>3. loading' \in Seq(IDs)
    BY <1>1, ListFacts DEF TypeOK
  <1>4. \A i \in IDs : Times(loading', i) \in Nat
    BY <1>3, TimesNat
  <1> HIDE DEF d
  <1>5. ASSUME NEW i \in IDs PROVE Station(i)'
    <2>1. Station(i) /\ Held(i) = 0 /\ Held(i)' = IF d = i THEN 1 ELSE 0
      BY <1>1 DEF Running, Held
    <2>2. worker'.at # "post"
      BY <1>1
    <2>3. d = i => scene[i].state = "ssLoading"
      BY <1>2, <1>4, <2>1 DEF Station
    <2>4. Stations(i)' = Stations(i)
      BY <1>1, <1>2, <1>4, <2>1, CountsNat DEF Stations
    <2>5. Times(loading', i) > 0 => Times(loading, i) > 0
      BY <1>2, <1>4
    <2>6. Held(i)' > 0 => scene'[i].state = "ssLoading"
      BY <1>1, <2>1, <2>3
    <2> QED
      BY <1>1, <2>1, <2>2, <2>4, <2>5, <2>6 DEF Station
  <1> QED
    BY <1>1, <1>5 DEF Running

LEMMA PostRunning == ASSUME TypeOK, Grounds, Running, ~exiting, WorkerPost PROVE Running'
  <1> DEFINE d == worker.id
  <1>1. /\ worker.at = "post" /\ worker'.at = "asleep" /\ worker'.id = d
        /\ UNCHANGED <<scene, nextID, loading, answers, exiting, quit>>
    BY WorkerMoves DEF WorkerPost, Running
  <1>2. d \in IDs /\ Held(d) = 1
    BY <1>1 DEF Grounds, Busy, Held
  <1>3. CASE Len(loaded) < Capacity /\ loaded' = Append(loaded, d) /\ (overrun' <=> overrun)
    <2>1. ASSUME NEW i \in IDs PROVE Station(i)'
      <3>1. /\ Station(i) /\ Held(i)' = 0 /\ Held(i) = IF i = d THEN 1 ELSE 0
        BY <1>1 DEF Running, Held
      <3>2. Times(loaded', i) = Times(loaded, i) + (IF d = i THEN 1 ELSE 0)
        BY <1>2, <1>3, TimesAppend DEF TypeOK
      <3>3. Stations(i)' = Stations(i)
        BY <1>1, <3>1, <3>2, CountsNat DEF Stations
      <3>4. Times(loaded', i) > 0 => scene[i].state \in {"ssCompleteLoading", "ssFailedLoading"}
        BY <1>1, <3>1, <3>2, CountsNat DEF Station
      <3> QED
        BY <1>1, <1>3, <3>1, <3>3, <3>4 DEF Station
    <2> QED
      BY <1>1, <2>1 DEF Running
  <1>4. CASE loaded' = loaded /\ overrun'
    <2>1. ASSUME NEW i \in IDs PROVE Station(i)'
      <3>1. /\ Station(i) /\ Held(i)' = 0
        BY <1>1 DEF Running, Held
      <3>2. Stations(i)' <= Stations(i) /\ Stations(i)' \in Nat
        BY <1>1, <1>4, <3>1, CountsNat DEF Stations
      <3>3. Stations(i) \in Nat
        BY CountsNat DEF Stations
      <3> QED
        BY <1>1, <1>4, <3>1, <3>2, <3>3 DEF Station
    <2> QED
      BY <1>1, <2>1 DEF Running
  <1>5. Len(loaded) \in Nat /\ Len(loaded) <= Capacity
    BY LenProperties DEF TypeOK
  <1>6. CASE Len(loaded) < Capacity
    <2>1. loaded' = Append(loaded, d) /\ Len(loaded) # Capacity
      BY <1>5, <1>6 DEF WorkerPost
    <2>2. overrun' <=> overrun
      BY <2>1, Zenon DEF WorkerPost
    <2> QED
      BY <1>3, <1>6, <2>1, <2>2
  <1>7. CASE Len(loaded) = Capacity
    <2>1. loaded' = loaded
      BY <1>5, <1>7 DEF WorkerPost
    <2>2. overrun'
      BY <1>7, Zenon DEF WorkerPost
    <2> QED
      BY <1>4, <2>1, <2>2
  <1> QED
    BY <1>5, <1>6, <1>7

LEMMA WorkerRunning ==
    ASSUME TypeOK, Grounds, Running, ~exiting, WorkerStep
    PROVE  Running'
  <1>1. CASE WorkerPop
    BY <1>1, PopRunning
  <1>2. CASE WorkerQuit
    BY <1>2 DEF WorkerQuit, Running
  <1>3. CASE WorkerLookup
    <2>1. /\ worker.at = "lookup"
          /\ UNCHANGED <<scene, nextID, loading, loaded, answers, exiting, quit, overrun>>
      BY <1>3 DEF WorkerLookup
    <2>2. worker.id \in IDs /\ Registered(worker.id)
      BY <2>1, HeldLoads DEF Busy
    <2>3. CASE WorkerAt("lookup", "check")
      <3>1. worker'.at = "check" /\ worker'.id = worker.id
        BY <2>3, WorkerMoves
      <3> QED
        BY <2>1, <2>2, <3>1, WorkerGoesOn DEF Busy
    <2>4. CASE RacyIndex /\ WorkerAt("lookup", "ended")
      <3>1. worker'.at = "ended" /\ worker'.id = worker.id
        BY <2>4, WorkerMoves
      <3>2. ASSUME NEW i \in IDs PROVE Station(i)'
        <4>1. Station(i) /\ Held(i)' = 0
          BY <3>1 DEF Running, Held
        <4>2. Stations(i)' <= Stations(i) /\ Stations(i)' \in Nat /\ Stations(i) \in Nat
          BY <2>1, <4>1, CountsNat DEF Stations
        <4> QED
          BY <2>1, <2>4, <4>1, <4>2 DEF Station
      <3> QED
        BY <2>1, <2>4, <3>2 DEF Running
    <2> QED
      BY <1>3, <2>2, <2>3, <2>4 DEF WorkerLookup
  <1>4. CASE WorkerCheck
    <2>1. /\ worker.at = "check"
          /\ UNCHANGED <<scene, nextID, loading, loaded, answers, exiting, quit, overrun>>
      BY <1>4 DEF WorkerCheck
    <2>2. worker.id \in IDs /\ scene[worker.id].state = "ssLoading"
      BY <2>1, HeldLoads DEF Busy
    <2>3. WorkerAt("check", "terrain")
      BY <1>4, <2>2 DEF WorkerCheck
    <2>4. worker'.at = "terrain" /\ worker'.id = worker.id
      BY <2>3, WorkerMoves
    <2> QED
      BY <2>1, <2>2, <2>4, WorkerGoesOn DEF Busy
  <1>5. ASSUME worker.at \in {"terrain", "regions"},
               NEW st \in {"ssCompleteLoading", "ssFailedLoading"}, Finish(st),
               UNCHANGED <<nextID, loading, loaded, answers, exiting, quit, overrun>>
        PROVE  Running'
    <2>1. worker.id \in IDs /\ Registered(worker.id)
      BY <1>5, HeldLoads DEF Busy
    <2>2. WorkerAt(worker.at, "post")
      BY <1>5 DEF Finish, WorkerAt
    <2>3. worker'.at = "post" /\ worker'.id = worker.id
      BY <2>2, WorkerMoves
    <2>4. scene' = [scene EXCEPT ![worker.id].state = st]
      BY <1>5, <2>1 DEF Finish
    <2>5. /\ \A i \in IDs \ {worker.id} : scene'[i].state = scene[i].state
          /\ scene'[worker.id].state = st
      BY <2>1, <2>4 DEF TypeOK
    <2> QED
      BY <1>5, <2>1, <2>3, <2>5, WorkerGoesOn DEF Busy
  <1>6. CASE WorkerTerrain
    <2>1. /\ worker.at = "terrain"
          /\ UNCHANGED <<nextID, loading, loaded, answers, exiting, quit, overrun>>
      BY <1>6 DEF WorkerTerrain
    <2>2. CASE Finish("ssFailedLoading")
      BY <1>5, <2>1, <2>2
    <2>3. CASE WorkerAt("terrain", "regions") /\ UNCHANGED scene
      <3>1. worker'.at = "regions" /\ worker'.id = worker.id
        BY <2>3, WorkerMoves
      <3>2. worker.id \in IDs
        BY <2>1, HeldLoads DEF Busy
      <3> QED
        BY <2>1, <2>3, <3>1, <3>2, WorkerGoesOn DEF Busy
    <2> QED
      BY <1>6, <2>2, <2>3 DEF WorkerTerrain
  <1>7. CASE WorkerRegions
    BY <1>5, <1>7 DEF WorkerRegions
  <1>8. CASE WorkerPost
    BY <1>8, PostRunning
  <1>9. CASE WorkerCrash
    BY <1>9, HeldLoads DEF WorkerCrash, Busy
  <1> QED
    BY <1>1, <1>2, <1>3, <1>4, <1>6, <1>7, <1>8, <1>9 DEF WorkerStep

-----------------------------------------------------------------------------
(* The theorems.                                                             *)

LEMMA LoaderInit == Init => IInv
  <1> SUFFICES ASSUME Init PROVE IInv
    OBVIOUS
  <1>1. \A i : Times(loading, i) = 0 /\ Times(loaded, i) = 0
    <2> SUFFICES ASSUME NEW i PROVE Times(<<>>, i) = 0
      BY DEF Init
    <2>1. {n \in 1 .. Len(<<>>) : <<>>[n] = i} = {}
      OBVIOUS
    <2> QED
      BY <2>1, FS_EmptySet DEF Times
  <1>2. scene \in [IDs -> SceneRec] /\ terrain \in [IDs -> TerrainRec]
    BY DEF Init, SceneRec, TerrainRec, SceneState, Unknown
  <1>3. TypeOK
    <2>1. /\ loading \in Seq(IDs) /\ Len(loading) <= Capacity
          /\ loaded \in Seq(IDs) /\ Len(loaded) <= Capacity
      BY EmptySeq DEF Init
    <2>2. nextID \in 1 .. MaxScenes + 1 /\ answers \in [IDs -> Nat]
      BY DEF Init
    <2>3. worker \in WorkerRec
      BY DEF Init, WorkerRec
    <2>4. ignored = {} /\ raced \in BOOLEAN /\ exiting \in BOOLEAN /\ quit \in BOOLEAN /\ overrun \in BOOLEAN
      BY DEF Init
    <2> QED
      BY <1>2, <2>1, <2>2, <2>3, <2>4 DEF TypeOK, SceneRec, TerrainRec, WorkerRec
  <1>4. \A i \in IDs : scene[i].state = "unknown" /\ ~Registered(i)
    BY DEF Init, Unknown, Registered
  <1>5. \A g : Standing(g) = {}
    BY <1>4 DEF Standing
  <1>6. Grounds
    BY <1>4, <1>5, FS_EmptySet DEF Init, Grounds, Busy
  <1>7. ASSUME NEW i \in IDs PROVE Station(i)
    <2>1. Held(i) = 0 /\ answers[i] = 0 /\ ~(i < nextID)
      BY DEF Init, Held, IDs
    <2> QED
      BY <1>1, <1>4, <2>1 DEF Station, Stations
  <1>8. Running
    BY <1>7 DEF Init, Running
  <1> QED
    BY <1>3, <1>6, <1>8 DEF IInv

\* The thread does not hold an ID that has not been given out.
LEMMA NextUnheld ==
    ASSUME IInv, ~exiting, nextID \in IDs
    PROVE  worker.at \in Busy => worker.id # nextID
  <1>1. Station(nextID)
    BY DEF IInv, Running
  <1>2. Held(nextID) = 0
    BY <1>1, CountsNat DEF IInv, Station, Stations, IDs
  <1> QED
    BY <1>2 DEF Held, Busy

LEMMA LoaderStep == IInv /\ [Next]_vars => IInv'
  <1> SUFFICES ASSUME IInv, [Next]_vars PROVE IInv'
    OBVIOUS
  <1>1. ASSUME NEW m \in Maps, NEW k \in Copies, OnCreateMapNotify(m, k) PROVE IInv'
    <2>1. nextID <= MaxScenes /\ ~exiting
      BY <1>1, Zenon DEF OnCreateMapNotify
    <2>2. nextID \in IDs
      BY <2>1 DEF IInv, TypeOK, IDs
    <2> QED
      BY <1>1, <2>1, <2>2, NextUnheld, CreateStep, CreateRunning DEF IInv
  <1>7. ASSUME NEW m \in Maps, OnCreateMapNotifyUnlisted(m) PROVE IInv'
    <2>1. /\ m \in Maps \ MapList /\ ignored' = ignored \cup {m}
          /\ UNCHANGED <<scene, terrain, nextID, loading, loaded, worker, raced, answers, exiting,
                         quit, overrun>>
      BY <1>7 DEF OnCreateMapNotifyUnlisted
    <2>2. TypeOK'
      BY <2>1 DEF IInv, TypeOK
    <2>3. Grounds'
      BY <2>1, SameGrounds DEF IInv, Grounds
    <2>4. Running'
      BY <2>1 DEF IInv, Running, Station, Stations, Held
    <2> QED
      BY <2>2, <2>3, <2>4 DEF IInv
  <1>2. ASSUME NEW m \in Maps, NEW k \in Copies, OnDeleteMapNotify(m, k) PROVE IInv'
    <2>1. ~exiting /\ GetScene(m, k) # 0 /\ DeleteScene(GetScene(m, k))
          /\ UNCHANGED <<nextID, loading, loaded, worker, answers, ignored, exiting, quit, overrun>>
      BY <1>2, Zenon DEF OnDeleteMapNotify
    <2>2. TypeOK' /\ Grounds'
      BY <2>1, GetSceneFacts, DeleteStep DEF IInv
    <2> QED
      BY <1>2, <2>1, <2>2, DeleteRunning DEF IInv
  <1>3. CASE ProcessLoadedScene
    BY <1>3, ProcessStep, ProcessRunning DEF ProcessLoadedScene, IInv
  <1>4. CASE UnInit
    <2>1. exiting'
      BY <1>4 DEF UnInit
    <2> QED
      BY <1>4, <2>1, UnInitStep DEF IInv, Running
  <1>5. CASE WorkerStep
    <2>1. UNCHANGED exiting
      BY <1>5 DEF WorkerStep, WorkerPop, WorkerQuit, WorkerLookup, WorkerCheck, WorkerTerrain,
                  WorkerRegions, WorkerPost, WorkerCrash
    <2>2. Running'
      BY <1>5, <2>1, WorkerRunning DEF IInv, Running
    <2> QED
      BY <1>5, <2>2, WorkerGrounds DEF IInv
  <1>6. CASE UNCHANGED vars
    <2>1. TypeOK'
      BY <1>6 DEF IInv, TypeOK, vars
    <2>2. Grounds'
      BY <1>6, SameGrounds DEF IInv, vars, Grounds
    <2>3. Running'
      BY <1>6 DEF IInv, vars, Running, Station, Stations, Held
    <2> QED
      BY <2>1, <2>2, <2>3 DEF IInv
  <1> QED
    BY <1>1, <1>2, <1>3, <1>4, <1>5, <1>6, <1>7 DEF Next

THEOREM LoaderInvariant == Spec => []IInv
  BY LoaderInit, LoaderStep, PTL DEF Spec

\* Whatever is created, loaded, deleted and stopped in whatever order, no terrain
\* gives up more references than it had and neither list overflows.
THEOREM LoaderTyped == Spec => []TypeOK
  <1>1. IInv => TypeOK
    BY DEF IInv
  <1> QED
    BY <1>1, LoaderInvariant, PTL

\* If lookups in m_SceneSet are not disturbed by the main loop's changes of it,
\* every scene the thread is sent is one it accepts: it never ends by itself.
THEOREM LoaderNeverGivesUp == ~RacyIndex => (Spec => []WorkerAlive)
  <1> SUFFICES ASSUME ~RacyIndex PROVE Spec => []WorkerAlive
    OBVIOUS
  <1>1. IInv => WorkerAlive
    BY DEF IInv, Running, WorkerAlive
  <1> QED
    BY <1>1, LoaderInvariant, PTL

\* Nothing the thread works on is deleted under it while the server runs: only
\* scenes in state ssNormal are deleted on request, and those have been answered.
THEOREM WorkIsOnLiveScenes == Spec => []SceneOutlivesWork
  <1>1. IInv => SceneOutlivesWork
    <2> SUFFICES ASSUME IInv, ~exiting, worker.at \in {"check", "terrain", "regions", "post"}
                 PROVE  /\ Registered(worker.id)
                        /\ terrain[scene[worker.id].ground].refs > 0
      BY DEF SceneOutlivesWork, LoadsLiveScene
    <2> DEFINE g == scene[worker.id].ground
    <2>1. worker.id \in IDs /\ Held(worker.id) = 1
      BY DEF IInv, Grounds, Busy, Held
    <2>2. Registered(worker.id)
      BY <2>1 DEF IInv, Running, Station, Registered
    <2>3. g \in IDs /\ terrain[g].refs = Cardinality(Standing(g)) /\ worker.id \in Standing(g)
      BY <2>1, <2>2 DEF IInv, Grounds, Standing
    <2>4. Cardinality(Standing(g)) # 0 /\ Cardinality(Standing(g)) \in Nat
      BY <2>3, StandingFinite, FS_EmptySet, FS_CardinalityType
    <2> QED
      BY <2>2, <2>3, <2>4
  <1> QED
    BY <1>1, LoaderInvariant, PTL

\* A terrain is referenced once by each scene that stands on it, also while the
\* server deletes its scenes at the end, and finished scenes stand on loaded ones.
THEOREM TerrainReferences == Spec => []TerrainShared
  <1>1. IInv => TerrainShared
    BY DEF IInv, Grounds, TerrainShared, Standing
  <1> QED
    BY <1>1, LoaderInvariant, PTL

\* No request for a map is dropped or answered twice, whatever fails and however
\* full the lists are, unless the loaded list overflows.
THEOREM OneAnswerEach == ~RacyIndex => (Spec => []AnsweredOnce)
  <1> SUFFICES ASSUME ~RacyIndex PROVE Spec => []AnsweredOnce
    OBVIOUS
  <1>1. IInv => AnsweredOnce
    <2> SUFFICES ASSUME IInv, ~exiting, ~overrun, NEW i \in IDs
                 PROVE  Stations(i) = IF i < nextID THEN 1 ELSE 0
      BY DEF AnsweredOnce, Stations
    <2>1. Station(i) /\ i \in Nat /\ nextID \in Nat
      BY DEF IInv, Running, TypeOK, IDs
    <2> QED
      BY <2>1 DEF Station
  <1> QED
    BY <1>1, LoaderInvariant, PTL

=============================================================================
