----------------------------- MODULE SceneLoader -----------------------------
(***************************************************************************)
(* Creation and deletion of maps: the main loop takes the center's         *)
(* requests, registers a scene and posts its ID to the loading thread of   *)
(* KRecorderSceneLoaderNormal; once per frame it takes one loaded scene    *)
(* back, completes it and answers the center.  Both lists are KCircleLists *)
(* (CircleList proves them queues); all else is shared without a lock, so  *)
(* the thread's work is cut where the main loop can come between.  The     *)
(* copies of a map share one reference counted terrain.                    *)
(***************************************************************************)
EXTENDS Integers, Sequences, FiniteSets

CONSTANTS
    Maps,           \* map IDs the center may ask for, above 0
    MapList,        \* those in m_MapListFile, the server's own list of maps
    Copies,         \* copy indices, above 0
    MaxScenes,      \* bound: how many scenes are ever made
    Capacity,       \* items a KCircleList holds (63 in the code)
    RacyIndex       \* a lookup in m_SceneSet, a std::map, may miss its scene when
                    \* the other thread changes the set meanwhile

ASSUME LoaderAssumption ==
    /\ Maps \subseteq Nat \ {0} /\ Copies \subseteq Nat \ {0} /\ MapList \subseteq Maps
    /\ MaxScenes \in Nat /\ Capacity \in Nat \ {0}
    /\ RacyIndex \in BOOLEAN

VARIABLES
    scene,      \* the KScene of each ID m_SceneSet has given out
    terrain,    \* the KTerrainScene each scene made, unless it shares another's
    nextID,     \* m_SceneSet.m_dwNextID
    loading,    \* m_LoadingList
    loaded,     \* m_LoadedList
    worker,     \* where ThreadFunction is, and with which scene
    raced,      \* m_SceneSet has changed since the thread's lookup began
    answers,    \* how many answers the center got to the request for each ID
    ignored,    \* maps the center asked for and was never to hear of
    exiting,    \* KSO3World::UnInit has begun
    quit,       \* m_bQuit
    overrun     \* a loaded scene found m_LoadedList full and was forgotten

vars == <<scene, terrain, nextID, loading, loaded, worker, raced, answers, ignored, exiting, quit, overrun>>

IDs == 1 .. MaxScenes

\* "unknown" before the ID is given out, "deleted" after DeleteScene.
SceneState == {"unknown", "ssLoading", "ssCompleteLoading", "ssFailedLoading", "ssNormal",
               "deleted"}

Unknown == [map |-> 0, copy |-> 0, state |-> "unknown", ground |-> 0]

TypeOK ==
    /\ scene \in [IDs -> [map : Maps \cup {0}, copy : Copies \cup {0},
                          state : SceneState, ground : IDs \cup {0}]]
    /\ terrain \in [IDs -> [refs : Nat, m_bLoadFlag : BOOLEAN]]
    /\ nextID \in 1 .. MaxScenes + 1
    /\ loading \in Seq(IDs) /\ Len(loading) <= Capacity
    /\ loaded \in Seq(IDs) /\ Len(loaded) <= Capacity
    /\ worker \in [at : {"asleep", "lookup", "check", "terrain", "regions", "post", "ended"},
                   id : IDs \cup {0}]
    /\ raced \in BOOLEAN
    /\ answers \in [IDs -> Nat] /\ ignored \subseteq Maps \ MapList
    /\ exiting \in BOOLEAN /\ quit \in BOOLEAN /\ overrun \in BOOLEAN

Init ==
    /\ scene = [i \in IDs |-> Unknown]
    /\ terrain = [i \in IDs |-> [refs |-> 0, m_bLoadFlag |-> FALSE]]
    /\ nextID = 1
    /\ loading = <<>> /\ loaded = <<>>
    /\ worker = [at |-> "asleep", id |-> 0]
    /\ raced = FALSE
    /\ answers = [i \in IDs |-> 0] /\ ignored = {}
    /\ exiting = FALSE /\ quit = FALSE /\ overrun = FALSE

-----------------------------------------------------------------------------

Registered(i) == scene[i].state \notin {"unknown", "deleted"}

\* KSO3World::GetScene: the first scene of the map in ID order, whatever its
\* state; copy index 0 stands for any copy.  0 when there is none.
GetScene(m, k) ==
    LET matches == {i \in IDs : Registered(i) /\ scene[i].map = m /\ k \in {0, scene[i].copy}}
    IN IF matches = {} THEN 0 ELSE CHOOSE i \in matches : \A j \in matches : i <= j

\* The terrain the new scene i of map m uses: another copy's, or its own.
GroundOf(i, m) == IF GetScene(m, 0) = 0 THEN i ELSE scene[GetScene(m, 0)].ground

AddRef(t, g) == [t EXCEPT ![g].refs = @ + 1]

\* Mutant: a reference is given up twice.
ReleaseTwice(t, g) == [t EXCEPT ![g].refs = @ - 2]

Release(t, g) == [t EXCEPT ![g].refs = @ - 1]

\* KScene::UnInit and the deletion of the scene.
DeleteScene(i) ==
    /\ scene' = [scene EXCEPT ![i].state = "deleted"]
    /\ terrain' = Release(terrain, scene[i].ground)
    /\ raced' = TRUE

Answer(i) == answers' = [answers EXCEPT ![i] = @ + 1]

-----------------------------------------------------------------------------
(* The main loop.                                                          *)

\* Mutant: the scene is posted, and then found to be unusable.
PostedThenDeleted(m, k) ==
    /\ m \in MapList /\ nextID <= MaxScenes /\ GetScene(m, k) = 0 /\ ~exiting
    /\ nextID' = nextID + 1
    /\ raced' = TRUE
    /\ Len(loading) < Capacity
    /\ loading' = Append(loading, nextID)
    /\ scene' = [scene EXCEPT ![nextID].state = "deleted"]
    /\ Answer(nextID)
    /\ UNCHANGED <<terrain, loaded, worker, ignored, exiting, quit, overrun>>

\* The center asks for a copy this server does not have.  The request fails, its
\* scene being deleted again, when the map's data is bad or the list is full.
OnCreateMapNotify(m, k) ==
    LET i == nextID
        g == GroundOf(i, m)
    IN
    /\ m \in MapList /\ i <= MaxScenes /\ GetScene(m, k) = 0 /\ ~exiting
    /\ nextID' = i + 1
    /\ raced' = TRUE
    /\ \/ /\ Len(loading) < Capacity
          /\ scene' = [scene EXCEPT ![i] = [map |-> m, copy |-> k, state |-> "ssLoading",
                                            ground |-> g]]
          /\ terrain' = AddRef(terrain, g)
          /\ loading' = Append(loading, i)
          /\ UNCHANGED answers
       \/ /\ scene' = [scene EXCEPT ![i].state = "deleted"]
          /\ Answer(i)
          /\ UNCHANGED <<terrain, loading>>
    /\ UNCHANGED <<loaded, worker, ignored, exiting, quit, overrun>>

\* A map the list does not have fails before there is a scene, and its failure is
\* not reported: DoCreateMapRespond looks the map up, too, and gives up.
OnCreateMapNotifyUnlisted(m) ==
    /\ m \notin MapList /\ ~exiting
    /\ ignored' = ignored \cup {m}
    /\ UNCHANGED <<scene, terrain, nextID, loading, loaded, worker, raced, answers, exiting, quit,
                   overrun>>

\* Mutant: a map that is still being loaded is deleted, too.
DeletesAnyMap(m, k) ==
    /\ ~exiting
    /\ GetScene(m, k) # 0
    /\ DeleteScene(GetScene(m, k))
    /\ UNCHANGED <<nextID, loading, loaded, worker, answers, ignored, exiting, quit, overrun>>

\* The center deletes only maps whose creation was reported.
OnDeleteMapNotify(m, k) ==
    LET i == GetScene(m, k) IN
    /\ ~exiting
    /\ i # 0 /\ scene[i].state = "ssNormal"
    /\ DeleteScene(i)
    /\ UNCHANGED <<nextID, loading, loaded, worker, answers, ignored, exiting, quit, overrun>>

\* Mutant: a map that failed to load is deleted without an answer.
FailureUnanswered ==
    /\ loaded # <<>> /\ ~exiting
    /\ loaded' = Tail(loaded)
    /\ scene[Head(loaded)].state = "ssFailedLoading" /\ DeleteScene(Head(loaded))
    /\ UNCHANGED <<nextID, loading, worker, answers, ignored, exiting, quit, overrun>>

\* One loaded scene per frame; CompleteLoading may still reject it.
ProcessLoadedScene ==
    LET i == Head(loaded) IN
    /\ loaded # <<>> /\ ~exiting
    /\ loaded' = Tail(loaded)
    /\ IF Registered(i)
       THEN /\ Answer(i)
            /\ \/ /\ scene[i].state = "ssCompleteLoading"
                  /\ scene' = [scene EXCEPT ![i].state = "ssNormal"]
                  /\ UNCHANGED <<terrain, raced>>
               \/ DeleteScene(i)
       ELSE UNCHANGED <<scene, terrain, raced, answers>>
    /\ UNCHANGED <<nextID, loading, worker, ignored, exiting, quit, overrun>>

\* Mutant: releasing the loader does not tell the thread to quit.
UnInitForgetsQuit ==
    /\ ~exiting
    /\ exiting' = TRUE
    /\ UNCHANGED <<scene, terrain, nextID, loading, loaded, worker, raced, answers, ignored, quit, overrun>>

\* KSO3World::UnInit: first every scene is deleted, one by one, and only then is
\* the loader released, which sets m_bQuit and waits for the thread.
UnInit ==
    /\ \/ /\ ~exiting
          /\ exiting' = TRUE
          /\ UNCHANGED <<scene, terrain, raced, quit>>
       \/ /\ exiting
          /\ \E i \in IDs : Registered(i) /\ DeleteScene(i)
          /\ UNCHANGED <<exiting, quit>>
       \/ /\ exiting /\ ~quit
          /\ \A i \in IDs : ~Registered(i)
          /\ quit' = TRUE
          /\ UNCHANGED <<scene, terrain, raced, exiting>>
    /\ UNCHANGED <<nextID, loading, loaded, worker, answers, ignored, overrun>>

-----------------------------------------------------------------------------
(* The loading thread, ThreadFunction.                                     *)

WorkerAt(here, there) == worker.at = here /\ worker' = [worker EXCEPT !.at = there]

\* m_bQuit is read before the thread sleeps, so it takes one more item after it.
WorkerPop ==
    /\ worker.at = "asleep"
    /\ loading # <<>>
    /\ worker' = [at |-> "lookup", id |-> Head(loading)]
    /\ loading' = Tail(loading)
    /\ raced' = FALSE
    /\ UNCHANGED <<scene, terrain, nextID, loaded, answers, ignored, exiting, quit, overrun>>

WorkerQuit ==
    /\ quit /\ loading = <<>>
    /\ WorkerAt("asleep", "ended")
    /\ UNCHANGED <<scene, terrain, nextID, loading, loaded, raced, answers, ignored, exiting, quit, overrun>>

\* A scene that is not found ends the thread for ever.
WorkerLookup ==
    /\ worker.at = "lookup"
    /\ \/ Registered(worker.id) /\ WorkerAt("lookup", "check")
       \/ /\ ~Registered(worker.id) \/ (RacyIndex /\ raced)
          /\ WorkerAt("lookup", "ended")
    /\ UNCHANGED <<scene, terrain, nextID, loading, loaded, raced, answers, ignored, exiting, quit, overrun>>

\* A scene deleted under the thread: it reads freed memory and runs on, or crashes.
WorkerCrash ==
    /\ worker.at \in {"check", "terrain", "regions"} /\ ~Registered(worker.id)
    /\ worker' = [worker EXCEPT !.at = "ended"]
    /\ UNCHANGED <<scene, terrain, nextID, loading, loaded, raced, answers, ignored, exiting, quit, overrun>>

\* So does one in another state.
WorkerCheck ==
    /\ worker.at = "check"
    /\ IF scene[worker.id].state \in {"ssLoading", "deleted"}
       THEN WorkerAt("check", "terrain")
       ELSE WorkerAt("check", "ended")
    /\ UNCHANGED <<scene, terrain, nextID, loading, loaded, raced, answers, ignored, exiting, quit, overrun>>

\* What ServerLoad returned becomes the scene's state.
Finish(state) ==
    /\ worker' = [worker EXCEPT !.at = "post"]
    /\ scene' = IF Registered(worker.id) THEN [scene EXCEPT ![worker.id].state = state]
                ELSE scene

\* Mutant: the terrain is loaded again for every copy.
TerrainLoadedAgain ==
    LET g == scene[worker.id].ground IN
    /\ worker.at = "terrain"
    /\ \/ /\ terrain' = [terrain EXCEPT ![g].m_bLoadFlag = TRUE]
          /\ WorkerAt("terrain", "regions")
          /\ UNCHANGED scene
       \/ /\ terrain' = [terrain EXCEPT ![g].m_bLoadFlag = FALSE]
          /\ Finish("ssFailedLoading")
    /\ UNCHANGED <<nextID, loading, loaded, raced, answers, ignored, exiting, quit, overrun>>

\* ServerLoad, first half: the first scene of a map to come this far creates
\* the terrain anew; until all of it is read, the flag stays false.
WorkerTerrain ==
    LET g == scene[worker.id].ground IN
    /\ worker.at = "terrain"
    /\ \/ /\ terrain' = [terrain EXCEPT ![g].m_bLoadFlag = TRUE]
          /\ WorkerAt("terrain", "regions")
          /\ UNCHANGED scene
       \/ UNCHANGED terrain /\ Finish("ssFailedLoading")
    /\ UNCHANGED <<nextID, loading, loaded, raced, answers, ignored, exiting, quit, overrun>>

\* ServerLoad, second half: revive managers, NPC and doodad files.
WorkerRegions ==
    /\ worker.at = "regions"
    /\ Finish("ssCompleteLoading") \/ Finish("ssFailedLoading")
    /\ UNCHANGED <<terrain, nextID, loading, loaded, raced, answers, ignored, exiting, quit, overrun>>

\* Mutant: only a successful load is reported.
FailurePostedNever ==
    /\ WorkerAt("post", IF quit THEN "ended" ELSE "asleep")
    /\ loaded' = IF scene[worker.id].state = "ssCompleteLoading" /\ Len(loaded) < Capacity
                 THEN Append(loaded, worker.id) ELSE loaded
    /\ UNCHANGED <<scene, terrain, nextID, loading, raced, answers, ignored, exiting, quit, overrun>>

\* Push's result is not looked at.
WorkerPost ==
    /\ WorkerAt("post", IF quit THEN "ended" ELSE "asleep")
    /\ loaded' = IF Len(loaded) < Capacity THEN Append(loaded, worker.id) ELSE loaded
    /\ overrun' = (overrun \/ Len(loaded) = Capacity)
    /\ UNCHANGED <<scene, terrain, nextID, loading, raced, answers, ignored, exiting, quit>>

WorkerStep ==
    \/ WorkerPop \/ WorkerQuit \/ WorkerLookup \/ WorkerCheck
    \/ WorkerTerrain \/ WorkerRegions \/ WorkerPost \/ WorkerCrash

Next ==
    \/ \E m \in Maps, k \in Copies : OnCreateMapNotify(m, k) \/ OnDeleteMapNotify(m, k)
    \/ \E m \in Maps : OnCreateMapNotifyUnlisted(m)
    \/ ProcessLoadedScene \/ UnInit
    \/ WorkerStep

Spec == Init /\ [][Next]_vars

\* The thread runs, the main loop calls ProcessLoadedScene in every frame, and
\* UnInit, once begun, goes on to its end.
FairSpec ==
    /\ Spec
    /\ WF_vars(WorkerStep) /\ WF_vars(ProcessLoadedScene) /\ WF_vars(exiting /\ UnInit)

-----------------------------------------------------------------------------

Times(q, i) == Cardinality({n \in 1 .. Len(q) : q[n] = i})

Held(i) == IF worker.id = i /\ worker.at \notin {"asleep", "ended"} THEN 1 ELSE 0

\* The center's request for a map of the list is on exactly one of its stations, the loading
\* list, the thread, the loaded list, or answered: none is dropped by a full
\* loading list, a failed load or a deleted scene, and none is answered twice.
\* Only frames so slow that the loaded list overflows break this.  A request for
\* any other map gets no ID, and no answer ever: it is among the ignored.
AnsweredOnce == exiting \/ overrun \/ \A i \in IDs :
    Times(loading, i) + Held(i) + Times(loaded, i) + answers[i] = (IF i < nextID THEN 1 ELSE 0)

\* The loading thread never gives up: each scene it is sent is registered and in
\* the state it insists on, although the main loop goes on creating and deleting
\* scenes.  Without the thread no map is ever loaded again.
WorkerAlive == exiting \/ worker.at # "ended"

\* ServerLoad asserts m_pTerrainScene: while the thread works on a scene, neither
\* the scene nor the terrain it shares with other copies is deleted under it.
LoadsLiveScene ==
    worker.at \in {"check", "terrain", "regions", "post"} =>
        /\ Registered(worker.id)
        /\ terrain[scene[worker.id].ground].refs > 0

\* The same, as long as the server runs.
SceneOutlivesWork == exiting \/ LoadsLiveScene

\* A terrain has as many references as there are scenes standing on it, and one
\* that a finished scene stands on is completely loaded and stays so, also when
\* the next copy of the map is loaded, or fails to be.
TerrainShared ==
    /\ \A g \in IDs : terrain[g].refs = Cardinality({i \in IDs : Registered(i) /\ scene[i].ground = g})
    /\ \A i \in IDs : scene[i].state \in {"ssCompleteLoading", "ssNormal"} =>
          terrain[scene[i].ground].m_bLoadFlag

\* Every request for a map of the list is answered in the end, unless the server
\* stops or frames are so slow that the loaded list overflows.
CreateAnswered == \A i \in IDs : (i < nextID) ~> (answers[i] = 1 \/ exiting \/ overrun)

\* Stopping the server ends the loading thread, which UnInit waits for, whatever
\* the thread was doing and however many maps were still to be loaded.
StopCompletes == exiting ~> (quit /\ worker.at = "ended")

=============================================================================
