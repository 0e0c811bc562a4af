CONSTANTS
    Maps = {1, 2, 3}
    MapList = {1, 2}
    Copies = {1, 2}
    MaxScenes = 3
    Capacity = 2
    RacyIndex = FALSE
CHECK_DEADLOCK FALSE
SPECIFICATION FairSpec
INVARIANTS TypeOK WorkerAlive SceneOutlivesWork TerrainShared AnsweredOnce
PROPERTIES CreateAnswered StopCompletes
