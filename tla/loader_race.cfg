CONSTANTS
    Maps = {1}
    MapList = {1}
    Copies = {1, 2}
    MaxScenes = 3
    Capacity = 2
    RacyIndex = TRUE
CHECK_DEADLOCK FALSE
SPECIFICATION Spec
INVARIANTS WorkerAlive
