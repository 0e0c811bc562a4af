CONSTANTS
    Maps = {1}
    MapList = {1}
    Copies = {1, 2}
    MaxScenes = 2
    Capacity = 2
    RacyIndex = FALSE
CHECK_DEADLOCK FALSE
SPECIFICATION Spec
INVARIANTS LoadsLiveScene
