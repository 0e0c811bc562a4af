CONSTANTS
    Players = {a, b, c}
    NoPlayer = NoPlayer
    Slayers = {c}
    Travellers = {a}
    Fighters = {b}
CHECK_DEADLOCK FALSE
SPECIFICATION FairSpec
INVARIANTS TypeOK Partners OneFlag
PROPERTIES StageEnds LeftBehindIsFree
