CONSTANTS
    Players = {a, b}
    NoPlayer = NoPlayer
    Slayers = {}
    Travellers = {a, b}
    Fighters = {a, b}
CHECK_DEADLOCK FALSE
SPECIFICATION Spec
INVARIANTS DuelDoesNotKill
