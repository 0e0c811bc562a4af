CONSTANTS
    Players = {a, b}
    NoPlayer = NoPlayer
    NSlots = 2
    NGrids = 2
    MoneyLimit = 2
    MaxStack = 2
    MaxMoves = 4
CHECK_DEADLOCK FALSE
SPECIFICATION Spec
INVARIANTS TypeOK Paired ConfirmedSeen ItemsConserved MoneyConserved
PROPERTIES FairExchangeSpec
