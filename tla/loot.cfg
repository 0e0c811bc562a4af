CONSTANTS
    a = a
    b = b
    LooterList <- TwoLooters
    Items = {i1, i2}
    Good = {i1}
    Money = 3
    Points = 2
    RollTime = 3
    OverLootTime = 3
CHECK_DEADLOCK FALSE
SPECIFICATION FairSpec
INVARIANTS TypeOK NothingForgotten MoneyShared
PROPERTIES WinnersItem NothingStuck
