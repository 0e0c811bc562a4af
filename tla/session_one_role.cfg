CONSTANTS
    Roles = {r1}
    Conns = {c1, c2}
    Maps = {m1}
    NoRole = NoRole
    NoConn = NoConn
    NoMap = NoMap
    LoginTimeout = 1
    SyncTimeout = 1
    LogoutWaiting = 1
    MaxBlocks = 2
    NepKeys = 2
    MaxSessions = 2
    Orderly = TRUE
    LateExtPoints = FALSE
    TransferMeets = {"absent", "gsWaitForConnect"}
    GSListEnds = {TRUE}
CHECK_DEADLOCK FALSE
SPECIFICATION FairSpec
INVARIANTS TypeOK Binding Orphan FreeList Pending InScene FullyLoaded
PROPERTIES SavedBeforeGone LoginSettles VanishedClientLeaves QuitCompletes
