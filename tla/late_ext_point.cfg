CONSTANTS
    Roles = {r1}
    Conns = {c1}
    Maps = {m1}
    NoRole = NoRole
    NoConn = NoConn
    NoMap = NoMap
    LoginTimeout = 1
    SyncTimeout = 1
    LogoutWaiting = 1
    MaxBlocks = 0
    NepKeys = 1
    MaxSessions = 2
    Orderly = TRUE
    LateExtPoints = TRUE
    TransferMeets = {"absent", "gsWaitForConnect"}
    GSListEnds = {TRUE}
CHECK_DEADLOCK FALSE
SPECIFICATION Spec
INVARIANTS PointerRegistered
