CONSTANTS
    Roles = {r1, r2}
    NoRole = NoRole
    BufSize = 2
    MaxPackages = 2
    MaxLogins = 3
    MaxSaves = 1
    Fails = FALSE
CHECK_DEADLOCK FALSE
SPECIFICATION Spec
INVARIANTS AccountBeforeRole
