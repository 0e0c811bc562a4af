CONSTANTS
    Roles = {r1, r2}
    NoRole = NoRole
    BufSize = 2
    MaxPackages = 3
    MaxLogins = 3
    MaxSaves = 1
    Fails = TRUE
CHECK_DEADLOCK FALSE
SPECIFICATION Spec
SYMMETRY Symmetry
INVARIANTS TypeOK
PROPERTIES LoadedFresh RoleArrives
