CONSTANTS
    Clients = {c1, c2}
    MaxId = 3
    Absent = Absent
    NoUser = NoUser
SPECIFICATION Spec
SYMMETRY RequestSymmetry
CHECK_DEADLOCK FALSE
INVARIANTS
    ActiveAdminRemains
