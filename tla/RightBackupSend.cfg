SPECIFICATION Spec
CONSTANTS
    Space = {s1}
    Name = {n1, n2}
    Port = {p1, p2}
    s1 = s1
    n1 = n1
    n2 = n2
    p1 = p1
    p2 = p2
    Null = Null
    UREFS_MAX = 3
    Slots = 1
    MaxLoose = 2
    MaxSrights = 2
    MaxEntries = 2
    MaxMade <- Made
    Requests <- Registered
    Backup = {p2}
    Kinds = {"port destroyed"}
SYMMETRY Symmetry
INVARIANT SrightsExact
CHECK_DEADLOCK FALSE
