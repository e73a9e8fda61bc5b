SPECIFICATION Spec
CONSTANTS
    Space = {s1, s2}
    Name = {n1, n2}
    Port = {p1}
    s1 = s1
    s2 = s2
    n1 = n1
    n2 = n2
    p1 = p1
    Null = Null
    UREFS_MAX = 3
    Slots = 2
    MaxLoose = 2
    MaxSrights = 2
    MaxEntries = 2
    MaxMade <- Made
    Requests <- Registered
    Backup = {}
    Kinds = {"dead name", "no senders"}
SYMMETRY Symmetry
INVARIANT SrightsExact
INVARIANT SorightsExact
INVARIANT ReferencesExact
INVARIANT OneName
INVARIANT UrefsInRange
INVARIANT RequestsMatch
PROPERTY NoSendersTaken
CHECK_DEADLOCK FALSE
