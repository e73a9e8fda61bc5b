CONSTANTS
    t1 = t1
    t2 = t2
    t3 = t3
    p1 = p1
    s1 = s1
    Thread = {t1, t2, t3}
    Port = {p1}
    Pset = {s1}
    NoPset = NoPset
    Size = {1}
    Shrink = 0
    Limits = {1, 2}
    Timeouts = {"none", "some", "zero"}
    MaxSent = 3
    MultiProcessor = FALSE
SPECIFICATION Spec
CHECK_DEADLOCK FALSE
SYMMETRY Symmetry
VIEW View
INVARIANTS Conservation MsgcountExact NobodyWaitsInVain NoStrandedSender NoStrangeWakeup TimeoutWasAskedFor
