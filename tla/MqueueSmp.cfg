CONSTANTS
    Thread = {t1, t2, t3}
    Port = {p1}
    Pset = {}
    NoPset = NoPset
    Size = {1, 2}
    Shrink = 1
    Limits = {1}
    Timeouts = {"some"}
    MaxSent = 3
    MultiProcessor = TRUE
SPECIFICATION Spec
SYMMETRY Symmetry
VIEW View
CHECK_DEADLOCK FALSE
INVARIANTS Conservation NoStrandedSender
