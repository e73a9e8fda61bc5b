SPECIFICATION Spec
SYMMETRY Symmetry
VIEW View
CONSTANTS
    t1 = t1
    t2 = t2
    t3 = t3
    Thread = {t1, t2, t3}
    Key = {1, 3}
    NBuckets = 1
    Values = {0, 1}
    Impatient = TRUE
    Requeue = FALSE
    Broadcast = {TRUE}
    Garbage = {FALSE}
CHECK_DEADLOCK FALSE
INVARIANTS EveryWaiterListed NoStaleWaiter
