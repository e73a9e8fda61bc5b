SPECIFICATION Spec
CONSTANTS
    Thread = {t1, t2, t3}
    Key = {1, 2}
    NBuckets = 2
    Values = {0}
    Impatient = FALSE
    Requeue = TRUE
    Broadcast = {FALSE}
    Garbage = {FALSE}
    t1 = t1
    t2 = t2
    t3 = t3
SYMMETRY Symmetry
INVARIANT EveryWaiterListed
CHECK_DEADLOCK FALSE
