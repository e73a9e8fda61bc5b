SPECIFICATION Spec
SYMMETRY Symmetry
VIEW View
CONSTANTS
    t1 = t1
    t2 = t2
    t3 = t3
    Thread = {t1, t2, t3}
    Key = {1, 2}
    NBuckets = 2
    Values = {0}
    Impatient = FALSE
    Requeue = TRUE
    Broadcast = {FALSE}
    Garbage = {FALSE}
CHECK_DEADLOCK FALSE
INVARIANT NoLockDeadlock
