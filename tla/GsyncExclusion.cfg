SPECIFICATION Spec
CONSTANTS
    Thread = {t1, t2, t3}
    Key = {1}
    NBuckets = 1
    Values = {0}
    Impatient = TRUE
    Requeue = FALSE
    Broadcast = {FALSE}
    Garbage = {FALSE}
    t1 = t1
    t2 = t2
    t3 = t3
SYMMETRY Symmetry
INVARIANT Exclusion
CHECK_DEADLOCK FALSE
