SPECIFICATION FairSpec
CONSTANTS
    t1 = t1
    t2 = t2
    t3 = t3
    Thread = {t1, t2, t3}
    NoThread = NoThread
    Hold = {1, 2}
    MaxDepth = 1
    RecThread = {t1}
    MultiProcessor = TRUE
    CanSleep = TRUE
INVARIANTS Exclusion ReadCountExact NoLostWakeup
PROPERTIES ImplementsRWLock UpgradeCompletes WriterGetsLock
