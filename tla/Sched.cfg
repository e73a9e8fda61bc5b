SPECIFICATION Spec
SYMMETRY Symmetry
CONSTANTS
    h1 = h1
    h2 = h2
    w = w
    Thread = {h1, h2, w}
    Processor = {p1, p2}
    Event = {e}
    Null = Null
    Idle = Idle
    MayWait <- Waits
    MayStop <- Stops
INVARIANTS OnePlace LinksUsedOnce NoPanic IdleExact StaysStopped NoStrandedStopper
PROPERTY FollowsTable
