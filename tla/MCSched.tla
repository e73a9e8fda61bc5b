------------------------------ MODULE MCSched ------------------------------
EXTENDS Sched, TLC

CONSTANTS h1, h2, w

\* Two threads stop the third, which waits for events.
Waits == {w}
Stops == [t \in Thread |-> IF t = w THEN {} ELSE {w}]
Symmetry == Permutations(Processor) \cup Permutations({h1, h2})
=============================================================================
