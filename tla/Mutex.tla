------------------------------- MODULE Mutex -------------------------------
(***************************************************************************)
(* What a sleeping mutual-exclusion lock of the kernel promises.  A thread *)
(* takes the lock when it is free and waits when it is not; the lock goes  *)
(* from its holder straight to the thread that has waited longest, to      *)
(* nobody else, and becomes free only when nobody waits.  A waiter may     *)
(* give up at any time.  KMutex implements this specification.             *)
(***************************************************************************)
EXTENDS KernQueue

CONSTANT Thread     \* the threads of the kernel

VARIABLES
    holders,        \* the threads that hold the lock
    waiting         \* the threads that wait for it, oldest first

Init == holders = {} /\ waiting = << >>

Acquire(t) ==
    /\ holders = {}
    /\ holders' = {t}
    /\ waiting' = waiting

\* A thread that finds the lock held waits behind the others.
Wait(t) ==
    /\ holders # {} /\ t \notin holders
    /\ waiting' = Append(waiting, t)
    /\ holders' = holders

GiveUp(i) ==
    /\ waiting' = remqueue(waiting, i)
    /\ holders' = holders

\* The lock is free again: nobody waits for it.
Release(t) ==
    /\ holders = {t} /\ waiting = << >>
    /\ holders' = {}
    /\ waiting' = waiting

\* The holder gives the lock to the oldest waiter without it ever being free.
Pass(t) ==
    /\ holders = {t} /\ waiting # << >>
    /\ holders' = {Head(waiting)}
    /\ waiting' = Tail(waiting)

Next ==
    \/ \E t \in Thread : Acquire(t) \/ Wait(t) \/ Release(t) \/ Pass(t)
    \/ \E i \in 1 .. Len(waiting) : GiveUp(i)

Spec == Init /\ [][Next]_<<holders, waiting>>
=============================================================================
